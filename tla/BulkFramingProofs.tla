-------------------------- MODULE BulkFramingProofs --------------------------
(***************************************************************************)
(* The framed connection is a channel of records: for every size of        *)
(* records, batch and socket buffer, however sends and reads are split,    *)
(* and wherever a frame is torn, unless a failed flush is forgotten.       *)
(***************************************************************************)
EXTENDS BulkFraming, SequenceTheorems, FiniteSetTheorems, TLAPS

-----------------------------------------------------------------------------
(* The invariant.                                                          *)

Produced == [kind : {"bulk", "control"}, size : Sizes, ok : {TRUE}]
Received == [kind : {"bulk", "control", "ERROR"}, size : Nat, ok : BOOLEAN]
Frames == [bulk : BOOLEAN, recs : Seq(Received)]
Unit == [frame : Frames, at : Nat]
EF == Control(Error)

(* Every variable keeps to its type.                                       *)
FramingTypes ==
    /\ apc \in {"run", "failing", "closing", "closed", "complete"}
    /\ rpc \in {"recv", "eof", "timeout", "bad", "gone"}
    /\ sent \in Seq(Produced) /\ buf \in Seq(Produced)
    /\ out \in Seq(Unit) /\ wire \in Seq(Unit) /\ rx \in Seq(Unit)
    /\ pend \in Seq(Received) /\ got \in Seq(Received)

(* The frame f holds the records of s after the first p.                   *)
Carries(f, p, s) ==
    /\ Len(f.recs) > 0 /\ p + Len(f.recs) <= Len(s)
    /\ \A k \in 1..Len(f.recs) : f.recs[k] = s[p + k]

(* Unit v may come after u: it is the next of the same frame, the first of *)
(* the next frame when u is the last of its own, or the first of the ERROR *)
(* frame, which may come anywhere.  p and q records were produced before   *)
(* those of their frames.                                                  *)
Follows(u, v, p, q) ==
    \/ v.frame = u.frame /\ v.at = u.at + 1 /\ q = p
    \/ /\ u.frame # EF /\ v.at = 1
       /\ v.frame = EF \/ (u.at = FrameSize(u.frame) /\ q = p + Len(u.frame.recs))

(* S is a stream of units that begins after b of the records s: pos[i] of  *)
(* them come before the frame of its i-th unit.                            *)
Placed(S, pos, b, s) ==
    /\ pos \in [1..Len(S) -> Nat]
    /\ \A i \in 1..Len(S) : /\ S[i].at \in 1..FrameSize(S[i].frame)
                            /\ S[i].frame # EF => Carries(S[i].frame, pos[i], s)
    /\ \A i \in 1..Len(S) : i + 1 <= Len(S) => Follows(S[i], S[i + 1], pos[i], pos[i + 1])
    /\ Len(S) > 0 /\ S[1].frame # EF => S[1].at = 1 /\ pos[1] = b
Stream(S, b, s) == \E pos : Placed(S, pos, b, s)

(* ... and ends with the last unit of a frame, after c records.            *)
EndsAt(S, pos, b, c) ==
    IF Len(S) = 0 THEN c = b
    ELSE /\ S[Len(S)].frame # EF /\ S[Len(S)].at = FrameSize(S[Len(S)].frame)
         /\ c = pos[Len(S)] + Len(S[Len(S)].frame.recs)
WholeStream(S, b, c, s) == \E pos : Placed(S, pos, b, s) /\ EndsAt(S, pos, b, c)

NoError(S) == \A i \in 1..Len(S) : S[i].frame # EF
ErrorRest(S) == \A i \in 1..Len(S) : S[i].frame = EF /\ S[i].at > 1

Under == rx \o (wire \o out)      \* the units under way
Before == Len(got) + Len(pend)    \* the records before them

StreamInv ==
    /\ Stream(Under, Before, sent)
    /\ apc \in {"run", "complete"} => WholeStream(Under, Before, Len(sent) - Len(buf), sent)
    /\ apc \notin {"closing", "closed"} => NoError(Under)

(* The batch holds the last records produced; a session that is over sends *)
(* nothing more.                                                           *)
BatchInv ==
    /\ apc \in {"run", "complete"} =>
        /\ Len(buf) <= Len(sent)
        /\ \A k \in 1..Len(buf) : /\ buf[k].kind = "bulk"
                                  /\ buf[k] = sent[Len(sent) - Len(buf) + k]
    /\ apc = "complete" => buf = <<>>
    /\ apc \in {"closed", "complete"} => out = <<>>

(* No more is read of a frame than its size.                               *)
ReadInv == Len(rx) > 0 => Len(rx) <= FrameSize(rx[1].frame)

(* What has arrived: the records produced, and when the ERROR frame has    *)
(* been reached at most one that is not, after which there is nothing more *)
(* that could be read.                                                     *)
Clean(r) == r.ok /\ r.kind # "ERROR"
AllClean(q) == \A k \in 1..Len(q) : Clean(q[k])
ArrivedInv ==
    /\ \A k \in 1..Len(got) : Clean(got[k]) => k <= Len(sent) /\ got[k] = sent[k]
    /\ \A k \in 1..Len(pend) :
        \/ Len(got) + k <= Len(sent) /\ pend[k] = sent[Len(got) + k]
        \/ /\ k = Len(pend)
           /\ \/ pend[k] = Error
              \/ /\ Len(got) + k <= Len(sent) /\ sent[Len(got) + k].size > 0
                 /\ pend[k] = [sent[Len(got) + k] EXCEPT !.ok = FALSE]
    /\ ~AllClean(got) => pend = <<>>
    /\ ~(AllClean(got) /\ AllClean(pend)) => apc \in {"closing", "closed"} /\ ErrorRest(Under)

(* The end of the stream is only read when the agent has closed it.        *)
EndInv == rpc = "eof" => apc \in {"closed", "complete"} /\ (apc = "complete" => got = sent)

FramingInv == FramingTypes /\ StreamInv /\ BatchInv /\ ReadInv /\ ArrivedInv /\ EndInv

(* All of it holds until a failed flush of roots is forgotten, which only  *)
(* happens on CPython 3.12 and later.                                      *)
LossInv == IF lost THEN unstable ELSE FramingInv

-----------------------------------------------------------------------------
(* Sizes.                                                                  *)

(* A set of natural numbers that is not empty has a least element.         *)
LEMMA LeastNat == ASSUME NEW T \in SUBSET Nat, T # {} PROVE \E m \in T : \A k \in T : m <= k
  <1> DEFINE R == OpToRel(<, Nat)
  <1>1. IsWellFoundedOn(R, Nat)
    BY NatLessThanWellFounded
  <1>2. \A x, y \in Nat : <<x, y>> \in R <=> x < y
    BY DEF OpToRel
  <1> HIDE DEF R
  <1>3. PICK m \in T : \A y \in T : ~(<<y, m>> \in R)
    BY <1>1, WFMin
  <1>4. ASSUME NEW k \in T PROVE m <= k
    <2>1. ~(k < m) /\ k \in Nat /\ m \in Nat
      BY <1>2, <1>3
    <2> QED
      BY <2>1
  <1> QED
    BY <1>4

(* A set of numbers with 0 and every successor is the set of all of them.  *)
LEMMA NatInduct ==
    ASSUME NEW T \in SUBSET Nat, 0 \in T, \A n \in T : n + 1 \in T
    PROVE  T = Nat
  <1> SUFFICES ASSUME Nat \ T # {} PROVE FALSE
    OBVIOUS
  <1> DEFINE U == Nat \ T
  <1>1. PICK m \in U : \A k \in U : m <= k
    <2>1. U \in SUBSET Nat /\ U # {}
      OBVIOUS
    <2> HIDE DEF U
    <2> QED
      BY <2>1, LeastNat
  <1>2. m # 0 /\ m - 1 \in Nat /\ (m - 1) + 1 = m
    OBVIOUS
  <1>3. m - 1 \in T
    BY <1>1, <1>2
  <1> QED
    BY <1>2, <1>3

(* How FoldSeq computes the size of a bulk payload: a recursive function   *)
(* on sets of indices.                                                     *)
Pick(s) == CHOOSE x \in s : TRUE
Step(recs, g, s) == IF s = {} THEN 0 ELSE g[s \ {Pick(s)}] + 1 + recs[Pick(s)].size
Adder(recs, S) == CHOOSE g : g = [s \in SUBSET S |-> Step(recs, g, s)]

(* The size is the value of that function for all indices.                 *)
LEMMA BulkAdder == ASSUME NEW recs PROVE BulkSize(recs) = Adder(recs, DOMAIN recs)[DOMAIN recs]
  BY DEF BulkSize, FoldSeq, FoldFunction, FoldFunctionOnSet, MapThenFoldSet, Adder, Step, Pick

(* The recursive function exists: functions on the small subsets extend to *)
(* the larger ones.                                                        *)
LEMMA AdderExists ==
    ASSUME NEW f, NEW S, IsFiniteSet(S)
    PROVE  \A s \in SUBSET S : Adder(f, S)[s] = Step(f, Adder(f, S), s)
  <1> DEFINE Small(n) == {s \in SUBSET S : Cardinality(s) <= n}
             Upto == {n \in Nat : \E g : g = [s \in Small(n) |-> Step(f, g, s)]}
  <1>1. 0 \in Upto
    <2>1. \A s \in Small(0) : s = {}
      BY FS_Subset, FS_CardinalityType, FS_EmptySet
    <2> DEFINE g == [s \in Small(0) |-> 0]
    <2>2. g = [s \in Small(0) |-> Step(f, g, s)]
      BY <2>1 DEF Step
    <2> QED
      BY <2>2
  <1>2. ASSUME NEW n \in Upto PROVE n + 1 \in Upto
    <2>1. PICK g : g = [s \in Small(n) |-> Step(f, g, s)]
      OBVIOUS
    <2> DEFINE h == [s \in Small(n + 1) |-> Step(f, g, s)]
    <2>2. ASSUME NEW s \in Small(n + 1) PROVE Step(f, g, s) = Step(f, h, s)
      <3>1. CASE s = {}
        BY <3>1 DEF Step
      <3>2. CASE s # {}
        <4> DEFINE t == s \ {Pick(s)}
        <4>1. t \in Small(n) /\ t \in Small(n + 1)
          <5>1. IsFiniteSet(s) /\ Cardinality(s) \in Nat /\ n \in Nat
            BY FS_Subset, FS_CardinalityType
          <5>2. Cardinality(t) = Cardinality(s) - 1
            BY <3>2, <5>1, FS_RemoveElement DEF Pick
          <5> QED
            BY <5>1, <5>2
        <4>2. h[t] = g[t]
          <5>1. h[t] = Step(f, g, t)
            BY <4>1
          <5>2. g[t] = Step(f, g, t)
            BY <2>1, <4>1
          <5> QED
            BY <5>1, <5>2
        <4> QED
          BY <3>2, <4>2 DEF Step
      <3> QED
        BY <3>1, <3>2
    <2>3. h = [s \in Small(n + 1) |-> Step(f, h, s)]
      BY <2>2
    <2> HIDE DEF h
    <2>4. \E k : k = [s \in Small(n + 1) |-> Step(f, k, s)]
      BY <2>3
    <2>5. n + 1 \in Nat
      OBVIOUS
    <2> QED
      BY <2>4, <2>5, Zenon
  <1>3. Upto = Nat
    <2> HIDE DEF Upto
    <2>1. Upto \in SUBSET Nat
      BY DEF Upto
    <2> QED
      BY <1>1, <1>2, <2>1, NatInduct
  <1>4. PICK g : g = [s \in Small(Cardinality(S)) |-> Step(f, g, s)]
    <2>1. Cardinality(S) \in Upto
      BY <1>3, FS_CardinalityType
    <2> QED
      BY <2>1
  <1>5. Small(Cardinality(S)) = SUBSET S
    BY FS_Subset
  <1>6. g = [s \in SUBSET S |-> Step(f, g, s)]
    BY <1>4, <1>5
  <1> DEFINE a == Adder(f, S)
  <1>7. a = [s \in SUBSET S |-> Step(f, a, s)]
    BY <1>6 DEF Adder
  <1> HIDE DEF a
  <1>8. \A s \in SUBSET S : a[s] = Step(f, a, s)
    BY <1>7
  <1> QED
    BY <1>8 DEF a

(* The size of a bulk payload is a number.                                 *)
LEMMA BulkSizeType ==
    ASSUME NEW recs \in Seq(Received)
    PROVE  BulkSize(recs) \in Nat
  <1> DEFINE D == DOMAIN recs
             a == Adder(recs, D)
             Upto == {n \in Nat : \A s \in SUBSET D : Cardinality(s) <= n => a[s] \in Nat}
  <1>0. IsFiniteSet(D) /\ \A i \in D : recs[i].size \in Nat
    <2>1. D = 1..Len(recs) /\ Len(recs) \in Nat
      OBVIOUS
    <2>2. IsFiniteSet(D)
      BY <2>1, FS_Interval
    <2>3. \A i \in D : recs[i] \in Received
      BY <2>1
    <2> QED
      BY <2>2, <2>3 DEF Received
  <1>1. \A s \in SUBSET D : a[s] = Step(recs, a, s)
    BY <1>0, AdderExists
  <1> HIDE DEF a, D
  <1>2. a[{}] = 0
    <2>1. {} \in SUBSET D
      OBVIOUS
    <2>2. a[{}] = Step(recs, a, {})
      BY <1>1, <2>1
    <2> QED
      BY <2>2 DEF Step
  <1>3. 0 \in Upto
    <2>1. ASSUME NEW s \in SUBSET D, Cardinality(s) <= 0 PROVE s = {}
      BY <2>1, <1>0, FS_Subset, FS_CardinalityType, FS_EmptySet
    <2>2. ASSUME NEW s \in SUBSET D, Cardinality(s) <= 0 PROVE a[s] \in Nat
      <3>1. s = {}
        BY <2>1, <2>2
      <3>2. a[s] = 0
        BY <1>2, <3>1, Zenon
      <3> QED
        BY <3>2
    <2> QED
      BY <2>2
  <1>4. ASSUME NEW n \in Upto PROVE n + 1 \in Upto
    <2>1. ASSUME NEW s \in SUBSET D, Cardinality(s) <= n + 1 PROVE a[s] \in Nat
      <3>1. CASE s = {}
        BY <1>2, <3>1
      <3>2. CASE s # {}
        <4>1. IsFiniteSet(s) /\ Cardinality(s) \in Nat /\ n \in Nat
          BY <1>0, FS_Subset, FS_CardinalityType
        <4>2. Pick(s) \in s
          BY <3>2 DEF Pick
        <4>3. Cardinality(s \ {Pick(s)}) = Cardinality(s) - 1
          BY <4>1, <4>2, FS_RemoveElement
        <4>4. a[s \ {Pick(s)}] \in Nat
          BY <2>1, <4>1, <4>3
        <4>5. recs[Pick(s)].size \in Nat
          BY <1>0, <4>2
        <4>6. a[s] = a[s \ {Pick(s)}] + 1 + recs[Pick(s)].size
          BY <1>1, <3>2 DEF Step
        <4> QED
          BY <4>4, <4>5, <4>6
      <3> QED
        BY <3>1, <3>2
    <2>2. n + 1 \in Nat
      OBVIOUS
    <2>3. \A s \in SUBSET D : Cardinality(s) <= n + 1 => a[s] \in Nat
      BY <2>1
    <2> QED
      BY <2>2, <2>3
  <1>5. Upto = Nat
    <2> HIDE DEF Upto
    <2>1. Upto \in SUBSET Nat
      BY DEF Upto
    <2> QED
      BY <1>3, <1>4, <2>1, NatInduct
  <1>6. a[D] \in Nat
    <2>1. Cardinality(D) \in Upto
      BY <1>0, <1>5, FS_CardinalityType
    <2> QED
      BY <2>1, <1>0, FS_CardinalityType
  <1> QED
    BY <1>6, BulkAdder DEF a, D

(* A frame has its two header units and then its payload.                  *)
LEMMA FrameSizeType ==
    ASSUME NEW f \in Frames, Len(f.recs) > 0
    PROVE  FrameSize(f) \in Nat /\ FrameSize(f) >= 2
  <1>1. f.recs \in Seq(Received)
    BY DEF Frames
  <1>2. BulkSize(f.recs) \in Nat
    BY <1>1, BulkSizeType
  <1>3. f.recs[1] \in Received
    BY <1>1
  <1>4. f.recs[1].size \in Nat
    BY <1>3 DEF Received
  <1> QED
    BY <1>2, <1>4 DEF FrameSize

-----------------------------------------------------------------------------
(* Streams.                                                                *)

(* The ERROR frame.                                                        *)
LEMMA ErrorFrame ==
    /\ Error \in Received /\ Error.kind = "ERROR" /\ EF \in Frames
    /\ Len(EF.recs) = 1 /\ EF.recs = <<Error>>
    /\ FrameSize(EF) \in Nat /\ FrameSize(EF) >= 2
  <1>1. Error \in Received /\ Error.kind = "ERROR"
    BY FramingAssumption DEF Error, Rec, Received
  <1>2. EF.recs = <<Error>> /\ Len(EF.recs) = 1
    BY DEF EF, Control
  <1>3. EF \in Frames
    BY <1>1 DEF EF, Control, Frames
  <1>4. Len(EF.recs) > 0
    BY <1>2
  <1>5. FrameSize(EF) \in Nat /\ FrameSize(EF) >= 2
    BY <1>3, <1>4, FrameSizeType
  <1> QED
    BY <1>1, <1>2, <1>3, <1>5

(* The units of a frame.                                                   *)
LEMMA UnitsOf ==
    ASSUME NEW f \in Frames, Len(f.recs) > 0
    PROVE  /\ Units(f) \in Seq(Unit) /\ Len(Units(f)) = FrameSize(f)
           /\ \A i \in 1..FrameSize(f) : /\ Units(f)[i] = [frame |-> f, at |-> i]
                                         /\ Units(f)[i].frame = f /\ Units(f)[i].at = i
  <1> DEFINE n == FrameSize(f)
  <1>1. n \in Nat
    BY FrameSizeType
  <1>2. Units(f) = [i \in 1..n |-> [frame |-> f, at |-> i]]
    BY DEF Units
  <1> HIDE DEF n
  <1>3. \A i \in 1..n : [frame |-> f, at |-> i] \in Unit
    BY <1>1 DEF Unit
  <1>4. Units(f) \in Seq(Unit) /\ Len(Units(f)) = n
    BY <1>1, <1>2, <1>3
  <1>5. \A i \in 1..n : Units(f)[i] = [frame |-> f, at |-> i]
    BY <1>2
  <1> QED
    BY <1>4, <1>5 DEF n

(* The units of a stream have frames of some records.                      *)
LEMMA UnitTypes ==
    ASSUME NEW S \in Seq(Unit), NEW pos, NEW b, NEW s, Placed(S, pos, b, s), NEW i \in 1..Len(S)
    PROVE  /\ S[i] \in Unit /\ S[i].frame \in Frames /\ S[i].at \in Nat /\ S[i].at > 0
           /\ Len(S[i].frame.recs) \in Nat /\ Len(S[i].frame.recs) > 0
           /\ FrameSize(S[i].frame) \in Nat /\ FrameSize(S[i].frame) >= 2
           /\ S[i].at <= FrameSize(S[i].frame)
           /\ pos[i] \in Nat
           /\ S[i] = [frame |-> S[i].frame, at |-> S[i].at]
  <1>1. S[i] \in Unit
    OBVIOUS
  <1>2. S[i].frame \in Frames /\ S[i].at \in Nat /\ S[i] = [frame |-> S[i].frame, at |-> S[i].at]
    BY <1>1 DEF Unit
  <1>3. Len(S[i].frame.recs) \in Nat
    BY <1>2 DEF Frames
  <1>4. Len(S[i].frame.recs) > 0
    <2>1. CASE S[i].frame = EF
      <3>1. Len(EF.recs) > 0
        BY ErrorFrame
      <3> QED
        BY <2>1, <3>1
    <2>2. CASE S[i].frame # EF
      BY <2>2 DEF Placed, Carries
    <2> QED
      BY <2>1, <2>2
  <1>5. FrameSize(S[i].frame) \in Nat /\ FrameSize(S[i].frame) >= 2
    BY <1>2, <1>4, FrameSizeType
  <1>6. S[i].at \in 1..FrameSize(S[i].frame) /\ pos[i] \in Nat
    BY DEF Placed
  <1> QED
    BY <1>1, <1>2, <1>3, <1>4, <1>5, <1>6

(* A stream stays one when more records are produced.                      *)
LEMMA MoreRecords ==
    ASSUME NEW S \in Seq(Unit), NEW pos, NEW b, NEW s \in Seq(Produced), NEW r \in Produced,
           Placed(S, pos, b, s)
    PROVE  Placed(S, pos, b, Append(s, r))
  <1>1. Len(Append(s, r)) = Len(s) + 1 /\ \A k \in 1..Len(s) : Append(s, r)[k] = s[k]
    OBVIOUS
  <1>2. ASSUME NEW f, NEW p \in Nat, Carries(f, p, s), Len(f.recs) \in Nat
        PROVE  Carries(f, p, Append(s, r))
    BY <1>1, <1>2 DEF Carries
  <1>3. \A i \in 1..Len(S) : pos[i] \in Nat /\ Len(S[i].frame.recs) \in Nat
    BY UnitTypes
  <1>4. \A i \in 1..Len(S) : S[i].frame # EF => Carries(S[i].frame, pos[i], Append(s, r))
    BY <1>2, <1>3 DEF Placed
  <1> QED
    BY <1>4 DEF Placed

(* Where the elements of a concatenation are.                              *)
LEMMA ConcatAt ==
    ASSUME NEW U, NEW S \in Seq(U), NEW T \in Seq(U)
    PROVE  /\ S \o T \in Seq(U) /\ Len(S) \in Nat /\ Len(T) \in Nat
           /\ Len(S \o T) = Len(S) + Len(T)
           /\ \A i \in 1..Len(S) : (S \o T)[i] = S[i]
           /\ \A i \in 1..Len(T) : (S \o T)[Len(S) + i] = T[i]
  <1>1. /\ S \o T \in Seq(U) /\ Len(S) \in Nat /\ Len(T) \in Nat
        /\ Len(S \o T) = Len(S) + Len(T)
        /\ \A i \in 1 .. Len(S) + Len(T) : (S \o T)[i] =
                     IF i <= Len(S) THEN S[i] ELSE T[i - Len(S)]
    BY ConcatProperties
  <1>2. \A i \in 1..Len(S) : (S \o T)[i] = S[i]
    BY <1>1
  <1>3. ASSUME NEW i \in 1..Len(T) PROVE (S \o T)[Len(S) + i] = T[i]
    <2>1. /\ Len(S) + i \in 1..Len(S) + Len(T) /\ ~(Len(S) + i <= Len(S))
          /\ (Len(S) + i) - Len(S) = i
      BY <1>1
    <2> QED
      BY <1>1, <2>1
  <1> QED
    BY <1>1, <1>2, <1>3

(* X is S followed by T.                                                   *)
Joined(X, S, T) ==
    /\ X \in Seq(Unit) /\ Len(S) \in Nat /\ Len(T) \in Nat /\ Len(X) = Len(S) + Len(T)
    /\ \A i \in 1..Len(S) : X[i] = S[i]
    /\ \A i \in 1..Len(T) : X[Len(S) + i] = T[i]

(* ... which is what joining two runs of units gives.                      *)
LEMMA Joins == ASSUME NEW S \in Seq(Unit), NEW T \in Seq(Unit) PROVE Joined(S \o T, S, T)
  BY ConcatAt DEF Joined

(* The units of a frame can be added to a stream: a frame with the next    *)
(* records if the stream is whole, the ERROR frame if it is the first.     *)
LEMMA AddUnits ==
    ASSUME NEW S \in Seq(Unit), NEW s, NEW b \in Nat, NEW c \in Nat, NEW pos,
           NEW f \in Frames, Len(f.recs) > 0, Placed(S, pos, b, s),
           f # EF => EndsAt(S, pos, b, c) /\ Carries(f, c, s),
           f = EF => \A i \in 1..Len(S) : S[i].frame # EF
    PROVE  \E q : /\ Placed(S \o Units(f), q, b, s)
                  /\ f # EF => EndsAt(S \o Units(f), q, b, c + Len(f.recs))
  <1> DEFINE n == Len(S)
             m == FrameSize(f)
             T == S \o Units(f)
             q == [i \in 1..(n + m) |-> IF i <= n THEN pos[i] ELSE c]
  <1>1. /\ n \in Nat /\ m \in Nat /\ m >= 2
        /\ Units(f) \in Seq(Unit) /\ Len(Units(f)) = m
        /\ \A i \in 1..m : Units(f)[i] = [frame |-> f, at |-> i]
    BY UnitsOf, FrameSizeType
  <1>2. /\ Len(T) = n + m /\ T \in Seq(Unit)
        /\ \A i \in 1..n : T[i] = S[i]
        /\ \A i \in 1..m : T[n + i] = [frame |-> f, at |-> i]
    <2>1. /\ T \in Seq(Unit) /\ Len(T) = n + Len(Units(f))
          /\ \A i \in 1..n : T[i] = S[i]
          /\ \A i \in 1..Len(Units(f)) : T[n + i] = Units(f)[i]
      <3>1. Units(f) \in Seq(Unit)
        BY <1>1
      <3> DEFINE V == Units(f)
      <3>2. V \in Seq(Unit)
        BY <3>1
      <3> HIDE DEF V
      <3>3. /\ S \o V \in Seq(Unit) /\ Len(S) \in Nat /\ Len(V) \in Nat
            /\ Len(S \o V) = Len(S) + Len(V)
            /\ \A i \in 1..Len(S) : (S \o V)[i] = S[i]
            /\ \A i \in 1..Len(V) : (S \o V)[Len(S) + i] = V[i]
        BY <3>2, ConcatAt
      <3> QED
        BY <3>3 DEF V
    <2> HIDE DEF T, n, m
    <2>2. \A i \in 1..m : T[n + i] = Units(f)[i]
      BY <1>1, <2>1
    <2>3. ASSUME NEW i \in 1..m PROVE T[n + i] = [frame |-> f, at |-> i]
      BY <1>1, <2>2
    <2> QED
      BY <1>1, <2>1, <2>3
  <1>3. \A i \in 1..n : pos[i] \in Nat
    BY UnitTypes
  <1> HIDE DEF m, n, T
  <1>4. /\ \A i \in 1..n : q[i] = pos[i] /\ q[i] \in Nat
        /\ \A i \in 1..m : q[n + i] = c
        /\ q \in [1..(n + m) -> Nat]
    <2>1. \A i \in 1..n : i \in 1..(n + m) /\ i <= n
      BY <1>1
    <2>2. \A i \in 1..m : n + i \in 1..(n + m) /\ ~(n + i <= n)
      BY <1>1
    <2>3. \A i \in 1..(n + m) : i <= n => i \in 1..n
      BY <1>1
    <2> QED
      BY <1>3, <2>1, <2>2, <2>3
  <1> HIDE DEF q
  <1>5. \A i \in 1..m : T[n + i].frame = f /\ T[n + i].at = i
    <2>1. ASSUME NEW i \in 1..m PROVE T[n + i].frame = f /\ T[n + i].at = i
      <3>1. T[n + i] = [frame |-> f, at |-> i]
        BY <1>2
      <3> QED
        BY <3>1
    <2> QED
      BY <2>1
  <1>6. \A i \in 1..(n + m) : i \in 1..n \/ \E k \in 1..m : i = n + k
    <2>1. \A i \in 1..(n + m) : i \in 1..n \/ (i - n \in 1..m /\ i = n + (i - n))
      BY <1>1
    <2> QED
      BY <2>1
  <1>7. ASSUME NEW i \in 1..(n + m)
        PROVE  /\ T[i].at \in 1..FrameSize(T[i].frame)
               /\ T[i].frame # EF => Carries(T[i].frame, q[i], s)
    <2>1. CASE i \in 1..n
      <3>1. /\ S[i].at \in 1..FrameSize(S[i].frame)
            /\ S[i].frame # EF => Carries(S[i].frame, pos[i], s)
        BY <2>1 DEF Placed, n
      <3> QED
        BY <1>2, <1>4, <2>1, <3>1
    <2>2. ASSUME NEW k \in 1..m, i = n + k
          PROVE  /\ T[i].at \in 1..FrameSize(T[i].frame)
                 /\ T[i].frame # EF => Carries(T[i].frame, q[i], s)
      <3>1. T[i].at = k /\ T[i].frame = f /\ q[i] = c
        BY <1>4, <1>5, <2>2
      <3> QED
        BY <3>1 DEF m
    <2> QED
      BY <1>6, <2>1, <2>2
  <1>8. ASSUME NEW i \in 1..(n + m), i + 1 <= n + m
        PROVE  Follows(T[i], T[i + 1], q[i], q[i + 1])
    <2>1. CASE i + 1 <= n
      <3>1. i \in 1..n /\ i + 1 \in 1..n
        BY <1>1, <2>1
      <3>2. Follows(S[i], S[i + 1], pos[i], pos[i + 1])
        BY <2>1, <3>1 DEF Placed, n
      <3> QED
        BY <1>2, <1>4, <3>1, <3>2
    <2>2. CASE i = n
      <3>1. n # 0 /\ n \in 1..n /\ 1 \in 1..m
        BY <1>1, <2>2
      <3>2. T[i] = S[n] /\ q[i] = pos[n]
        BY <1>2, <1>4, <2>2, <3>1
      <3>3. T[i + 1].frame = f /\ T[i + 1].at = 1 /\ q[i + 1] = c
        BY <1>4, <1>5, <2>2, <3>1
      <3>4. CASE f # EF
        BY <3>1, <3>2, <3>3, <3>4 DEF EndsAt, Follows, n
      <3>5. CASE f = EF
        BY <3>1, <3>2, <3>3, <3>5 DEF Follows, n
      <3> QED
        BY <3>4, <3>5
    <2>3. CASE i > n
      <3>1. PICK k \in 1..m : i = n + k
        <4>1. i \notin 1..n
          BY <1>1, <2>3
        <4> QED
          BY <1>6, <4>1
      <3>2. k + 1 \in 1..m /\ i + 1 = n + (k + 1)
        BY <1>1, <1>8, <3>1
      <3>3. T[i].frame = f /\ T[i].at = k /\ q[i] = c
        BY <1>4, <1>5, <3>1
      <3>4. T[i + 1].frame = f /\ T[i + 1].at = k + 1 /\ q[i + 1] = c
        BY <1>4, <1>5, <3>2
      <3> QED
        BY <3>3, <3>4 DEF Follows
    <2> QED
      BY <1>1, <2>1, <2>2, <2>3
  <1>9. T[1].frame # EF => T[1].at = 1 /\ q[1] = b
    <2>1. CASE n = 0
      <3>1. 1 \in 1..m /\ n + 1 = 1
        BY <1>1, <2>1
      <3>2. T[1].frame = f /\ T[1].at = 1 /\ q[1] = c
        BY <1>4, <1>5, <3>1
      <3>3. f # EF => c = b
        BY <2>1 DEF EndsAt, n
      <3> QED
        BY <3>2, <3>3
    <2>2. CASE n > 0
      <3>1. 1 \in 1..n
        BY <1>1, <2>2
      <3>2. S[1].frame # EF => S[1].at = 1 /\ pos[1] = b
        BY <2>2 DEF Placed, n
      <3> QED
        BY <1>2, <1>4, <3>1, <3>2
    <2> QED
      BY <1>1, <2>1, <2>2
  <1>10. Placed(T, q, b, s)
    BY <1>2, <1>4, <1>7, <1>8, <1>9 DEF Placed
  <1>11. f # EF => EndsAt(T, q, b, c + Len(f.recs))
    <2>1. m \in 1..m /\ n + m # 0
      BY <1>1
    <2>2. T[n + m].frame = f /\ T[n + m].at = m /\ q[n + m] = c
      BY <1>4, <1>5, <2>1
    <2> QED
      BY <1>2, <2>1, <2>2 DEF EndsAt, m
  <1> QED
    BY <1>10, <1>11 DEF T

(* A whole frame with the next records is added to a whole stream.         *)
LEMMA AddFrame ==
    ASSUME NEW S \in Seq(Unit), NEW s, NEW b \in Nat, NEW c \in Nat,
           NEW f \in Frames, f # EF, WholeStream(S, b, c, s), Carries(f, c, s)
    PROVE  WholeStream(S \o Units(f), b, c + Len(f.recs), s)
  <1>1. PICK pos : Placed(S, pos, b, s) /\ EndsAt(S, pos, b, c)
    BY DEF WholeStream
  <1>2. Len(f.recs) > 0
    BY DEF Carries
  <1>3. \E q : /\ Placed(S \o Units(f), q, b, s)
               /\ f # EF => EndsAt(S \o Units(f), q, b, c + Len(f.recs))
    BY <1>1, <1>2, AddUnits
  <1> QED
    BY <1>3 DEF WholeStream

(* The ERROR frame is added to any stream.                                 *)
LEMMA AddError ==
    ASSUME NEW S \in Seq(Unit), NEW s, NEW b \in Nat, Stream(S, b, s),
           \A i \in 1..Len(S) : S[i].frame # EF
    PROVE  Stream(S \o Units(EF), b, s)
  <1>1. PICK pos : Placed(S, pos, b, s)
    BY DEF Stream
  <1>2. EF \in Frames /\ Len(EF.recs) > 0
    BY ErrorFrame
  <1>3. \E q : /\ Placed(S \o Units(EF), q, b, s)
               /\ EF # EF => EndsAt(S \o Units(EF), q, b, 0 + Len(EF.recs))
    BY <1>1, <1>2, AddUnits
  <1> QED
    BY <1>3 DEF Stream

(* What is left of a stream when its end is lost.                          *)
LEMMA StreamPrefix ==
    ASSUME NEW S \in Seq(Unit), NEW T \in Seq(Unit), NEW b, NEW s, Stream(S \o T, b, s)
    PROVE  Stream(S, b, s)
  <1> DEFINE X == S \o T
             n == Len(S)
             pos == CHOOSE p : Placed(X, p, b, s)
             q == [i \in 1..n |-> pos[i]]
  <1>1. /\ X \in Seq(Unit) /\ n \in Nat /\ Len(T) \in Nat /\ Len(X) = n + Len(T)
        /\ \A i \in 1..n : X[i] = S[i]
    BY ConcatAt
  <1>2. Placed(X, pos, b, s)
    BY DEF Stream
  <1> HIDE DEF X, n, pos
  <1>3. \A i \in 1..n : i \in 1..Len(X) /\ pos[i] \in Nat /\ q[i] = pos[i]
    <2>1. \A i \in 1..n : i \in 1..Len(X)
      BY <1>1
    <2> QED
      BY <1>2, <2>1 DEF Placed
  <1>4. q \in [1..n -> Nat]
    BY <1>3
  <1> HIDE DEF q
  <1>5. ASSUME NEW i \in 1..n
        PROVE  /\ S[i].at \in 1..FrameSize(S[i].frame)
               /\ S[i].frame # EF => Carries(S[i].frame, q[i], s)
    <2>1. /\ X[i].at \in 1..FrameSize(X[i].frame)
          /\ X[i].frame # EF => Carries(X[i].frame, pos[i], s)
      BY <1>2, <1>3 DEF Placed
    <2> QED
      BY <1>1, <1>3, <2>1
  <1>6. ASSUME NEW i \in 1..n, i + 1 <= n
        PROVE  Follows(S[i], S[i + 1], q[i], q[i + 1])
    <2>1. i + 1 \in 1..n /\ i + 1 <= Len(X)
      BY <1>1, <1>6
    <2>2. Follows(X[i], X[i + 1], pos[i], pos[i + 1])
      BY <1>2, <1>3, <2>1 DEF Placed
    <2> QED
      BY <1>1, <1>3, <2>1, <2>2
  <1>7. ASSUME n > 0, S[1].frame # EF PROVE S[1].at = 1 /\ q[1] = b
    <2>1. 1 \in 1..n /\ Len(X) > 0
      BY <1>1, <1>7
    <2>2. X[1].frame # EF => X[1].at = 1 /\ pos[1] = b
      BY <1>2, <2>1 DEF Placed
    <2> QED
      BY <1>1, <1>3, <1>7, <2>1, <2>2
  <1>8. Placed(S, q, b, s)
    BY <1>4, <1>5, <1>6, <1>7 DEF Placed, n
  <1> QED
    BY <1>8 DEF Stream

(* What is left of a stream when its beginning has been read, if it begins *)
(* with a frame's first unit or in the ERROR frame.                        *)
LEMMA StreamSuffix ==
    ASSUME NEW S \in Seq(Unit), NEW T \in Seq(Unit), NEW b, NEW s, NEW pos, NEW d,
           Placed(S \o T, pos, b, s),
           Len(T) > 0 /\ T[1].frame # EF => T[1].at = 1 /\ pos[Len(S) + 1] = d
    PROVE  \E q : /\ Placed(T, q, d, s)
                  /\ \A c : Len(T) > 0 /\ EndsAt(S \o T, pos, b, c) => EndsAt(T, q, d, c)
  <1> DEFINE X == S \o T
             n == Len(S)
             m == Len(T)
             q == [i \in 1..m |-> pos[n + i]]
  <1>1. /\ X \in Seq(Unit) /\ n \in Nat /\ m \in Nat /\ Len(X) = n + m
        /\ \A i \in 1..m : X[n + i] = T[i]
    BY ConcatAt
  <1>2. Placed(X, pos, b, s)
    OBVIOUS
  <1>0. m > 0 /\ T[1].frame # EF => T[1].at = 1 /\ pos[n + 1] = d
    OBVIOUS
  <1> HIDE DEF X, n, m
  <1>3. \A i \in 1..m : n + i \in 1..Len(X) /\ pos[n + i] \in Nat /\ q[i] = pos[n + i]
    <2>1. \A i \in 1..m : n + i \in 1..Len(X)
      BY <1>1
    <2> QED
      BY <1>2, <2>1 DEF Placed
  <1>4. q \in [1..m -> Nat]
    BY <1>3
  <1> HIDE DEF q
  <1>5. ASSUME NEW i \in 1..m
        PROVE  /\ T[i].at \in 1..FrameSize(T[i].frame)
               /\ T[i].frame # EF => Carries(T[i].frame, q[i], s)
    <2>1. /\ X[n + i].at \in 1..FrameSize(X[n + i].frame)
          /\ X[n + i].frame # EF => Carries(X[n + i].frame, pos[n + i], s)
      BY <1>2, <1>3 DEF Placed
    <2> QED
      BY <1>1, <1>3, <2>1
  <1>6. ASSUME NEW i \in 1..m, i + 1 <= m
        PROVE  Follows(T[i], T[i + 1], q[i], q[i + 1])
    <2>1. i + 1 \in 1..m /\ (n + i) + 1 <= Len(X) /\ (n + i) + 1 = n + (i + 1)
      BY <1>1, <1>6
    <2>2. Follows(X[n + i], X[(n + i) + 1], pos[n + i], pos[(n + i) + 1])
      BY <1>2, <1>3, <2>1 DEF Placed
    <2>3. Follows(X[n + i], X[n + (i + 1)], pos[n + i], pos[n + (i + 1)])
      BY <2>1, <2>2
    <2>4. X[n + i] = T[i] /\ pos[n + i] = q[i]
      BY <1>1, <1>3
    <2>5. X[n + (i + 1)] = T[i + 1] /\ pos[n + (i + 1)] = q[i + 1]
      BY <1>1, <1>3, <2>1
    <2> QED
      BY <2>3, <2>4, <2>5, Zenon
  <1>7. ASSUME m > 0, T[1].frame # EF PROVE T[1].at = 1 /\ q[1] = d
    <2>1. 1 \in 1..m
      BY <1>1, <1>7
    <2> QED
      BY <1>0, <1>3, <1>7, <2>1
  <1>8. Placed(T, q, d, s)
    BY <1>4, <1>5, <1>6, <1>7 DEF Placed, m
  <1>9. ASSUME NEW c, m > 0, EndsAt(X, pos, b, c) PROVE EndsAt(T, q, d, c)
    <2>1. m \in 1..m /\ Len(X) # 0 /\ m # 0
      BY <1>1, <1>9
    <2>2. X[n + m] = T[m] /\ q[m] = pos[n + m]
      BY <1>1, <1>3, <2>1
    <2>3. /\ X[n + m].frame # EF /\ X[n + m].at = FrameSize(X[n + m].frame)
          /\ c = pos[n + m] + Len(X[n + m].frame.recs)
      BY <1>1, <1>9, <2>1 DEF EndsAt
    <2> QED
      BY <2>1, <2>2, <2>3 DEF EndsAt, m
  <1>10. \A c : m > 0 /\ EndsAt(X, pos, b, c) => EndsAt(T, q, d, c)
    BY <1>9
  <1> QED
    BY <1>8, <1>10 DEF X, m

(* A stream that begins with the first unit of a frame goes on with the    *)
(* others, unless the ERROR frame cuts it short.                           *)
LEMMA FirstFrame ==
    ASSUME NEW S \in Seq(Unit), NEW b, NEW s, NEW pos, Placed(S, pos, b, s),
           Len(S) > 0, S[1].at = 1,
           NEW j \in 1..Len(S), j <= FrameSize(S[1].frame)
    PROVE  \/ S[j] = [frame |-> S[1].frame, at |-> j] /\ pos[j] = pos[1]
           \/ S[j].frame = EF /\ S[1].frame # EF
  <1> DEFINE f == S[1].frame
             n == FrameSize(f)
             Own(i) == S[i].frame = f /\ S[i].at = i /\ pos[i] = pos[1]
             Cut(i) == S[i].frame = EF /\ f # EF
             Bad == {i \in 1..Len(S) : i <= n /\ ~Own(i) /\ ~Cut(i)}
  <1>1. 1 \in 1..Len(S) /\ Len(S) \in Nat
    OBVIOUS
  <1>2. n \in Nat
    BY <1>1, UnitTypes
  <1>3. ASSUME Bad # {} PROVE FALSE
    <2>1. Bad \in SUBSET Nat
      OBVIOUS
    <2>2. PICK m \in Bad : \A k \in Bad : m <= k
      <3> HIDE DEF Bad
      <3> QED
        BY <1>3, <2>1, LeastNat
    <2>3. m \in 1..Len(S) /\ m <= n /\ ~Own(m) /\ ~Cut(m)
      OBVIOUS
    <2>4. Own(1)
      OBVIOUS
    <2> HIDE DEF f, n, Own, Cut
    <2>5. m # 1
      BY <2>3, <2>4
    <2> DEFINE k == m - 1
    <2>6. k \in 1..Len(S) /\ k <= n /\ k < m /\ k + 1 = m /\ k + 1 <= Len(S) /\ k # n
      BY <1>1, <1>2, <2>3, <2>5
    <2>7. Own(k) \/ Cut(k)
      BY <2>2, <2>6
    <2> HIDE DEF k, Bad
    <2>8. Follows(S[k], S[k + 1], pos[k], pos[k + 1])
      BY <2>6 DEF Placed
    <2>9. Follows(S[k], S[m], pos[k], pos[m])
      BY <2>6, <2>8
    <2>10. CASE Own(k)
      BY <2>3, <2>6, <2>9, <2>10 DEF Follows, Own, Cut, n
    <2>11. CASE Cut(k)
      BY <2>3, <2>9, <2>11 DEF Follows, Cut
    <2> QED
      BY <2>7, <2>10, <2>11
  <1>4. Own(j) \/ Cut(j)
    BY <1>3
  <1>5. S[j] = [frame |-> S[j].frame, at |-> S[j].at]
    BY UnitTypes
  <1> QED
    BY <1>4, <1>5

(* After a unit of the ERROR frame there are only more of it.              *)
LEMMA ErrorTail ==
    ASSUME NEW S \in Seq(Unit), NEW b, NEW s, NEW pos, Placed(S, pos, b, s),
           NEW e \in 1..Len(S), S[e].frame = EF, NEW j \in 1..Len(S), e < j
    PROVE  S[j].frame = EF /\ S[j].at > 1
  <1> DEFINE Good(i) == S[i].frame = EF /\ S[i].at > 1
             Bad == {i \in 1..Len(S) : e < i /\ ~Good(i)}
  <1>1. ASSUME Bad # {} PROVE FALSE
    <2>1. Bad \in SUBSET Nat
      OBVIOUS
    <2>2. PICK m \in Bad : \A k \in Bad : m <= k
      <3> HIDE DEF Bad
      <3> QED
        BY <1>1, <2>1, LeastNat
    <2>3. m \in 1..Len(S) /\ e < m /\ ~Good(m)
      OBVIOUS
    <2> HIDE DEF Good
    <2> DEFINE k == m - 1
    <2>4. k \in 1..Len(S) /\ k < m /\ k + 1 = m /\ k + 1 <= Len(S) /\ (k = e \/ e < k)
      BY <2>3
    <2>5. k = e \/ Good(k)
      BY <2>2, <2>4
    <2> HIDE DEF k, Bad
    <2>6. Follows(S[k], S[m], pos[k], pos[m])
      <3>1. Follows(S[k], S[k + 1], pos[k], pos[k + 1])
        BY <2>4 DEF Placed
      <3> QED
        BY <2>4, <3>1
    <2>7. S[k].frame = EF
      BY <2>5 DEF Good
    <2>8. S[k].at \in Nat /\ S[k].at > 0
      BY <2>4, UnitTypes
    <2>9. S[m].frame = EF /\ S[m].at = S[k].at + 1
      BY <2>6, <2>7 DEF Follows
    <2> QED
      BY <2>3, <2>8, <2>9 DEF Good
  <1>2. Good(j)
    BY <1>1
  <1> QED
    BY <1>2

(* A sequence and its two parts.                                           *)
LEMMA SplitSeq ==
    ASSUME NEW U, NEW S \in Seq(U), NEW n \in 1..Len(S)
    PROVE  /\ SubSeq(S, 1, n) \in Seq(U) /\ SubSeq(S, n + 1, Len(S)) \in Seq(U)
           /\ Len(SubSeq(S, 1, n)) = n
           /\ SubSeq(S, 1, n) \o SubSeq(S, n + 1, Len(S)) = S
  <1>1. /\ SubSeq(S, 1, n) \in Seq(U) /\ SubSeq(S, n + 1, Len(S)) \in Seq(U)
        /\ Len(SubSeq(S, 1, n)) = n
    OBVIOUS
  <1>2. SubSeq(S, 1, n) \o SubSeq(S, n + 1, Len(S)) = SubSeq(S, 1, Len(S))
    BY ConcatAdjacentSubSeq
  <1>3. SubSeq(S, 1, Len(S)) = S
    BY SubSeqFull
  <1> QED
    BY <1>1, <1>2, <1>3

(* Reading the whole first frame leaves the stream of the others.          *)
LEMMA DropFrame ==
    ASSUME NEW S \in Seq(Unit), NEW T \in Seq(Unit), NEW b \in Nat, NEW s, NEW pos,
           Placed(S \o T, pos, b, s), Len(S) > 0, S[1].frame # EF,
           Len(S) = FrameSize(S[1].frame),
           S[Len(S)].frame = S[1].frame, S[Len(S)].at = Len(S), pos[Len(S)] = pos[1]
    PROVE  /\ Carries(S[1].frame, b, s)
           /\ Stream(T, b + Len(S[1].frame.recs), s)
           /\ \A c : EndsAt(S \o T, pos, b, c) => WholeStream(T, b + Len(S[1].frame.recs), c, s)
  <1> DEFINE X == S \o T
             n == Len(S)
             f == S[1].frame
             d == b + Len(f.recs)
  <1>1. /\ X \in Seq(Unit) /\ n \in Nat /\ Len(T) \in Nat /\ Len(X) = n + Len(T)
        /\ \A i \in 1..n : X[i] = S[i]
        /\ \A i \in 1..Len(T) : X[n + i] = T[i]
    <2>1. Joined(X, S, T)
      BY Joins
    <2> QED
      BY <2>1 DEF Joined
  <1>2. /\ Placed(X, pos, b, s) /\ n > 0 /\ f # EF /\ n = FrameSize(f)
        /\ S[n].frame = f /\ S[n].at = n /\ pos[n] = pos[1]
    OBVIOUS
  <1> HIDE DEF X
  <1>3. 1 \in 1..n /\ n \in 1..n /\ 1 \in 1..Len(X) /\ n \in 1..Len(X) /\ Len(X) > 0
    BY <1>1, <1>2
  <1>4. X[1] = S[1] /\ X[n] = S[n]
    BY <1>1, <1>3
  <1>5. pos[1] = b /\ Carries(f, b, s)
    BY <1>2, <1>3, <1>4 DEF Placed
  <1>6. Len(T) > 0 /\ T[1].frame # EF => T[1].at = 1 /\ pos[n + 1] = d
    <2> SUFFICES ASSUME Len(T) > 0, T[1].frame # EF PROVE T[1].at = 1 /\ pos[n + 1] = d
      OBVIOUS
    <2>1. 1 \in 1..Len(T) /\ n + 1 \in 1..Len(X) /\ n + 1 <= Len(X)
      BY <1>1, <1>3
    <2>2. X[n + 1] = T[1]
      BY <1>1, <2>1
    <2>3. Follows(X[n], X[n + 1], pos[n], pos[n + 1])
      BY <1>2, <1>3, <2>1 DEF Placed
    <2>4. X[n + 1].at <= FrameSize(X[n + 1].frame) /\ X[n + 1].at \in Nat
      BY <1>1, <1>2, <2>1, UnitTypes
    <2>5. ~(X[n + 1].frame = f /\ X[n + 1].at = n + 1)
      BY <1>1, <1>2, <2>4
    <2> HIDE DEF n, f
    <2> QED
      BY <1>2, <1>4, <1>5, <2>2, <2>3, <2>5 DEF Follows
  <1>7. PICK q : /\ Placed(T, q, d, s)
                 /\ \A c : Len(T) > 0 /\ EndsAt(X, pos, b, c) => EndsAt(T, q, d, c)
    <2> HIDE DEF d
    <2> QED
      BY <1>2, <1>6, StreamSuffix DEF X
  <1>8. Stream(T, d, s)
    BY <1>7 DEF Stream
  <1>9. ASSUME NEW c, EndsAt(X, pos, b, c) PROVE WholeStream(T, d, c, s)
    <2>1. CASE Len(T) > 0
      BY <1>7, <1>9, <2>1 DEF WholeStream
    <2>2. CASE Len(T) = 0
      <3>1. Len(X) = n /\ n # 0
        BY <1>1, <1>2, <2>2
      <3>2. c = pos[n] + Len(S[n].frame.recs)
        BY <1>4, <1>9, <3>1 DEF EndsAt
      <3>3. c = d
        BY <1>2, <1>5, <3>2
      <3>4. EndsAt(T, q, d, c)
        BY <2>2, <3>3 DEF EndsAt
      <3> QED
        BY <1>7, <3>4 DEF WholeStream
    <2> QED
      BY <1>1, <2>1, <2>2
  <1> QED
    BY <1>5, <1>8, <1>9 DEF X

(* Reading on into the ERROR frame leaves the rest of it.                  *)
LEMMA DropTorn ==
    ASSUME NEW S \in Seq(Unit), NEW T \in Seq(Unit), NEW b, NEW s, NEW d,
           Stream(S \o T, b, s), NEW e \in 1..Len(S), S[e].frame = EF
    PROVE  Stream(T, d, s) /\ ErrorRest(T)
  <1> DEFINE X == S \o T
             n == Len(S)
  <1>1. /\ X \in Seq(Unit) /\ n \in Nat /\ Len(T) \in Nat /\ Len(X) = n + Len(T)
        /\ \A i \in 1..n : X[i] = S[i]
        /\ \A i \in 1..Len(T) : X[n + i] = T[i]
    <2>1. Joined(X, S, T)
      BY Joins
    <2> QED
      BY <2>1 DEF Joined
  <1>2. PICK pos : Placed(X, pos, b, s)
    BY DEF Stream
  <1> HIDE DEF X
  <1>3. e \in 1..Len(X) /\ X[e].frame = EF
    BY <1>1
  <1>4. ASSUME NEW i \in 1..Len(T) PROVE T[i].frame = EF /\ T[i].at > 1
    <2>1. n + i \in 1..Len(X) /\ e < n + i
      BY <1>1
    <2>2. X[n + i].frame = EF /\ X[n + i].at > 1
      BY <1>1, <1>2, <1>3, <2>1, ErrorTail
    <2> QED
      BY <1>1, <2>2
  <1>5. Len(T) > 0 => T[1].frame = EF
    <2>1. Len(T) > 0 => 1 \in 1..Len(T)
      BY <1>1
    <2> QED
      BY <1>4, <2>1
  <1>6. PICK q : Placed(T, q, d, s)
    <2>1. Placed(S \o T, pos, b, s)
      BY <1>2 DEF X
    <2> QED
      BY <1>5, <2>1, StreamSuffix
  <1> QED
    BY <1>4, <1>6 DEF Stream, ErrorRest

(* What a frame adds to the units under way.                               *)
LEMMA NoErrorAdded ==
    ASSUME NEW S \in Seq(Unit), NEW f \in Frames, Len(f.recs) > 0, f # EF, NoError(S)
    PROVE  NoError(S \o Units(f)) /\ S \o Units(f) \in Seq(Unit)
  <1> DEFINE V == Units(f)
             m == FrameSize(f)
  <1>1. V \in Seq(Unit) /\ Len(V) = m /\ \A i \in 1..m : V[i].frame = f
    BY UnitsOf
  <1> HIDE DEF V, m
  <1>2. /\ S \o V \in Seq(Unit) /\ Len(S) \in Nat /\ Len(V) \in Nat
        /\ Len(S \o V) = Len(S) + Len(V)
        /\ \A i \in 1..Len(S) : (S \o V)[i] = S[i]
        /\ \A i \in 1..Len(V) : (S \o V)[Len(S) + i] = V[i]
    <2>1. V \in Seq(Unit)
      BY <1>1
    <2> QED
      BY <2>1, ConcatAt
  <1>3. ASSUME NEW i \in 1..Len(S \o V) PROVE (S \o V)[i].frame # EF
    <2>1. CASE i \in 1..Len(S)
      BY <1>2, <2>1 DEF NoError
    <2>2. CASE i \notin 1..Len(S)
      <3>1. i - Len(S) \in 1..Len(V) /\ i = Len(S) + (i - Len(S))
        BY <1>2, <2>2
      <3>2. (S \o V)[i] = V[i - Len(S)]
        BY <1>2, <3>1
      <3> QED
        BY <1>1, <3>1, <3>2
    <2> QED
      BY <2>1, <2>2
  <1> QED
    BY <1>2, <1>3 DEF NoError, V

(* Joining units is associative.                                           *)
LEMMA JoinAssoc ==
    ASSUME NEW A \in Seq(Unit), NEW B \in Seq(Unit), NEW C \in Seq(Unit)
    PROVE  (A \o B) \o C = A \o (B \o C)
  BY ConcatAssociative

(* Sending adds to the end of the units under way.                         *)
LEMMA SentLast ==
    ASSUME NEW R \in Seq(Unit), NEW W \in Seq(Unit), NEW X \in Seq(Unit)
    PROVE  /\ R \o (W \o X) = (R \o (W \o <<>>)) \o X
           /\ R \o (W \o <<>>) \in Seq(Unit)
  <1>1. W \o <<>> = W
    OBVIOUS
  <1>2. R \o (W \o X) = (R \o W) \o X
    BY ConcatAssociative
  <1> QED
    BY <1>1, <1>2

-----------------------------------------------------------------------------
(* The agent.                                                              *)

(* What is produced can be received.                                       *)
LEMMA ProducedType ==
    /\ \A r \in Produced : r \in Received /\ Clean(r) /\ r.ok = TRUE /\ r.size \in Nat
    /\ \A q \in Seq(Produced) : q \in Seq(Received)
  <1>1. \A r \in Produced : r \in Received /\ Clean(r) /\ r.ok = TRUE /\ r.size \in Nat
    BY FramingAssumption DEF Produced, Received, Clean
  <1>2. \A q \in Seq(Produced) : q \in Seq(Received)
    BY <1>1
  <1> QED
    BY <1>1, <1>2

(* The frames the agent makes.                                             *)
LEMMA FrameTypes ==
    /\ \A q \in Seq(Produced) : Bulk(q) \in Frames /\ Bulk(q) # EF /\ Bulk(q).recs = q
    /\ \A r \in Produced : /\ Control(r) \in Frames /\ Control(r) # EF
                           /\ Control(r).recs = <<r>>
  <1>1. ASSUME NEW q \in Seq(Produced)
        PROVE  Bulk(q) \in Frames /\ Bulk(q) # EF /\ Bulk(q).recs = q
    <2>1. q \in Seq(Received)
      BY ProducedType
    <2>2. Bulk(q).bulk = TRUE /\ EF.bulk = FALSE
      BY DEF Bulk, EF, Control
    <2> QED
      BY <2>1, <2>2 DEF Bulk, Frames
  <1>2. ASSUME NEW r \in Produced
        PROVE  Control(r) \in Frames /\ Control(r) # EF /\ Control(r).recs = <<r>>
    <2>1. r \in Received /\ r.kind # "ERROR"
      BY ProducedType DEF Clean
    <2>2. Control(r).recs = <<r>> /\ Control(r) \in Frames
      BY <2>1 DEF Control, Frames
    <2>3. EF.recs[1].kind = "ERROR" /\ Control(r).recs[1].kind = r.kind
      BY <2>2, ErrorFrame
    <2> QED
      BY <2>1, <2>2, <2>3
  <1> QED
    BY <1>1, <1>2

(* flush_record_batch: with the batch all records produced are under way.  *)
LEMMA FlushedStream ==
    ASSUME FramingInv, apc = "run", out = <<>>
    PROVE  /\ Flushed \in Seq(Unit) /\ Under \in Seq(Unit) /\ Under \o Flushed \in Seq(Unit)
           /\ WholeStream(Under \o Flushed, Before, Len(sent), sent)
           /\ NoError(Under \o Flushed)
  <1> DEFINE c == Len(sent) - Len(buf)
  <1>1. /\ sent \in Seq(Produced) /\ buf \in Seq(Produced) /\ Under \in Seq(Unit)
        /\ Before \in Nat
    BY DEF FramingInv, FramingTypes, Under, Before
  <1>2. WholeStream(Under, Before, c, sent) /\ NoError(Under)
    BY DEF FramingInv, StreamInv
  <1>3. /\ Len(buf) \in Nat /\ Len(sent) \in Nat /\ Len(buf) <= Len(sent)
        /\ \A k \in 1..Len(buf) : buf[k] = sent[c + k]
    BY <1>1 DEF FramingInv, BatchInv
  <1>4. c \in Nat /\ c + Len(buf) = Len(sent)
    BY <1>3
  <1> HIDE DEF c
  <1>5. CASE buf = <<>>
    <2>1. Flushed = <<>> /\ Under \o <<>> = Under
      BY <1>1, <1>5 DEF Flushed
    <2>2. c = Len(sent)
      <3>1. Len(buf) = 0
        BY <1>5
      <3> QED
        BY <1>3, <1>4, <3>1
    <2>3. <<>> \in Seq(Unit)
      OBVIOUS
    <2> QED
      BY <1>1, <1>2, <2>1, <2>2, <2>3
  <1>6. CASE buf # <<>>
    <2> DEFINE f == Bulk(buf)
    <2>1. f \in Frames /\ f # EF /\ f.recs = buf
      BY <1>1, FrameTypes
    <2>2. Len(buf) > 0
      BY <1>1, <1>6
    <2>3. Flushed = Units(f)
      BY <1>6 DEF Flushed
    <2> HIDE DEF f
    <2>4. Carries(f, c, sent) /\ Len(f.recs) > 0 /\ c + Len(f.recs) = Len(sent)
      BY <1>3, <1>4, <2>1, <2>2 DEF Carries
    <2>5. WholeStream(Under \o Units(f), Before, c + Len(f.recs), sent)
      BY <1>1, <1>2, <1>4, <2>1, <2>4, AddFrame
    <2>6. NoError(Under \o Units(f)) /\ Under \o Units(f) \in Seq(Unit)
      BY <1>1, <1>2, <2>1, <2>4, NoErrorAdded
    <2>7. Units(f) \in Seq(Unit)
      BY <2>1, <2>4, UnitsOf
    <2> QED
      BY <1>1, <2>3, <2>4, <2>5, <2>6, <2>7
  <1> QED
    BY <1>5, <1>6

(* Records produced later do not matter to a stream.                       *)
LEMMA MoreStream ==
    ASSUME NEW S \in Seq(Unit), NEW b, NEW c, NEW s \in Seq(Produced), NEW r \in Produced,
           WholeStream(S, b, c, s)
    PROVE  WholeStream(S, b, c, Append(s, r))
  <1>1. PICK pos : Placed(S, pos, b, s) /\ EndsAt(S, pos, b, c)
    BY DEF WholeStream
  <1>2. Placed(S, pos, b, Append(s, r))
    BY <1>1, MoreRecords
  <1> QED
    BY <1>1, <1>2 DEF WholeStream

(* ... with a frame of the record just produced after them.                *)
LEMMA FlushedAnd ==
    ASSUME FramingInv, apc = "run", out = <<>>, NEW r \in Produced,
           NEW f \in Frames, f # EF, f.recs = <<r>>
    PROVE  /\ Flushed \o Units(f) \in Seq(Unit)
           /\ Under \o (Flushed \o Units(f)) \in Seq(Unit)
           /\ WholeStream(Under \o (Flushed \o Units(f)), Before, Len(sent) + 1, Append(sent, r))
           /\ NoError(Under \o (Flushed \o Units(f)))
  <1> DEFINE S == Under \o Flushed
             s == Append(sent, r)
             V == Units(f)
  <1>1. /\ Flushed \in Seq(Unit) /\ Under \in Seq(Unit) /\ S \in Seq(Unit)
        /\ WholeStream(S, Before, Len(sent), sent) /\ NoError(S)
    BY FlushedStream
  <1>2. sent \in Seq(Produced) /\ Before \in Nat
    BY DEF FramingInv, FramingTypes, Before
  <1>3. /\ Len(sent) \in Nat /\ Len(s) = Len(sent) + 1 /\ s[Len(sent) + 1] = r
        /\ Len(f.recs) = 1 /\ f.recs[1] = r
    BY <1>2
  <1> HIDE DEF S, s
  <1>4. WholeStream(S, Before, Len(sent), s)
    BY <1>1, <1>2, MoreStream DEF s
  <1>5. Carries(f, Len(sent), s)
    BY <1>3 DEF Carries
  <1>6. WholeStream(S \o V, Before, Len(sent) + 1, s)
    <2>1. WholeStream(S \o V, Before, Len(sent) + Len(f.recs), s)
      BY <1>1, <1>2, <1>3, <1>4, <1>5, AddFrame
    <2> QED
      BY <1>3, <2>1
  <1>11. Len(f.recs) > 0
    BY <1>3
  <1>7. NoError(S \o V) /\ S \o V \in Seq(Unit)
    BY <1>1, <1>11, NoErrorAdded
  <1>8. V \in Seq(Unit)
    BY <1>11, UnitsOf
  <1> HIDE DEF V
  <1>9. S \o V = Under \o (Flushed \o V)
    BY <1>1, <1>8, JoinAssoc DEF S
  <1>10. Flushed \o V \in Seq(Unit)
    BY <1>1, <1>8
  <1> QED
    BY <1>6, <1>7, <1>9, <1>10 DEF s, V

(* What producing a record has to establish.                               *)
LEMMA ProduceKeeps ==
    ASSUME FramingInv, NEW r \in Produced, Produces(r), apc' \in {"run", "failing"},
           out' \in Seq(Unit), buf' \in Seq(Produced),
           Stream(Under', Before, sent'), NoError(Under'),
           apc' = "run" =>
              /\ WholeStream(Under', Before, Len(sent') - Len(buf'), sent')
              /\ Len(buf') <= Len(sent')
              /\ \A k \in 1..Len(buf') : /\ buf'[k].kind = "bulk"
                                         /\ buf'[k] = sent'[Len(sent') - Len(buf') + k]
    PROVE  FramingInv'
  <1>1. /\ apc = "run" /\ sent' = Append(sent, r) /\ wire' = wire /\ rpc' = rpc /\ rx' = rx
        /\ pend' = pend /\ got' = got
    BY DEF Produces, recvVars
  <1>2. /\ sent \in Seq(Produced) /\ Len(sent) \in Nat /\ got \in Seq(Received)
        /\ pend \in Seq(Received)
    BY DEF FramingInv, FramingTypes
  <1>3. /\ sent' \in Seq(Produced) /\ Len(sent') = Len(sent) + 1
        /\ \A k \in 1..Len(sent) : sent'[k] = sent[k]
    BY <1>1, <1>2
  <1>4. FramingTypes'
    BY <1>1, <1>3 DEF FramingInv, FramingTypes
  <1>5. StreamInv'
    <2>1. Before' = Before
      BY <1>1 DEF Before
    <2> QED
      BY <1>1, <1>3, <2>1 DEF StreamInv
  <1>6. BatchInv'
    <2>1. apc' \notin {"complete", "closed"}
      OBVIOUS
    <2>2. ASSUME apc' = "run"
          PROVE  /\ Len(buf') <= Len(sent')
                 /\ \A k \in 1..Len(buf') : /\ buf'[k].kind = "bulk"
                                            /\ buf'[k] = sent'[Len(sent') - Len(buf') + k]
      BY <2>2
    <2> QED
      BY <2>1, <2>2 DEF BatchInv
  <1>7. ReadInv'
    BY <1>1 DEF FramingInv, ReadInv
  <1>8. ArrivedInv'
    <2>1. AllClean(got) /\ AllClean(pend)
      BY <1>1 DEF FramingInv, ArrivedInv
    <2>2. AllClean(got)' /\ AllClean(pend)'
      BY <1>1, <2>1 DEF AllClean
    <2>3. ASSUME NEW k \in 1..Len(got), Clean(got[k])
          PROVE  k <= Len(sent') /\ got[k] = sent'[k]
      <3>1. k <= Len(sent) /\ got[k] = sent[k]
        BY <2>3 DEF FramingInv, ArrivedInv
      <3>2. k \in 1..Len(sent)
        BY <1>2, <3>1
      <3> QED
        BY <1>2, <1>3, <3>1, <3>2
    <2>4. ASSUME NEW k \in 1..Len(pend)
          PROVE  Len(got) + k <= Len(sent') /\ pend[k] = sent'[Len(got) + k]
      <3>1. Clean(pend[k])
        BY <2>1 DEF AllClean
      <3>2. pend[k] # Error
        BY <3>1, ErrorFrame DEF Clean
      <3>3. ~(/\ Len(got) + k <= Len(sent) /\ sent[Len(got) + k].size > 0
              /\ pend[k] = [sent[Len(got) + k] EXCEPT !.ok = FALSE])
        <4> SUFFICES ASSUME /\ Len(got) + k <= Len(sent)
                            /\ pend[k] = [sent[Len(got) + k] EXCEPT !.ok = FALSE]
                     PROVE  FALSE
          OBVIOUS
        <4>1. Len(got) + k \in 1..Len(sent)
          BY <1>2
        <4>2. sent[Len(got) + k] \in Produced
          BY <1>2, <4>1
        <4>3. pend[k].ok = FALSE
          BY <4>2 DEF Produced
        <4> QED
          BY <3>1, <4>3 DEF Clean
      <3>4. Len(got) + k <= Len(sent) /\ pend[k] = sent[Len(got) + k]
        BY <3>2, <3>3 DEF FramingInv, ArrivedInv
      <3>5. Len(got) + k \in 1..Len(sent)
        BY <1>2, <3>4
      <3> QED
        BY <1>2, <1>3, <3>4, <3>5
    <2> QED
      BY <1>1, <2>2, <2>3, <2>4 DEF ArrivedInv
  <1>9. EndInv'
    BY <1>1 DEF FramingInv, EndInv
  <1> QED
    BY <1>4, <1>5, <1>6, <1>7, <1>8, <1>9 DEF FramingInv

(* What is sent comes after the units under way.                           *)
LEMMA UnderGrows ==
    ASSUME FramingInv, out = <<>>, rx' = rx, wire' = wire, out' \in Seq(Unit)
    PROVE  Under' = Under \o out'
  <1>1. rx \in Seq(Unit) /\ wire \in Seq(Unit)
    BY DEF FramingInv, FramingTypes
  <1>2. rx \o (wire \o out') = (rx \o (wire \o <<>>)) \o out'
    BY <1>1, SentLast
  <1> QED
    BY <1>2 DEF Under

(* A whole stream is one.                                                  *)
LEMMA WholeIsStream ==
    ASSUME NEW S, NEW b, NEW c, NEW s, WholeStream(S, b, c, s)
    PROVE  Stream(S, b, s)
  BY DEF WholeStream, Stream

(* append_record_parts keeps the invariant.                                *)
LEMMA AppendRecordKeeps ==
    ASSUME FramingInv, NEW r \in Produced, r.kind = "bulk", AppendRecord(r)
    PROVE  FramingInv'
  <1>1. /\ Produces(r) /\ apc' = apc /\ apc = "run" /\ out = <<>> /\ sent' = Append(sent, r)
        /\ wire' = wire /\ rx' = rx
    BY DEF AppendRecord, Produces, recvVars
  <1>2. sent \in Seq(Produced) /\ buf \in Seq(Produced) /\ Under \in Seq(Unit)
    BY DEF FramingInv, FramingTypes, Under
  <1>3. /\ Len(sent) \in Nat /\ Len(buf) \in Nat /\ Len(sent') = Len(sent) + 1
        /\ sent'[Len(sent) + 1] = r /\ \A k \in 1..Len(sent) : sent'[k] = sent[k]
    BY <1>1, <1>2
  <1>4. /\ Flushed \in Seq(Unit) /\ Under \o Flushed \in Seq(Unit)
        /\ WholeStream(Under \o Flushed, Before, Len(sent), sent)
        /\ NoError(Under \o Flushed)
    BY <1>1, FlushedStream
  <1>5. CASE 1 + r.size > BulkCap
    <2> DEFINE f == Bulk(<<r>>)
    <2>1. out' = Flushed \o Units(f) /\ buf' = <<>>
      BY <1>5 DEF AppendRecord
    <2>2. f \in Frames /\ f # EF /\ f.recs = <<r>>
      <3>1. <<r>> \in Seq(Produced)
        OBVIOUS
      <3> QED
        BY <3>1, FrameTypes
    <2> HIDE DEF f
    <2>3. /\ out' \in Seq(Unit)
          /\ WholeStream(Under \o out', Before, Len(sent) + 1, sent')
          /\ NoError(Under \o out')
      BY <1>1, <2>1, <2>2, FlushedAnd
    <2>4. Under' = Under \o out'
      BY <1>1, <2>3, UnderGrows
    <2>5. /\ buf' \in Seq(Produced) /\ Len(buf') = 0 /\ Len(sent') - Len(buf') = Len(sent) + 1
          /\ Len(buf') <= Len(sent')
      BY <1>3, <2>1
    <2>6. WholeStream(Under', Before, Len(sent') - Len(buf'), sent') /\ NoError(Under')
      BY <2>3, <2>4, <2>5
    <2>7. Stream(Under', Before, sent')
      BY <2>6, WholeIsStream
    <2>8. \A k \in 1..Len(buf') : FALSE
      BY <2>5
    <2> QED
      BY <1>1, <2>3, <2>5, <2>6, <2>7, <2>8, ProduceKeeps
  <1>6. CASE ~(1 + r.size > BulkCap) /\ BulkSize(buf) + 1 + r.size > BulkCap
    <2>1. out' = Flushed /\ buf' = <<r>>
      BY <1>6 DEF AppendRecord
    <2>2. Under' = Under \o Flushed /\ out' \in Seq(Unit)
      BY <1>1, <1>4, <2>1, UnderGrows
    <2>3. /\ buf' \in Seq(Produced) /\ Len(buf') = 1 /\ Len(sent') - Len(buf') = Len(sent)
          /\ Len(buf') <= Len(sent') /\ buf'[1] = r
      BY <1>3, <2>1
    <2>4. WholeStream(Under', Before, Len(sent), sent')
      BY <1>1, <1>2, <1>4, <2>2, MoreStream
    <2>5. WholeStream(Under', Before, Len(sent') - Len(buf'), sent') /\ NoError(Under')
      BY <1>4, <2>2, <2>3, <2>4
    <2>6. Stream(Under', Before, sent')
      BY <2>5, WholeIsStream
    <2>7. \A k \in 1..Len(buf') : /\ buf'[k].kind = "bulk"
                                  /\ buf'[k] = sent'[Len(sent') - Len(buf') + k]
      BY <1>3, <2>3
    <2> QED
      BY <1>1, <2>2, <2>3, <2>5, <2>6, <2>7, ProduceKeeps
  <1>7. CASE ~(1 + r.size > BulkCap) /\ ~(BulkSize(buf) + 1 + r.size > BulkCap)
    <2>1. out' = <<>> /\ buf' = Append(buf, r)
      BY <1>7 DEF AppendRecord
    <2>2. out' \in Seq(Unit)
      BY <2>1
    <2>3. Under' = Under
      <3>1. Under' = Under \o <<>>
        BY <1>1, <2>1, <2>2, UnderGrows
      <3> QED
        BY <1>2, <3>1
    <2>4. /\ Len(buf) <= Len(sent)
          /\ \A k \in 1..Len(buf) : /\ buf[k].kind = "bulk"
                                    /\ buf[k] = sent[Len(sent) - Len(buf) + k]
      BY <1>1 DEF FramingInv, BatchInv
    <2>5. /\ buf' \in Seq(Produced) /\ Len(buf') = Len(buf) + 1
          /\ buf'[Len(buf) + 1] = r /\ \A k \in 1..Len(buf) : buf'[k] = buf[k]
      BY <1>2, <2>1
    <2>6. Len(sent') - Len(buf') = Len(sent) - Len(buf) /\ Len(buf') <= Len(sent')
      BY <1>3, <2>4, <2>5
    <2>7. WholeStream(Under', Before, Len(sent') - Len(buf'), sent') /\ NoError(Under')
      <3>1. WholeStream(Under, Before, Len(sent) - Len(buf), sent) /\ NoError(Under)
        BY <1>1 DEF FramingInv, StreamInv
      <3>2. WholeStream(Under, Before, Len(sent) - Len(buf), sent')
        BY <1>1, <1>2, <3>1, MoreStream
      <3> QED
        BY <2>3, <2>6, <3>1, <3>2
    <2>8. Stream(Under', Before, sent')
      BY <2>7, WholeIsStream
    <2>9. ASSUME NEW k \in 1..Len(buf')
          PROVE  /\ buf'[k].kind = "bulk"
                 /\ buf'[k] = sent'[Len(sent') - Len(buf') + k]
      <3>1. CASE k = Len(buf) + 1
        <4>1. Len(sent') - Len(buf') + k = Len(sent) + 1
          BY <1>3, <2>5, <3>1
        <4> QED
          BY <1>3, <2>5, <3>1, <4>1
      <3>2. CASE k # Len(buf) + 1
        <4>1. k \in 1..Len(buf)
          BY <1>3, <2>5, <3>2
        <4> DEFINE j == Len(sent) - Len(buf) + k
        <4>2. j \in 1..Len(sent) /\ Len(sent') - Len(buf') + k = j
          <5>1. Len(buf) <= Len(sent)
            BY <2>4
          <5> QED
            BY <1>3, <2>6, <4>1, <5>1
        <4>3. buf[k].kind = "bulk" /\ buf[k] = sent[j]
          BY <2>4, <4>1
        <4> HIDE DEF j
        <4> QED
          BY <1>3, <2>5, <4>1, <4>2, <4>3
      <3> QED
        BY <3>1, <3>2
    <2> QED
      BY <1>1, <2>2, <2>5, <2>6, <2>7, <2>8, <2>9, ProduceKeeps
  <1> QED
    BY <1>5, <1>6, <1>7

(* ... and without memory.                                                 *)
LEMMA AppendNoMemoryKeeps ==
    ASSUME FramingInv, NEW r \in Produced, AppendNoMemory(r)
    PROVE  FramingInv'
  <1>1. /\ Produces(r) /\ apc' = "failing" /\ apc = "run" /\ out = <<>>
        /\ sent' = Append(sent, r) /\ wire' = wire /\ rx' = rx /\ out' = Flushed /\ buf' = <<>>
    BY DEF AppendNoMemory, Produces, recvVars
  <1>2. sent \in Seq(Produced) /\ buf' \in Seq(Produced)
    BY <1>1 DEF FramingInv, FramingTypes
  <1>3. /\ Flushed \in Seq(Unit) /\ Under \o Flushed \in Seq(Unit)
        /\ WholeStream(Under \o Flushed, Before, Len(sent), sent)
        /\ NoError(Under \o Flushed)
    BY <1>1, FlushedStream
  <1>4. Under' = Under \o Flushed /\ out' \in Seq(Unit)
    BY <1>1, <1>3, UnderGrows
  <1>5. WholeStream(Under', Before, Len(sent), sent')
    BY <1>1, <1>2, <1>3, <1>4, MoreStream
  <1>6. Stream(Under', Before, sent') /\ NoError(Under')
    BY <1>3, <1>4, <1>5, WholeIsStream
  <1> QED
    BY <1>1, <1>2, <1>4, <1>6, ProduceKeeps

(* send_frame keeps it.                                                    *)
LEMMA SendControlKeeps ==
    ASSUME FramingInv, NEW r \in Produced, SendControl(r)
    PROVE  FramingInv'
  <1> DEFINE f == Control(r)
  <1>1. /\ Produces(r) /\ apc' = apc /\ apc = "run" /\ out = <<>> /\ sent' = Append(sent, r)
        /\ wire' = wire /\ rx' = rx /\ out' = Flushed \o Units(f) /\ buf' = <<>>
    BY DEF SendControl, Produces, recvVars
  <1>2. sent \in Seq(Produced)
    BY DEF FramingInv, FramingTypes
  <1>3. Len(sent) \in Nat /\ Len(sent') = Len(sent) + 1
    BY <1>1, <1>2
  <1>4. f \in Frames /\ f # EF /\ f.recs = <<r>>
    BY FrameTypes
  <1> HIDE DEF f
  <1>5. /\ out' \in Seq(Unit)
        /\ WholeStream(Under \o out', Before, Len(sent) + 1, sent')
        /\ NoError(Under \o out')
    BY <1>1, <1>4, FlushedAnd
  <1>6. Under' = Under \o out'
    BY <1>1, <1>5, UnderGrows
  <1>7. /\ buf' \in Seq(Produced) /\ Len(buf') = 0 /\ Len(sent') - Len(buf') = Len(sent) + 1
        /\ Len(buf') <= Len(sent')
    BY <1>1, <1>3
  <1>8. WholeStream(Under', Before, Len(sent') - Len(buf'), sent') /\ NoError(Under')
    BY <1>5, <1>6, <1>7
  <1>9. Stream(Under', Before, sent')
    BY <1>8, WholeIsStream
  <1>10. \A k \in 1..Len(buf') : FALSE
    BY <1>7
  <1> QED
    BY <1>1, <1>5, <1>7, <1>8, <1>9, <1>10, ProduceKeeps

(* What moves units along, or does not touch them, keeps the invariant.    *)
LEMMA MovesKeep ==
    ASSUME FramingInv, FramingTypes', Under' = Under, ReadInv',
           UNCHANGED <<apc, sent, buf, rpc, pend, got>>, out = <<>> => out' = <<>>
    PROVE  FramingInv'
  <1>1. Before' = Before
    BY DEF Before
  <1>2. StreamInv'
    BY <1>1 DEF FramingInv, StreamInv
  <1>3. BatchInv'
    BY DEF FramingInv, BatchInv
  <1>4. AllClean(got)' = AllClean(got) /\ AllClean(pend)' = AllClean(pend)
    BY DEF AllClean
  <1>5. ArrivedInv'
    BY <1>4 DEF FramingInv, ArrivedInv
  <1>6. EndInv'
    BY DEF FramingInv, EndInv
  <1> QED
    BY <1>2, <1>3, <1>5, <1>6 DEF FramingInv

(* send_all moves units to the socket.                                     *)
LEMMA SendSomeKeeps == ASSUME FramingInv, SendSome PROVE FramingInv'
  <1>1. PICK n \in 1..Len(out) : /\ wire' = wire \o SubSeq(out, 1, n)
                                 /\ out' = SubSeq(out, n + 1, Len(out))
    BY DEF SendSome
  <1>2. /\ out # <<>> /\ apc' = apc /\ sent' = sent /\ buf' = buf /\ rpc' = rpc /\ rx' = rx
        /\ pend' = pend /\ got' = got
    BY DEF SendSome, recvVars
  <1>3. out \in Seq(Unit) /\ wire \in Seq(Unit) /\ rx \in Seq(Unit)
    BY DEF FramingInv, FramingTypes
  <1> DEFINE A == SubSeq(out, 1, n)
             B == SubSeq(out, n + 1, Len(out))
  <1>4. A \in Seq(Unit) /\ B \in Seq(Unit) /\ A \o B = out
    BY <1>3, SplitSeq
  <1>5. wire' = wire \o A /\ out' = B
    BY <1>1
  <1> HIDE DEF A, B
  <1>6. (wire \o A) \o B = wire \o (A \o B)
    <2>1. A \in Seq(Unit) /\ B \in Seq(Unit)
      BY <1>4
    <2> QED
      BY <1>3, <2>1, JoinAssoc
  <1>7. Under' = Under
    BY <1>2, <1>4, <1>5, <1>6 DEF Under
  <1>8. wire' \in Seq(Unit) /\ out' \in Seq(Unit)
    BY <1>3, <1>4, <1>5
  <1>9. FramingTypes'
    BY <1>2, <1>8 DEF FramingInv, FramingTypes
  <1>10. ReadInv'
    BY <1>2 DEF FramingInv, ReadInv
  <1> QED
    BY <1>2, <1>7, <1>9, <1>10, MovesKeep

(* The units left when a send fails.                                       *)
LEMMA SendFailsKeeps == ASSUME FramingInv, SendFails PROVE FramingInv'
  <1>1. /\ out # <<>> /\ out' = <<>> /\ buf' = <<>> /\ sent' = sent /\ wire' = wire
        /\ rpc' = rpc /\ rx' = rx /\ pend' = pend /\ got' = got
        /\ apc' = IF apc = "closing" THEN "closed" ELSE "failing"
    BY DEF SendFails, Unsendable, recvVars
  <1>2. /\ rx \in Seq(Unit) /\ wire \in Seq(Unit) /\ out \in Seq(Unit)
        /\ apc \in {"run", "failing", "closing", "closed", "complete"}
    BY DEF FramingInv, FramingTypes
  <1>3. apc \notin {"closed", "complete"}
    BY <1>1 DEF FramingInv, BatchInv
  <1>4. Under = Under' \o out /\ Under' \in Seq(Unit)
    <2>1. rx \o (wire \o out) = (rx \o (wire \o <<>>)) \o out /\ rx \o (wire \o <<>>) \in Seq(Unit)
      BY <1>2, SentLast
    <2> QED
      BY <1>1, <2>1 DEF Under
  <1>5. FramingTypes'
    BY <1>1 DEF FramingInv, FramingTypes
  <1>6. Before' = Before
    BY <1>1 DEF Before
  <1>7. Stream(Under', Before, sent)
    <2>1. Stream(Under, Before, sent)
      BY DEF FramingInv, StreamInv
    <2>2. Stream(Under' \o out, Before, sent)
      BY <1>4, <2>1
    <2> DEFINE U == Under'
    <2>3. U \in Seq(Unit) /\ Stream(U \o out, Before, sent)
      BY <1>4, <2>2
    <2> HIDE DEF U
    <2>4. Stream(U, Before, sent)
      BY <1>2, <2>3, StreamPrefix
    <2> QED
      BY <2>4 DEF U
  <1>8. /\ \A i \in 1..Len(Under') : i \in 1..Len(Under) /\ Under'[i] = Under[i]
    <2> DEFINE U == Under'
    <2>1. U \in Seq(Unit) /\ U \o out = Under
      BY <1>4
    <2> HIDE DEF U
    <2>2. Joined(U \o out, U, out)
      BY <1>2, <2>1, Joins
    <2>3. /\ Len(Under) = Len(U) + Len(out) /\ Len(U) \in Nat /\ Len(out) \in Nat
          /\ \A i \in 1..Len(U) : Under[i] = U[i]
      BY <2>1, <2>2 DEF Joined
    <2>4. \A i \in 1..Len(U) : i \in 1..Len(Under) /\ U[i] = Under[i]
      BY <2>3
    <2> QED
      BY <2>4 DEF U
  <1>9. StreamInv'
    <2>1. apc' \notin {"closing", "closed"} => apc \notin {"closing", "closed"}
      BY <1>1, <1>3
    <2>2. apc' \notin {"run", "complete"}
      BY <1>1
    <2>3. apc \notin {"closing", "closed"} => NoError(Under)
      BY DEF FramingInv, StreamInv
    <2>4. NoError(Under) => NoError(Under')
      BY <1>8 DEF NoError
    <2>5. Stream(Under', Before', sent')
      BY <1>1, <1>6, <1>7
    <2> QED
      BY <2>1, <2>2, <2>3, <2>4, <2>5 DEF StreamInv
  <1>10. BatchInv'
    BY <1>1 DEF BatchInv
  <1>11. ReadInv'
    BY <1>1 DEF FramingInv, ReadInv
  <1>12. ArrivedInv'
    <2>1. AllClean(got)' = AllClean(got) /\ AllClean(pend)' = AllClean(pend)
      BY <1>1 DEF AllClean
    <2>2. ErrorRest(Under) => ErrorRest(Under')
      BY <1>8 DEF ErrorRest
    <2>3. apc \in {"closing", "closed"} => apc' \in {"closing", "closed"}
      BY <1>1, <1>3
    <2>4. ~(AllClean(got) /\ AllClean(pend)) => apc' \in {"closing", "closed"} /\ ErrorRest(Under')
      BY <2>2, <2>3 DEF FramingInv, ArrivedInv
    <2> QED
      BY <1>1, <2>1, <2>4 DEF FramingInv, ArrivedInv
  <1>13. EndInv'
    BY <1>1, <1>3 DEF FramingInv, EndInv
  <1> QED
    BY <1>5, <1>9, <1>10, <1>11, <1>12, <1>13 DEF FramingInv

(* A session that fails to receive has nothing more to send but ERROR.     *)
LEMMA ReceiveFailsKeeps == ASSUME FramingInv, ReceiveFails PROVE FramingInv'
  <1>1. /\ apc = "run" /\ apc' = "failing" /\ sent' = sent /\ buf' = buf /\ out' = out
        /\ wire' = wire /\ rpc' = rpc /\ rx' = rx /\ pend' = pend /\ got' = got
    BY DEF ReceiveFails, recvVars
  <1>2. FramingTypes'
    BY <1>1 DEF FramingInv, FramingTypes
  <1>3. Under' = Under /\ Before' = Before
    BY <1>1 DEF Under, Before
  <1>4. StreamInv'
    BY <1>1, <1>3 DEF FramingInv, StreamInv
  <1>5. BatchInv'
    BY <1>1 DEF BatchInv
  <1>6. ReadInv'
    BY <1>1 DEF FramingInv, ReadInv
  <1>7. ArrivedInv'
    <2>1. AllClean(got) /\ AllClean(pend)
      BY <1>1 DEF FramingInv, ArrivedInv
    <2>2. AllClean(got)' /\ AllClean(pend)'
      BY <1>1, <2>1 DEF AllClean
    <2> QED
      BY <1>1, <2>2 DEF FramingInv, ArrivedInv
  <1>8. EndInv'
    BY <1>1 DEF FramingInv, EndInv
  <1> QED
    BY <1>2, <1>4, <1>5, <1>6, <1>7, <1>8 DEF FramingInv

(* send_error.                                                             *)
LEMMA SendErrorKeeps == ASSUME FramingInv, SendError PROVE FramingInv'
  <1>1. /\ apc = "failing" /\ out = <<>> /\ out' = Units(EF) /\ apc' = "closing" /\ sent' = sent
        /\ buf' = buf /\ wire' = wire /\ rpc' = rpc /\ rx' = rx /\ pend' = pend /\ got' = got
    BY DEF SendError, recvVars, EF
  <1>2. out' \in Seq(Unit) /\ Under \in Seq(Unit) /\ Before \in Nat
    <2>1. EF \in Frames /\ Len(EF.recs) > 0
      BY ErrorFrame
    <2>2. Units(EF) \in Seq(Unit)
      BY <2>1, UnitsOf
    <2>3. Under \in Seq(Unit) /\ Before \in Nat
      BY DEF FramingInv, FramingTypes, Under, Before
    <2> QED
      BY <1>1, <2>2, <2>3
  <1>3. Under' = Under \o Units(EF)
    BY <1>1, <1>2, UnderGrows
  <1>4. FramingTypes'
    BY <1>1, <1>2 DEF FramingInv, FramingTypes
  <1>5. Before' = Before
    BY <1>1 DEF Before
  <1>6. StreamInv'
    <2>1. Stream(Under, Before, sent) /\ NoError(Under)
      BY <1>1 DEF FramingInv, StreamInv
    <2>2. Stream(Under \o Units(EF), Before, sent)
      BY <1>2, <2>1, AddError DEF NoError
    <2>3. Stream(Under', Before', sent')
      BY <1>1, <1>3, <1>5, <2>2
    <2> QED
      BY <1>1, <2>3 DEF StreamInv
  <1>7. BatchInv'
    BY <1>1 DEF BatchInv
  <1>8. ReadInv'
    BY <1>1 DEF FramingInv, ReadInv
  <1>9. ArrivedInv'
    <2>1. AllClean(got) /\ AllClean(pend)
      BY <1>1 DEF FramingInv, ArrivedInv
    <2>2. AllClean(got)' /\ AllClean(pend)'
      BY <1>1, <2>1 DEF AllClean
    <2> QED
      BY <1>1, <2>2 DEF FramingInv, ArrivedInv
  <1>10. EndInv'
    BY <1>1 DEF FramingInv, EndInv
  <1> QED
    BY <1>4, <1>6, <1>7, <1>8, <1>9, <1>10 DEF FramingInv

(* close.                                                                  *)
LEMMA CloseKeeps == ASSUME FramingInv, Close PROVE FramingInv'
  <1>1. /\ out = <<>> /\ sent' = sent /\ buf' = buf /\ out' = out /\ wire' = wire /\ rpc' = rpc
        /\ rx' = rx /\ pend' = pend /\ got' = got
        /\ \/ apc = "closing" /\ apc' = "closed"
           \/ /\ apc = "run" /\ sent # <<>> /\ Last(sent) = Rec("control", 0)
              /\ apc' = "complete"
    BY DEF Close, recvVars
  <1>2. FramingTypes'
    BY <1>1 DEF FramingInv, FramingTypes
  <1>3. Under' = Under /\ Before' = Before
    BY <1>1 DEF Under, Before
  <1>4. StreamInv'
    <2>1. CASE apc = "closing"
      BY <1>1, <1>3, <2>1 DEF FramingInv, StreamInv
    <2>2. CASE apc = "run"
      BY <1>1, <1>3, <2>2 DEF FramingInv, StreamInv
    <2> QED
      BY <1>1, <2>1, <2>2
  <1>5. apc = "run" => buf = <<>>
    <2> SUFFICES ASSUME apc = "run", buf # <<>> PROVE FALSE
      OBVIOUS
    <2>1. sent \in Seq(Produced) /\ buf \in Seq(Produced)
      BY DEF FramingInv, FramingTypes
    <2>2. Len(buf) \in 1..Len(buf) /\ Len(buf) \in Nat /\ Len(sent) \in Nat
      BY <2>1
    <2>3. buf[Len(buf)].kind = "bulk" /\ buf[Len(buf)] = sent[Len(sent) - Len(buf) + Len(buf)]
      BY <2>2 DEF FramingInv, BatchInv
    <2>4. Len(sent) - Len(buf) + Len(buf) = Len(sent)
      BY <2>2
    <2>5. sent[Len(sent)].kind = "control"
      BY <1>1 DEF Last, Rec
    <2> QED
      BY <2>3, <2>4, <2>5
  <1>6. BatchInv'
    <2>1. CASE apc = "closing"
      BY <1>1, <2>1 DEF FramingInv, BatchInv
    <2>2. CASE apc = "run"
      BY <1>1, <1>5, <2>2 DEF FramingInv, BatchInv
    <2> QED
      BY <1>1, <2>1, <2>2
  <1>7. ReadInv'
    BY <1>1 DEF FramingInv, ReadInv
  <1>8. ArrivedInv'
    <2>1. AllClean(got)' = AllClean(got) /\ AllClean(pend)' = AllClean(pend)
      BY <1>1 DEF AllClean
    <2>2. apc \in {"closing", "closed"} => apc' \in {"closing", "closed"}
      BY <1>1
    <2>3. ~(AllClean(got) /\ AllClean(pend)) => apc' \in {"closing", "closed"} /\ ErrorRest(Under')
      BY <1>3, <2>2 DEF FramingInv, ArrivedInv
    <2> QED
      BY <1>1, <2>1, <2>3 DEF FramingInv, ArrivedInv
  <1>9. EndInv'
    BY <1>1 DEF FramingInv, EndInv
  <1> QED
    BY <1>2, <1>4, <1>6, <1>7, <1>8, <1>9 DEF FramingInv

-----------------------------------------------------------------------------
(* FramedSocket.                                                           *)

(* The unit a stream begins with.                                          *)
LEMMA HeadUnit ==
    ASSUME NEW R \in Seq(Unit), NEW T \in Seq(Unit), NEW b, NEW s, Stream(R \o T, b, s),
           Len(R) > 0
    PROVE  /\ R[1].frame \in Frames /\ Len(R[1].frame.recs) \in Nat
           /\ Len(R[1].frame.recs) > 0
           /\ FrameSize(R[1].frame) \in Nat /\ FrameSize(R[1].frame) >= 2
  <1> DEFINE X == R \o T
  <1>1. Joined(X, R, T)
    BY Joins
  <1>2. PICK pos : Placed(X, pos, b, s)
    BY DEF Stream
  <1> HIDE DEF X
  <1>3. X \in Seq(Unit) /\ 1 \in 1..Len(X) /\ X[1] = R[1]
    BY <1>1 DEF Joined
  <1> QED
    BY <1>2, <1>3, UnitTypes

(* _receive_exact takes units from the socket, and no more than it wants.  *)
LEMMA RecvIntoKeeps == ASSUME FramingInv, RecvInto PROVE FramingInv'
  <1>1. PICK n \in 1..Missing : /\ n <= Len(wire) /\ rx' = rx \o SubSeq(wire, 1, n)
                                /\ wire' = SubSeq(wire, n + 1, Len(wire))
    BY DEF RecvInto
  <1>2. /\ apc' = apc /\ sent' = sent /\ buf' = buf /\ out' = out /\ rpc' = rpc
        /\ pend' = pend /\ got' = got
    BY DEF RecvInto, agentVars
  <1>3. out \in Seq(Unit) /\ wire \in Seq(Unit) /\ rx \in Seq(Unit)
    BY DEF FramingInv, FramingTypes
  <1>4. n \in 1..Len(wire)
    BY <1>1, <1>3
  <1> DEFINE A == SubSeq(wire, 1, n)
             B == SubSeq(wire, n + 1, Len(wire))
  <1>5. A \in Seq(Unit) /\ B \in Seq(Unit) /\ A \o B = wire /\ Len(A) = n
    BY <1>3, <1>4, SplitSeq
  <1>6. rx' = rx \o A /\ wire' = B
    BY <1>1
  <1> HIDE DEF A, B
  <1>7. A \in Seq(Unit) /\ B \in Seq(Unit) /\ B \o out \in Seq(Unit)
    BY <1>3, <1>5
  <1>8. (rx \o A) \o (B \o out) = rx \o (A \o (B \o out))
    BY <1>3, <1>7, JoinAssoc
  <1>9. (A \o B) \o out = A \o (B \o out)
    BY <1>3, <1>7, JoinAssoc
  <1>10. Under' = Under
    BY <1>2, <1>5, <1>6, <1>8, <1>9 DEF Under
  <1>11. wire' \in Seq(Unit) /\ rx' \in Seq(Unit)
    BY <1>3, <1>6, <1>7
  <1>12. FramingTypes'
    BY <1>2, <1>11 DEF FramingInv, FramingTypes
  <1>13. ReadInv'
    <2>1. Joined(rx \o A, rx, A)
      BY <1>3, <1>7, Joins
    <2>2. /\ Len(rx) \in Nat /\ n \in Nat /\ n > 0 /\ Len(rx') = Len(rx) + n
          /\ \A i \in 1..Len(rx) : rx'[i] = rx[i]
      BY <1>4, <1>5, <1>6, <2>1 DEF Joined
    <2>3. FrameSize(rx'[1].frame) \in Nat /\ FrameSize(rx'[1].frame) >= 2
      <3> DEFINE R == rx'
                 T == B \o out
      <3>1. Stream(R \o T, Before, sent)
        <4>1. Stream(Under, Before, sent)
          BY DEF FramingInv, StreamInv
        <4>2. Under' = R \o T
          BY <1>2, <1>6 DEF Under
        <4> QED
          BY <1>10, <4>1, <4>2
      <3>2. R \in Seq(Unit) /\ T \in Seq(Unit) /\ Len(R) > 0
        BY <1>7, <1>11, <2>2
      <3> HIDE DEF R, T
      <3>3. FrameSize(R[1].frame) \in Nat /\ FrameSize(R[1].frame) >= 2
        BY <3>1, <3>2, HeadUnit
      <3> QED
        BY <3>3 DEF R
    <2>4. CASE Len(rx) < 2
      <3>1. n <= 2 - Len(rx)
        BY <1>1, <2>2, <2>4 DEF Missing
      <3> QED
        BY <2>2, <2>3, <3>1 DEF ReadInv
    <2>5. CASE ~(Len(rx) < 2)
      <3>1. rx'[1] = rx[1]
        BY <2>2, <2>5
      <3>2. n \in 1..(FrameSize(rx[1].frame) - Len(rx))
        BY <1>1, <2>5 DEF Missing
      <3>3. FrameSize(rx[1].frame) \in Nat
        BY <2>3, <3>1
      <3>4. Len(rx) + n <= FrameSize(rx[1].frame)
        BY <2>2, <3>2, <3>3
      <3> QED
        BY <2>2, <3>1, <3>4 DEF ReadInv
    <2> QED
      BY <2>4, <2>5
  <1> QED
    BY <1>2, <1>10, <1>12, <1>13, MovesKeep

(* Counting the units of a frame that are its own finds one that is not.   *)
LEMMA OwnUnits ==
    ASSUME NEW R \in Seq(Unit), NEW f
    PROVE  LET P == {i \in DOMAIN R : R[i] = [frame |-> f, at |-> i]}
           IN  /\ Cardinality(P) \in Nat /\ Cardinality(P) <= Len(R)
               /\ Cardinality(P) = Len(R) => \A i \in 1..Len(R) : R[i] = [frame |-> f, at |-> i]
               /\ Cardinality(P) # Len(R) => \E i \in 1..Len(R) : R[i] # [frame |-> f, at |-> i]
  <1> DEFINE D == 1..Len(R)
             P == {i \in DOMAIN R : R[i] = [frame |-> f, at |-> i]}
  <1>1. DOMAIN R = D /\ Len(R) \in Nat
    OBVIOUS
  <1>2. IsFiniteSet(D) /\ Cardinality(D) = Len(R)
    BY <1>1, FS_Interval
  <1>3. P \subseteq D
    BY <1>1
  <1>4. \A i \in D : i \in P <=> R[i] = [frame |-> f, at |-> i]
    BY <1>1
  <1> HIDE DEF D, P
  <1>5. /\ IsFiniteSet(P) /\ Cardinality(P) <= Cardinality(D)
        /\ Cardinality(P) = Cardinality(D) => P = D
    BY <1>2, <1>3, FS_Subset
  <1>6. Cardinality(P) \in Nat
    BY <1>5, FS_CardinalityType
  <1>7. Cardinality(P) # Len(R) => \E i \in D : i \notin P
    <2>1. P = D => Cardinality(P) = Len(R)
      BY <1>2, Zenon
    <2>2. P # D => \E i \in D : i \notin P
      BY <1>3
    <2> QED
      BY <2>1, <2>2
  <1> QED
    BY <1>2, <1>4, <1>5, <1>6, <1>7 DEF D, P

(* decode_bulk_batch: the records of a frame with a torn end.              *)
LEMMA TornRecords ==
    ASSUME NEW q \in Seq(Received), Len(q) > 0
    PROVE  LET n == Len(q)
               t == [q EXCEPT ![n] = [@ EXCEPT !.ok = FALSE]]
           IN  /\ t \in Seq(Received) /\ Len(t) = n
               /\ \A k \in 1..n : k # n => t[k] = q[k]
               /\ t[n] = [q[n] EXCEPT !.ok = FALSE]
               /\ t[n].ok = FALSE
  <1> DEFINE n == Len(q)
             x == [q[n] EXCEPT !.ok = FALSE]
             t == [q EXCEPT ![n] = x]
  <1>1. n \in Nat /\ n \in 1..n /\ DOMAIN q = 1..n /\ q[n] \in Received
    OBVIOUS
  <1>2. x \in Received /\ x.ok = FALSE
    BY <1>1 DEF Received
  <1> HIDE DEF x
  <1>3. t[n] = x /\ \A k \in 1..n : k # n => t[k] = q[k]
    BY <1>1
  <1>4. t \in [1..n -> Received]
    <2>1. q \in [1..n -> Received]
      OBVIOUS
    <2> QED
      BY <1>1, <1>2, <2>1
  <1>5. t \in Seq(Received) /\ Len(t) = n
    BY <1>1, <1>4
  <1>6. t = [q EXCEPT ![n] = [@ EXCEPT !.ok = FALSE]]
    BY DEF x
  <1> HIDE DEF t
  <1> QED
    BY <1>2, <1>3, <1>5, <1>6 DEF x

(* What reading a frame has to establish.                                  *)
LEMMA ReadKeeps ==
    ASSUME FramingInv, pend = <<>>, rx' = <<>>, pend' \in Seq(Received), AllClean(got),
           UNCHANGED <<apc, sent, buf, out, wire, rpc, got>>,
           Stream(wire \o out, Len(got) + Len(pend'), sent),
           apc \in {"run", "complete"} =>
                WholeStream(wire \o out, Len(got) + Len(pend'), Len(sent) - Len(buf), sent),
           \A k \in 1..Len(pend') :
                \/ Len(got) + k <= Len(sent) /\ pend'[k] = sent[Len(got) + k]
                \/ /\ k = Len(pend')
                   /\ \/ pend'[k] = Error
                      \/ /\ Len(got) + k <= Len(sent) /\ sent[Len(got) + k].size > 0
                         /\ pend'[k] = [sent[Len(got) + k] EXCEPT !.ok = FALSE],
           ~AllClean(pend') => apc \in {"closing", "closed"} /\ ErrorRest(wire \o out)
    PROVE  FramingInv'
  <1> DEFINE T == wire \o out
  <1>1. rx \in Seq(Unit) /\ T \in Seq(Unit)
    BY DEF FramingInv, FramingTypes
  <1>2. Under' = T /\ Under = rx \o T
    BY <1>1 DEF Under
  <1>3. FramingTypes'
    BY DEF FramingInv, FramingTypes
  <1> HIDE DEF T
  <1>4. Before' = Len(got) + Len(pend')
    BY DEF Before
  <1>5. NoError(Under) => NoError(T)
    <2>1. Joined(rx \o T, rx, T)
      BY <1>1, Joins
    <2>2. /\ Len(rx) \in Nat /\ Len(T) \in Nat /\ Len(Under) = Len(rx) + Len(T)
          /\ \A i \in 1..Len(T) : Under[Len(rx) + i] = T[i]
      BY <1>2, <2>1 DEF Joined
    <2>3. \A i \in 1..Len(T) : Len(rx) + i \in 1..Len(Under) /\ Under[Len(rx) + i] = T[i]
      BY <2>2
    <2> QED
      BY <2>3 DEF NoError
  <1>6. StreamInv'
    <2>1. Stream(Under', Before', sent')
      BY <1>2, <1>4 DEF T
    <2>2. apc' \in {"run", "complete"} =>
              WholeStream(Under', Before', Len(sent') - Len(buf'), sent')
      BY <1>2, <1>4 DEF T
    <2>3. apc' \notin {"closing", "closed"} => NoError(Under')
      BY <1>2, <1>5 DEF FramingInv, StreamInv
    <2> QED
      BY <2>1, <2>2, <2>3 DEF StreamInv
  <1>7. BatchInv'
    BY DEF FramingInv, BatchInv
  <1>8. ReadInv'
    BY DEF ReadInv
  <1>9. ArrivedInv'
    <2>1. AllClean(got') /\ got' = got /\ sent' = sent
      OBVIOUS
    <2>2. \A k \in 1..Len(got') : Clean(got'[k]) => k <= Len(sent') /\ got'[k] = sent'[k]
      BY <2>1 DEF FramingInv, ArrivedInv
    <2>3. ~AllClean(pend') => apc' \in {"closing", "closed"} /\ ErrorRest(Under')
      BY <1>2 DEF T
    <2> QED
      BY <2>1, <2>2, <2>3 DEF ArrivedInv
  <1>10. EndInv'
    BY DEF FramingInv, EndInv
  <1> QED
    BY <1>3, <1>6, <1>7, <1>8, <1>9, <1>10 DEF FramingInv

(* _receive_wire_frame and decode_bulk_batch.                              *)
LEMMA ReceiveFrameKeeps == ASSUME FramingInv, ReceiveFrame PROVE FramingInv'
  <1> DEFINE T == wire \o out
             f == rx[1].frame
             n == FrameSize(f)
             P == {i \in DOMAIN rx : rx[i] = [frame |-> f, at |-> i]}
             m == Len(f.recs)
  <1>1. /\ pend = <<>> /\ Len(rx) >= 2 /\ GoodHeader /\ Missing = 0 /\ Decode # <<>>
        /\ pend' = Decode /\ rx' = <<>> /\ apc' = apc /\ sent' = sent /\ buf' = buf
        /\ out' = out /\ wire' = wire /\ rpc' = rpc /\ got' = got
    BY DEF ReceiveFrame, agentVars
  <1>2. /\ rx \in Seq(Unit) /\ T \in Seq(Unit) /\ Len(rx) \in Nat /\ Len(rx) > 0
        /\ sent \in Seq(Produced) /\ Len(sent) \in Nat
        /\ got \in Seq(Received) /\ Len(got) \in Nat
    BY <1>1 DEF FramingInv, FramingTypes
  <1>3. Under = rx \o T /\ Before = Len(got) /\ Before \in Nat
    BY <1>1, <1>2 DEF Under, Before
  <1> HIDE DEF T
  <1>4. Stream(rx \o T, Len(got), sent)
    BY <1>3 DEF FramingInv, StreamInv
  <1>5. f \in Frames /\ m \in Nat /\ m > 0 /\ n \in Nat /\ n >= 2
    BY <1>2, <1>4, HeadUnit
  <1>6. f.recs \in Seq(Received)
    BY <1>5 DEF Frames
  <1>7. Len(rx) = n /\ rx[1].at = 1
    <2>1. Missing = n - Len(rx)
      BY <1>1, <1>2 DEF Missing
    <2> QED
      BY <1>1, <1>2, <1>5, <2>1 DEF GoodHeader
  <1>8. Joined(rx \o T, rx, T)
    BY <1>2, Joins
  <1>9. /\ Len(T) \in Nat /\ Len(Under) = n + Len(T) /\ Under \in Seq(Unit)
        /\ \A i \in 1..n : i \in 1..Len(Under) /\ Under[i] = rx[i]
    BY <1>3, <1>5, <1>7, <1>8 DEF Joined
  <1>10. Under[1] = rx[1] /\ Len(Under) > 0 /\ 1 \in 1..Len(Under) /\ n \in 1..n /\ 1 \in 1..n
    BY <1>5, <1>9
  <1>11. AllClean(got)
    <2>1. ~ErrorRest(Under)
      BY <1>7, <1>10 DEF ErrorRest
    <2> QED
      BY <2>1 DEF FramingInv, ArrivedInv
  <1>12. \A e \in 1..n : rx[e].frame = EF => apc \in {"closing", "closed"}
    <2>1. apc \notin {"closing", "closed"} => NoError(Under)
      BY DEF FramingInv, StreamInv
    <2> QED
      BY <1>9, <2>1 DEF NoError
  <1>13. ASSUME NEW e \in 1..n, rx[e].frame = EF, NEW d
         PROVE  Stream(T, d, sent) /\ ErrorRest(T) /\ apc \in {"closing", "closed"}
    <2>1. e \in 1..Len(rx)
      BY <1>7
    <2> HIDE DEF n, f
    <2> QED
      BY <1>2, <1>4, <1>12, <1>13, <2>1, DropTorn
  <1>14. Whole = Cardinality(P)
    BY DEF Whole
  <1>15. /\ Whole \in Nat /\ Whole <= n
         /\ Whole = n => \A i \in 1..n : rx[i] = [frame |-> f, at |-> i]
         /\ Whole # n => \E i \in 1..n : rx[i] # [frame |-> f, at |-> i]
    <2>1. /\ Cardinality(P) \in Nat /\ Cardinality(P) <= Len(rx)
          /\ Cardinality(P) = Len(rx) => \A i \in 1..Len(rx) : rx[i] = [frame |-> f, at |-> i]
          /\ Cardinality(P) # Len(rx) => \E i \in 1..Len(rx) : rx[i] # [frame |-> f, at |-> i]
      BY <1>2, OwnUnits
    <2> HIDE DEF P, n, f
    <2> QED
      BY <1>7, <1>14, <2>1
  <1>16. CASE Whole = n
    <2>1. Decode = f.recs
      BY <1>16 DEF Decode
    <2>2. \A i \in 1..n : rx[i].frame = f /\ rx[i].at = i
      <3>1. ASSUME NEW i \in 1..n PROVE rx[i].frame = f /\ rx[i].at = i
        <4>1. rx[i] = [frame |-> f, at |-> i]
          BY <1>15, <1>16
        <4> HIDE DEF f
        <4> QED
          BY <4>1
      <3> QED
        BY <3>1
    <2>3. CASE f = EF
      <3>1. pend' = <<Error>> /\ Len(pend') = 1 /\ pend'[1] = Error
        BY <1>1, <2>1, <2>3, ErrorFrame
      <3>2. rx[1].frame = EF
        BY <2>3
      <3>3. /\ Stream(T, Len(got) + Len(pend'), sent) /\ ErrorRest(T)
            /\ apc \in {"closing", "closed"}
        BY <1>10, <1>13, <3>2
      <3>4. \A k \in 1..Len(pend') : k = Len(pend') /\ pend'[k] = Error
        BY <3>1
      <3>5. apc \notin {"run", "complete"}
        BY <3>3
      <3>6. pend' \in Seq(Received)
        BY <1>1, <1>6, <2>1
      <3> HIDE DEF f, n, m, P
      <3> QED
        BY <1>1, <1>11, <3>3, <3>4, <3>5, <3>6, ReadKeeps DEF T
    <2>4. CASE f # EF
      <3>1. pend' = f.recs /\ Len(pend') = m /\ pend' \in Seq(Received)
        BY <1>1, <1>6, <2>1
      <3> DEFINE N == Len(rx)
      <3>2. N > 0 /\ N = FrameSize(rx[1].frame) /\ rx[N].frame = rx[1].frame /\ rx[N].at = N
        BY <1>7, <1>10, <2>2
      <3>3. ASSUME NEW pos, Placed(rx \o T, pos, Len(got), sent)
            PROVE  /\ Carries(f, Len(got), sent)
                   /\ Stream(T, Len(got) + m, sent)
                   /\ \A c : EndsAt(rx \o T, pos, Len(got), c) =>
                                WholeStream(T, Len(got) + m, c, sent)
        <4> HIDE DEF f, n, m, P
        <4>1. Placed(Under, pos, Len(got), sent)
          BY <1>3, <3>3
        <4>2. n \in 1..Len(Under) /\ n <= FrameSize(Under[1].frame) /\ Under[1].at = 1
          BY <1>5, <1>7, <1>9, <1>10 DEF n, f
        <4>3. \/ Under[n] = [frame |-> Under[1].frame, at |-> n] /\ pos[n] = pos[1]
              \/ Under[n].frame = EF /\ Under[1].frame # EF
          <5>1. Under \in Seq(Unit) /\ Len(Under) > 0
            BY <1>9, <1>10
          <5> QED
            BY <4>1, <4>2, <5>1, FirstFrame
        <4>4. Under[n].frame = f
          BY <1>9, <1>10, <2>2
        <4>5. pos[n] = pos[1]
          BY <2>4, <4>3, <4>4
        <4>6. pos[N] = pos[1]
          BY <1>7, <4>5
        <4>7. rx[1].frame # EF
          BY <2>4 DEF f
        <4> HIDE DEF N
        <4>8. /\ Carries(rx[1].frame, Len(got), sent)
              /\ Stream(T, Len(got) + Len(rx[1].frame.recs), sent)
              /\ \A c : EndsAt(rx \o T, pos, Len(got), c) =>
                            WholeStream(T, Len(got) + Len(rx[1].frame.recs), c, sent)
          BY <1>2, <3>2, <3>3, <4>6, <4>7, DropFrame DEF N
        <4> QED
          BY <4>8 DEF f, m
      <3> HIDE DEF f, n, m, P
      <3>4. Carries(f, Len(got), sent) /\ Stream(T, Len(got) + m, sent)
        <4>1. PICK pos : Placed(rx \o T, pos, Len(got), sent)
          BY <1>4 DEF Stream
        <4> QED
          BY <3>3, <4>1
      <3>5. apc \in {"run", "complete"} =>
                WholeStream(T, Len(got) + m, Len(sent) - Len(buf), sent)
        <4> SUFFICES ASSUME apc \in {"run", "complete"}
                     PROVE  WholeStream(T, Len(got) + m, Len(sent) - Len(buf), sent)
          OBVIOUS
        <4>1. WholeStream(rx \o T, Len(got), Len(sent) - Len(buf), sent)
          BY <1>3 DEF FramingInv, StreamInv
        <4>2. PICK pos : /\ Placed(rx \o T, pos, Len(got), sent)
                         /\ EndsAt(rx \o T, pos, Len(got), Len(sent) - Len(buf))
          BY <4>1 DEF WholeStream
        <4> QED
          BY <3>3, <4>2
      <3>6. ASSUME NEW k \in 1..m
            PROVE  /\ Len(got) + k <= Len(sent) /\ pend'[k] = sent[Len(got) + k]
                   /\ Clean(pend'[k])
        <4>1. Len(got) + m <= Len(sent) /\ pend'[k] = sent[Len(got) + k]
          BY <3>1, <3>4 DEF Carries, m
        <4>2. Len(got) + k \in 1..Len(sent) /\ Len(got) + k <= Len(sent)
          BY <1>2, <1>5, <4>1
        <4>3. sent[Len(got) + k] \in Produced
          BY <1>2, <4>2
        <4> QED
          BY <4>1, <4>2, <4>3, ProducedType
      <3>7. AllClean(pend')
        BY <3>1, <3>6 DEF AllClean
      <3>8. /\ Stream(T, Len(got) + Len(pend'), sent)
            /\ apc \in {"run", "complete"} =>
                  WholeStream(T, Len(got) + Len(pend'), Len(sent) - Len(buf), sent)
            /\ \A k \in 1..Len(pend') :
                  Len(got) + k <= Len(sent) /\ pend'[k] = sent[Len(got) + k]
        BY <3>1, <3>4, <3>5, <3>6
      <3>9. pend' \in Seq(Received)
        BY <3>1
      <3> QED
        BY <1>1, <1>11, <3>7, <3>8, <3>9, ReadKeeps DEF T
    <2> QED
      BY <2>3, <2>4
  <1>17. CASE Whole # n
    <2> DEFINE torn == [f.recs EXCEPT ![m] = [@ EXCEPT !.ok = FALSE]]
    <2>1. PICK e \in 1..n : rx[e] # [frame |-> f, at |-> e]
      BY <1>15, <1>17
    <2>2. rx[e].frame = EF /\ f # EF
      <3>1. PICK pos : Placed(Under, pos, Len(got), sent)
        BY <1>3, <1>4 DEF Stream
      <3>2. e \in 1..Len(Under) /\ Under[e] = rx[e] /\ Under[1].at = 1 /\ e <= n
        BY <1>5, <1>7, <1>9, <1>10
      <3>3. e <= FrameSize(Under[1].frame)
        BY <1>10, <3>2
      <3>4. \/ Under[e] = [frame |-> Under[1].frame, at |-> e] /\ pos[e] = pos[1]
            \/ Under[e].frame = EF /\ Under[1].frame # EF
        <4> HIDE DEF f, n, m, P
        <4> QED
          BY <1>9, <1>10, <3>1, <3>2, <3>3, FirstFrame
      <3> QED
        BY <1>10, <2>1, <3>2, <3>4
    <2>3. Whole >= n - f.recs[m].size /\ Decode = torn
      BY <1>1, <1>17 DEF Decode
    <2>4. /\ torn \in Seq(Received) /\ Len(torn) = m
          /\ \A k \in 1..m : k # m => torn[k] = f.recs[k]
          /\ torn[m] = [f.recs[m] EXCEPT !.ok = FALSE]
      BY <1>5, <1>6, TornRecords
    <2> HIDE DEF torn
    <2>5. m \in 1..m /\ f.recs[m].size \in Nat
      <3>1. m \in 1..m
        BY <1>5
      <3>2. f.recs[m] \in Received
        BY <1>6, <3>1
      <3> QED
        BY <3>1, <3>2 DEF Received
    <2>6. f.recs[m].size > 0
      BY <1>5, <1>15, <1>17, <2>3, <2>5
    <2>7. Carries(f, Len(got), sent)
      <3>1. PICK pos : Placed(Under, pos, Len(got), sent)
        BY <1>3, <1>4 DEF Stream
      <3>2. Under[1].frame = f
        BY <1>10
      <3> HIDE DEF f, n, m, P
      <3> QED
        BY <1>10, <2>2, <3>1, <3>2 DEF Placed
    <2>8. Stream(T, Len(got) + Len(pend'), sent) /\ ErrorRest(T) /\ apc \in {"closing", "closed"}
      BY <1>13, <2>2
    <2>9. pend' = torn /\ Len(pend') = m /\ pend' \in Seq(Received)
      BY <1>1, <2>3, <2>4
    <2> HIDE DEF f, n, P
    <2>10. ASSUME NEW k \in 1..m
           PROVE  /\ Len(got) + k <= Len(sent)
                  /\ \/ pend'[k] = sent[Len(got) + k]
                     \/ /\ k = m /\ sent[Len(got) + k].size > 0
                        /\ pend'[k] = [sent[Len(got) + k] EXCEPT !.ok = FALSE]
      <3>1. Len(got) + m <= Len(sent) /\ f.recs[k] = sent[Len(got) + k]
        BY <2>7 DEF Carries
      <3>2. Len(got) + k <= Len(sent)
        BY <1>2, <1>5, <3>1
      <3> HIDE DEF m
      <3>3. CASE k # m
        BY <2>4, <2>9, <3>1, <3>2, <3>3
      <3>4. CASE k = m
        BY <2>4, <2>6, <2>9, <3>1, <3>2, <3>4
      <3> QED
        BY <3>3, <3>4
    <2>11. \A k \in 1..Len(pend') :
                \/ Len(got) + k <= Len(sent) /\ pend'[k] = sent[Len(got) + k]
                \/ /\ k = Len(pend')
                   /\ \/ pend'[k] = Error
                      \/ /\ Len(got) + k <= Len(sent) /\ sent[Len(got) + k].size > 0
                         /\ pend'[k] = [sent[Len(got) + k] EXCEPT !.ok = FALSE]
      BY <2>9, <2>10
    <2>12. apc \notin {"run", "complete"}
      BY <2>8
    <2> HIDE DEF m
    <2>13. pend' \in Seq(Received)
      BY <2>9
    <2> QED
      BY <1>1, <1>11, <2>8, <2>11, <2>12, <2>13, ReadKeeps DEF T
  <1> QED
    BY <1>16, <1>17

(* receive() hands over the first of the expanded records: the next one    *)
(* produced, or the last that arrives.                                     *)
LEMMA FirstPending ==
    ASSUME FramingInv, pend # <<>>
    PROVE  /\ AllClean(got) /\ Head(pend) = pend[1]
           /\ \/ /\ Len(got) + 1 <= Len(sent) /\ pend[1] = sent[Len(got) + 1] /\ Clean(pend[1])
              \/ /\ Len(pend) = 1 /\ ~Clean(pend[1])
                 /\ \/ pend[1] = Error
                    \/ /\ Len(got) + 1 <= Len(sent) /\ sent[Len(got) + 1].size > 0
                       /\ pend[1] = [sent[Len(got) + 1] EXCEPT !.ok = FALSE]
  <1>1. /\ sent \in Seq(Produced) /\ pend \in Seq(Received) /\ got \in Seq(Received)
        /\ Len(got) \in Nat /\ Len(sent) \in Nat
    BY DEF FramingInv, FramingTypes
  <1>2. 1 \in 1..Len(pend) /\ Head(pend) = pend[1]
    BY <1>1
  <1>3. AllClean(got)
    BY DEF FramingInv, ArrivedInv
  <1>4. \/ Len(got) + 1 <= Len(sent) /\ pend[1] = sent[Len(got) + 1]
        \/ /\ 1 = Len(pend)
           /\ \/ pend[1] = Error
              \/ /\ Len(got) + 1 <= Len(sent) /\ sent[Len(got) + 1].size > 0
                 /\ pend[1] = [sent[Len(got) + 1] EXCEPT !.ok = FALSE]
    BY <1>2 DEF FramingInv, ArrivedInv
  <1>5. Len(got) + 1 <= Len(sent) => sent[Len(got) + 1] \in Produced
    <2>1. Len(got) + 1 <= Len(sent) => Len(got) + 1 \in 1..Len(sent)
      BY <1>1
    <2> QED
      BY <1>1, <2>1
  <1>6. \A r \in Produced : Clean(r) /\ ~Clean([r EXCEPT !.ok = FALSE])
    <2>1. ASSUME NEW r \in Produced PROVE ~Clean([r EXCEPT !.ok = FALSE])
      <3>1. [r EXCEPT !.ok = FALSE].ok = FALSE
        BY DEF Produced
      <3> QED
        BY <3>1 DEF Clean
    <2> QED
      BY <2>1, ProducedType
  <1>7. ~Clean(Error)
    BY ErrorFrame DEF Clean
  <1> QED
    BY <1>2, <1>3, <1>4, <1>5, <1>6, <1>7

(* ... which keeps the invariant.                                          *)
LEMMA PopPendingKeeps == ASSUME FramingInv, PopPending PROVE FramingInv'
  <1>1. /\ rpc = "recv" /\ pend # <<>> /\ got' = Append(got, Head(pend)) /\ pend' = Tail(pend)
        /\ apc' = apc /\ sent' = sent /\ buf' = buf /\ out' = out /\ wire' = wire
        /\ rpc' = rpc /\ rx' = rx
    BY DEF PopPending, agentVars
  <1>2. /\ sent \in Seq(Produced) /\ pend \in Seq(Received) /\ got \in Seq(Received)
        /\ Len(got) \in Nat /\ Len(pend) \in Nat /\ Len(pend) > 0
    BY <1>1 DEF FramingInv, FramingTypes
  <1>3. /\ got' \in Seq(Received) /\ pend' \in Seq(Received)
        /\ Len(got') = Len(got) + 1 /\ Len(pend') = Len(pend) - 1
        /\ \A k \in 1..Len(got) : got'[k] = got[k]
        /\ got'[Len(got) + 1] = pend[1]
        /\ \A k \in 1..Len(pend') : pend'[k] = pend[k + 1]
    <2>1. Head(pend) = pend[1] /\ Head(pend) \in Received
      BY <1>2
    <2>2. got' \in Seq(Received) /\ pend' \in Seq(Received)
      BY <1>1, <1>2, <2>1
    <2>3. /\ Len(got') = Len(got) + 1 /\ got'[Len(got) + 1] = pend[1]
          /\ \A k \in 1..Len(got) : got'[k] = got[k]
      BY <1>1, <1>2, <2>1
    <2>4. Len(pend') = Len(pend) - 1 /\ \A k \in 1..Len(pend') : pend'[k] = pend[k + 1]
      BY <1>1, <1>2
    <2> QED
      BY <2>2, <2>3, <2>4
  <1>4. /\ AllClean(got)
        /\ \/ /\ Len(got) + 1 <= Len(sent) /\ pend[1] = sent[Len(got) + 1] /\ Clean(pend[1])
           \/ Len(pend) = 1 /\ ~Clean(pend[1])
    BY <1>1, FirstPending
  <1>5. FramingTypes'
    BY <1>1, <1>3 DEF FramingInv, FramingTypes
  <1>6. Under' = Under /\ Before' = Before
    <2>1. Under' = Under
      BY <1>1 DEF Under
    <2>2. Before' = Before
      BY <1>2, <1>3 DEF Before
    <2> QED
      BY <2>1, <2>2
  <1>7. StreamInv'
    BY <1>1, <1>6 DEF FramingInv, StreamInv
  <1>8. BatchInv'
    BY <1>1 DEF FramingInv, BatchInv
  <1>9. ReadInv'
    BY <1>1 DEF FramingInv, ReadInv
  <1>10. ArrivedInv'
    <2>1. ASSUME NEW k \in 1..Len(got'), Clean(got'[k])
          PROVE  k <= Len(sent') /\ got'[k] = sent'[k]
      <3>1. CASE k = Len(got) + 1
        BY <1>1, <1>3, <1>4, <2>1, <3>1
      <3>2. CASE k # Len(got) + 1
        <4>1. k \in 1..Len(got)
          BY <1>2, <1>3, <3>2
        <4>2. Clean(got[k]) /\ got'[k] = got[k]
          BY <1>3, <2>1, <4>1
        <4>3. k <= Len(sent) /\ got[k] = sent[k]
          BY <4>1, <4>2 DEF FramingInv, ArrivedInv
        <4> QED
          BY <1>1, <4>2, <4>3
      <3> QED
        BY <3>1, <3>2
    <2>2. ASSUME NEW k \in 1..Len(pend')
          PROVE  \/ Len(got') + k <= Len(sent') /\ pend'[k] = sent'[Len(got') + k]
                 \/ /\ k = Len(pend')
                    /\ \/ pend'[k] = Error
                       \/ /\ Len(got') + k <= Len(sent') /\ sent'[Len(got') + k].size > 0
                          /\ pend'[k] = [sent'[Len(got') + k] EXCEPT !.ok = FALSE]
      <3> DEFINE j == k + 1
      <3>1. /\ j \in 1..Len(pend) /\ (j = Len(pend) => k = Len(pend'))
            /\ Len(got') + k = Len(got) + j
        BY <1>2, <1>3
      <3>2. pend'[k] = pend[j]
        BY <1>3
      <3> HIDE DEF j
      <3>3. \/ Len(got) + j <= Len(sent) /\ pend[j] = sent[Len(got) + j]
            \/ /\ j = Len(pend)
               /\ \/ pend[j] = Error
                  \/ /\ Len(got) + j <= Len(sent) /\ sent[Len(got) + j].size > 0
                     /\ pend[j] = [sent[Len(got) + j] EXCEPT !.ok = FALSE]
        BY <3>1 DEF FramingInv, ArrivedInv
      <3> QED
        BY <1>1, <3>1, <3>2, <3>3
    <2>3. ~AllClean(got') => ~Clean(pend[1])
      <3> SUFFICES ASSUME Clean(pend[1]), NEW k \in 1..Len(got') PROVE Clean(got'[k])
        BY DEF AllClean
      <3>1. CASE k = Len(got) + 1
        BY <1>3, <3>1
      <3>2. CASE k # Len(got) + 1
        <4>1. k \in 1..Len(got)
          BY <1>2, <1>3, <3>2
        <4> QED
          BY <1>3, <1>4, <4>1 DEF AllClean
      <3> QED
        BY <3>1, <3>2
    <2>4. ~AllClean(got') => pend' = <<>>
      <3> SUFFICES ASSUME ~AllClean(got') PROVE pend' = <<>>
        OBVIOUS
      <3>1. Len(pend') = 0
        BY <1>3, <1>4, <2>3
      <3> QED
        BY <1>3, <3>1
    <2>5. AllClean(pend) => AllClean(got') /\ AllClean(pend')
      <3> SUFFICES ASSUME AllClean(pend) PROVE AllClean(got') /\ AllClean(pend')
        OBVIOUS
      <3>1. Clean(pend[1])
        BY <1>2 DEF AllClean
      <3>2. ASSUME NEW k \in 1..Len(pend') PROVE Clean(pend'[k])
        <4>1. k + 1 \in 1..Len(pend)
          BY <1>2, <1>3
        <4> QED
          BY <1>3, <4>1 DEF AllClean
      <3> QED
        BY <2>3, <3>1, <3>2 DEF AllClean
    <2>6. ~(AllClean(got') /\ AllClean(pend')) =>
              apc' \in {"closing", "closed"} /\ ErrorRest(Under')
      BY <1>1, <1>6, <2>5 DEF FramingInv, ArrivedInv
    <2> QED
      BY <2>1, <2>2, <2>4, <2>6 DEF ArrivedInv
  <1>11. EndInv'
    BY <1>1 DEF EndInv
  <1> QED
    BY <1>5, <1>7, <1>8, <1>9, <1>10, <1>11 DEF FramingInv

(* A Collector that stops reading keeps the invariant, if it is right      *)
(* about the end of the stream.                                            *)
LEMMA StopKeeps ==
    ASSUME FramingInv, UNCHANGED <<agentVars, wire, rx, pend, got>>,
           rpc' \in {"eof", "timeout", "bad", "gone"}, EndInv'
    PROVE  FramingInv'
  <1>1. /\ apc' = apc /\ sent' = sent /\ buf' = buf /\ out' = out /\ wire' = wire
        /\ rx' = rx /\ pend' = pend /\ got' = got
    BY DEF agentVars
  <1>2. FramingTypes'
    BY <1>1 DEF FramingInv, FramingTypes
  <1>3. Under' = Under /\ Before' = Before
    BY <1>1 DEF Under, Before
  <1>4. StreamInv'
    BY <1>1, <1>3 DEF FramingInv, StreamInv
  <1>5. BatchInv'
    BY <1>1 DEF FramingInv, BatchInv
  <1>6. ReadInv'
    BY <1>1 DEF FramingInv, ReadInv
  <1>7. ArrivedInv'
    <2>1. AllClean(got)' = AllClean(got) /\ AllClean(pend)' = AllClean(pend)
      BY <1>1 DEF AllClean
    <2> QED
      BY <1>1, <1>3, <2>1 DEF FramingInv, ArrivedInv
  <1> QED
    BY <1>2, <1>4, <1>5, <1>6, <1>7 DEF FramingInv

(* The end of a complete stream is between two frames: everything sent has *)
(* been handed over.                                                       *)
LEMMA EndOfStream ==
    ASSUME FramingInv, RecvEnds, apc = "complete"
    PROVE  got = sent
  <1>1. pend = <<>> /\ Missing > 0 /\ wire = <<>> /\ out = <<>> /\ buf = <<>>
    BY DEF RecvEnds, FramingInv, BatchInv
  <1>2. /\ rx \in Seq(Unit) /\ got \in Seq(Received) /\ sent \in Seq(Produced)
        /\ Len(rx) \in Nat /\ Len(got) \in Nat /\ Len(sent) \in Nat
    BY DEF FramingInv, FramingTypes
  <1>3. Under = rx /\ Before = Len(got) /\ Len(sent) - Len(buf) = Len(sent)
    BY <1>1, <1>2 DEF Under, Before
  <1>4. NoError(rx) /\ WholeStream(rx, Len(got), Len(sent), sent)
    BY <1>3 DEF FramingInv, StreamInv
  <1>5. PICK pos : Placed(rx, pos, Len(got), sent) /\ EndsAt(rx, pos, Len(got), Len(sent))
    BY <1>4 DEF WholeStream
  <1>6. Len(rx) = 0
    <2> SUFFICES ASSUME Len(rx) > 0 PROVE FALSE
      BY <1>2
    <2> DEFINE n == Len(rx)
               f == rx[1].frame
    <2>1. 1 \in 1..n /\ n \in 1..n /\ n # 0
      BY <1>2
    <2>2. FrameSize(f) \in Nat /\ FrameSize(f) >= 2
      BY <1>2, <1>5, <2>1, UnitTypes
    <2>3. n <= FrameSize(f)
      BY DEF FramingInv, ReadInv
    <2>4. f # EF /\ rx[n].frame # EF
      BY <1>4, <2>1 DEF NoError
    <2>5. rx[1].at = 1
      BY <1>5, <2>4 DEF Placed
    <2>6. rx[n] = [frame |-> f, at |-> n]
      BY <1>2, <1>5, <2>1, <2>3, <2>4, <2>5, FirstFrame
    <2>7. rx[n].at = FrameSize(rx[n].frame)
      BY <1>5, <2>1 DEF EndsAt
    <2>8. n = FrameSize(f)
      BY <2>6, <2>7
    <2>9. Missing = FrameSize(f) - n
      BY <1>2, <2>2, <2>8 DEF Missing
    <2> QED
      BY <1>1, <2>2, <2>8, <2>9
  <1>7. Len(got) = Len(sent)
    BY <1>5, <1>6 DEF EndsAt
  <1>8. AllClean(got)
    BY DEF FramingInv, ArrivedInv
  <1>9. \A k \in 1..Len(got) : got[k] = sent[k]
    BY <1>8 DEF FramingInv, ArrivedInv, AllClean
  <1> QED
    BY <1>2, <1>7, <1>9

(* recv ends with EOF or a timeout.                                        *)
LEMMA RecvEndsKeeps == ASSUME FramingInv, RecvEnds PROVE FramingInv'
  <1>1. /\ UNCHANGED <<agentVars, wire, rx, pend, got>> /\ apc' = apc /\ got' = got
        /\ sent' = sent
        /\ rpc' = IF apc \in {"closed", "complete"} THEN "eof" ELSE "timeout"
    BY DEF RecvEnds, agentVars
  <1>2. EndInv'
    <2>1. apc = "complete" => got = sent
      BY EndOfStream
    <2> QED
      BY <1>1, <2>1 DEF EndInv
  <1>3. rpc' \in {"eof", "timeout", "bad", "gone"}
    BY <1>1
  <1> QED
    BY <1>1, <1>2, <1>3, StopKeeps

-----------------------------------------------------------------------------
(* The theorems.                                                           *)

(* The records the agent produces.                                         *)
LEMMA RecProduced ==
    ASSUME NEW s \in Sizes
    PROVE  /\ Rec("bulk", s) \in Produced /\ Rec("bulk", s).kind = "bulk"
           /\ Rec("control", s) \in Produced
  BY DEF Rec, Produced

(* The invariant holds at the start.                                       *)
LEMMA FramingInit == Init => FramingInv
  <1> SUFFICES ASSUME Init PROVE FramingInv
    OBVIOUS
  <1>1. /\ apc = "run" /\ sent = <<>> /\ buf = <<>> /\ out = <<>> /\ wire = <<>>
        /\ rpc = "recv" /\ rx = <<>> /\ pend = <<>> /\ got = <<>>
    BY DEF Init
  <1>2. FramingTypes
    BY <1>1 DEF FramingTypes
  <1>3. Under = <<>> /\ Len(Under) = 0 /\ Before = 0 /\ Len(sent) - Len(buf) = 0
    BY <1>1 DEF Under, Before
  <1>4. StreamInv
    <2> DEFINE p == [i \in 1..0 |-> 0]
    <2>1. p \in [1..Len(Under) -> Nat] /\ \A i \in 1..Len(Under) : FALSE
      BY <1>3
    <2> HIDE DEF p
    <2>2. Placed(Under, p, Before, sent) /\ EndsAt(Under, p, Before, Len(sent) - Len(buf))
      BY <1>3, <2>1 DEF Placed, EndsAt
    <2> QED
      BY <2>1, <2>2 DEF StreamInv, Stream, WholeStream, NoError
  <1>5. BatchInv /\ ReadInv /\ EndInv
    BY <1>1 DEF BatchInv, ReadInv, EndInv
  <1>6. ArrivedInv
    BY <1>1 DEF ArrivedInv, AllClean
  <1> QED
    BY <1>2, <1>4, <1>5, <1>6 DEF FramingInv

(* A failure is forgotten by one action, and for good.                     *)
LEMMA LossIsKept ==
    ASSUME [Next]_vars
    PROVE  /\ unstable' = unstable
           /\ SendForgotten \/ UNCHANGED <<lost, heard>>
  <1> USE DEF visitVars, agentVars
  <1>1. ASSUME NEW r, Produces(r) PROVE UNCHANGED visitVars
    BY <1>1 DEF Produces
  <1>2. CASE \E s \in Sizes : \/ AppendRecord(Rec("bulk", s)) \/ AppendNoMemory(Rec("bulk", s))
                              \/ SendControl(Rec("control", s))
    BY <1>1, <1>2 DEF AppendRecord, AppendNoMemory, SendControl
  <1>3. CASE SendSome \/ SendFails \/ ReceiveFails \/ SendError \/ Close
    BY <1>3 DEF SendSome, SendFails, ReceiveFails, SendError, Close
  <1>4. CASE SendForgotten
    BY <1>4 DEF SendForgotten
  <1>5. CASE CollectorStep \/ CollectorStops \/ UNCHANGED vars
    BY <1>5 DEF CollectorStep, CollectorStops, RecvInto, ReceiveFrame, ReceiveBad, PopPending,
                RecvEnds, vars
  <1> QED
    BY <1>2, <1>3, <1>4, <1>5 DEF Next, AgentStep

(* Every other step keeps the invariant.                                   *)
LEMMA FramingStep == FramingInv /\ [Next]_vars => FramingInv' \/ SendForgotten
  <1> SUFFICES ASSUME FramingInv, [Next]_vars, ~SendForgotten PROVE FramingInv'
    OBVIOUS
  <1>1. ASSUME NEW s \in Sizes, AppendRecord(Rec("bulk", s)) PROVE FramingInv'
    BY <1>1, RecProduced, AppendRecordKeeps
  <1>2. ASSUME NEW s \in Sizes, AppendNoMemory(Rec("bulk", s)) PROVE FramingInv'
    BY <1>2, RecProduced, AppendNoMemoryKeeps
  <1>3. ASSUME NEW s \in Sizes, SendControl(Rec("control", s)) PROVE FramingInv'
    BY <1>3, RecProduced, SendControlKeeps
  <1>4. CASE SendSome
    BY <1>4, SendSomeKeeps
  <1>5. CASE SendFails
    BY <1>5, SendFailsKeeps
  <1>6. CASE SendError
    BY <1>6, SendErrorKeeps
  <1>7. CASE Close
    BY <1>7, CloseKeeps
  <1>8. CASE RecvInto
    BY <1>8, RecvIntoKeeps
  <1>9. CASE ReceiveFrame
    BY <1>9, ReceiveFrameKeeps
  <1>10. CASE ReceiveBad
    <2>1. UNCHANGED <<agentVars, wire, rx, pend, got>> /\ rpc' = "bad"
      BY <1>10 DEF ReceiveBad
    <2>2. EndInv'
      BY <2>1 DEF EndInv
    <2> QED
      BY <2>1, <2>2, StopKeeps
  <1>11. CASE PopPending
    BY <1>11, PopPendingKeeps
  <1>12. CASE RecvEnds
    BY <1>12, RecvEndsKeeps
  <1>13. CASE CollectorStops
    <2>1. UNCHANGED <<agentVars, wire, rx, pend, got>> /\ rpc' = "gone"
      BY <1>13 DEF CollectorStops
    <2>2. EndInv'
      BY <2>1 DEF EndInv
    <2> QED
      BY <2>1, <2>2, StopKeeps
  <1>14. CASE UNCHANGED vars
    <2>1. /\ apc' = apc /\ sent' = sent /\ buf' = buf /\ out' = out /\ wire' = wire
          /\ rpc' = rpc /\ rx' = rx /\ pend' = pend /\ got' = got
      BY <1>14 DEF vars, agentVars, recvVars
    <2>2. FramingTypes' /\ ReadInv'
      BY <2>1 DEF FramingInv, FramingTypes, ReadInv
    <2>3. Under' = Under
      BY <2>1 DEF Under
    <2> QED
      BY <2>1, <2>2, <2>3, MovesKeep
  <1>15. CASE ReceiveFails
    BY <1>15, ReceiveFailsKeeps
  <1> QED
    BY <1>1, <1>2, <1>3, <1>4, <1>5, <1>6, <1>7, <1>8, <1>9, <1>10, <1>11, <1>12, <1>13, <1>14,
       <1>15
    DEF Next, AgentStep, CollectorStep

(* Every step keeps it or forgets a failure.                               *)
LEMMA LossStep == LossInv /\ [Next]_vars => LossInv'
  <1> SUFFICES ASSUME LossInv, [Next]_vars PROVE LossInv'
    OBVIOUS
  <1>1. CASE SendForgotten
    <2>1. lost' = TRUE /\ unstable /\ unstable' = unstable
      BY <1>1 DEF SendForgotten, Visiting
    <2> QED
      BY <2>1 DEF LossInv
  <1>2. CASE ~SendForgotten
    <2>1. lost' = lost /\ unstable' = unstable
      BY <1>2, LossIsKept
    <2>2. CASE lost
      BY <2>1, <2>2 DEF LossInv
    <2>3. CASE ~lost
      <3>1. FramingInv
        BY <2>3 DEF LossInv
      <3>2. FramingInv'
        BY <1>2, <3>1, FramingStep
      <3> QED
        BY <2>1, <2>3, <3>2 DEF LossInv
    <2> QED
      BY <2>2, <2>3
  <1> QED
    BY <1>1, <1>2

(* The framing is kept: what is under way is a stream of the records       *)
(* produced, torn at most before the ERROR frame, until a failed flush of  *)
(* roots is forgotten.                                                     *)
THEOREM FramingIsKept == Spec => []LossInv
  <1>1. Init => LossInv
    BY FramingInit DEF Init, LossInv
  <1> QED
    BY <1>1, LossStep, PTL DEF Spec

(* A Collector that reads a complete session to the end of the stream has  *)
(* every record, however the batches were packed (flush_record_batch       *)
(* before every send_frame), unless the agent, on CPython 3.12 or later,   *)
(* forgot a failed flush of roots.                                         *)
THEOREM NothingIsLeftBehind == Spec => []NothingLeftBehind
  <1>1. LossInv => NothingLeftBehind
    BY DEF LossInv, FramingInv, EndInv, NothingLeftBehind
  <1> QED
    BY <1>1, FramingIsKept, PTL

(* Whether the abstract channel is up.                                     *)
LEMMA UpIs == got \in Seq(Received) => (AbstractUp <=> ~lost /\ rpc = "recv" /\ AllClean(got))
  BY DEF AbstractUp, AllClean, Clean

(* While nothing is forgotten, every step of the framed connection is one  *)
(* of the channel of records, or none.                                     *)
LEMMA SoundStep ==
    FramingInv /\ FramingInv' /\ ~lost /\ ~lost' /\ [Next]_vars => [Chan!Next]_(Chan!vars)
  <1> SUFFICES ASSUME FramingInv, FramingInv', ~lost, ~lost', [Next]_vars
               PROVE  [Chan!Next]_(Chan!vars)
    OBVIOUS
  <1>0. got \in Seq(Received) /\ got' \in Seq(Received) /\ sent \in Seq(Produced)
    BY DEF FramingInv, FramingTypes
  <1>g. AbstractGot = got /\ AbstractGot' = got'
    BY DEF AbstractGot
  <1>1. ASSUME NEW r \in Produced, Produces(r) PROVE [Chan!Next]_(Chan!vars)
    <2>1. sent' = Append(sent, r) /\ got' = got /\ rpc' = rpc
      BY <1>1 DEF Produces, recvVars
    <2>2. AbstractUp' = AbstractUp
      BY <2>1 DEF AbstractUp
    <2>3. Chan!Put
      BY <1>g, <2>1, <2>2 DEF Chan!Put, Produced
    <2> QED
      BY <2>3 DEF Chan!Next
  <1>2. ASSUME UNCHANGED <<sent, rpc, got>> PROVE [Chan!Next]_(Chan!vars)
    <2>1. AbstractUp' = AbstractUp
      BY <1>2 DEF AbstractUp
    <2> QED
      BY <1>g, <1>2, <2>1 DEF Chan!vars
  <1>3. ASSUME UNCHANGED <<sent, got>>, rpc = "recv", rpc' # "recv"
        PROVE  [Chan!Next]_(Chan!vars)
    <2>1. AbstractUp' = FALSE
      BY <1>3 DEF AbstractUp
    <2>2. CASE AbstractUp = TRUE
      <3>1. Chan!Fail
        BY <1>g, <1>3, <2>1, <2>2 DEF Chan!Fail
      <3> QED
        BY <3>1 DEF Chan!Next
    <2>3. CASE AbstractUp = FALSE
      BY <1>g, <1>3, <2>1, <2>3 DEF Chan!vars
    <2>4. AbstractUp \in BOOLEAN
      BY DEF AbstractUp
    <2> QED
      BY <2>2, <2>3, <2>4
  <1>4. CASE PopPending
    <2>1. /\ rpc = "recv" /\ pend # <<>> /\ got' = Append(got, Head(pend)) /\ sent' = sent
          /\ rpc' = rpc
      BY <1>4 DEF PopPending, agentVars
    <2>2. /\ AllClean(got) /\ Head(pend) = pend[1]
          /\ \/ /\ Len(got) + 1 <= Len(sent) /\ pend[1] = sent[Len(got) + 1] /\ Clean(pend[1])
             \/ /\ Len(pend) = 1 /\ ~Clean(pend[1])
                /\ \/ pend[1] = Error
                   \/ /\ Len(got) + 1 <= Len(sent) /\ sent[Len(got) + 1].size > 0
                      /\ pend[1] = [sent[Len(got) + 1] EXCEPT !.ok = FALSE]
      BY <2>1, FirstPending
    <2>3. /\ Len(got) \in Nat /\ Len(sent) \in Nat /\ Len(got') = Len(got) + 1
          /\ got'[Len(got) + 1] = pend[1] /\ \A k \in 1..Len(got) : got'[k] = got[k]
      BY <1>0, <2>1, <2>2
    <2>4. AllClean(got') <=> Clean(pend[1])
      <3>1. Len(got) + 1 \in 1..Len(got')
        BY <2>3
      <3>2. \A k \in 1..Len(got') : k \in 1..Len(got) \/ k = Len(got) + 1
        BY <2>3
      <3> QED
        BY <2>2, <2>3, <3>1, <3>2 DEF AllClean
    <2>5. AbstractUp
      BY <1>0, <2>1, <2>2, UpIs
    <2>6. AbstractUp' <=> Clean(pend[1])
      <3>1. AbstractUp' <=> AllClean(got')
        BY <1>0, <2>1 DEF AbstractUp, AllClean, Clean
      <3> QED
        BY <2>4, <3>1
    <2>7. CASE Len(got) + 1 <= Len(sent) /\ pend[1] = sent[Len(got) + 1] /\ Clean(pend[1])
      <3>1. AbstractUp = TRUE /\ AbstractUp' = TRUE
        BY <2>5, <2>6, <2>7 DEF AbstractUp
      <3>2. Len(got) < Len(sent)
        BY <2>3, <2>7
      <3>3. got' = Append(got, sent[Len(got) + 1])
        BY <2>1, <2>2, <2>7
      <3>4. Chan!Get
        BY <1>g, <2>1, <3>1, <3>2, <3>3 DEF Chan!Get
      <3> QED
        BY <3>4 DEF Chan!Next
    <2>8. CASE /\ ~Clean(pend[1])
               /\ \/ pend[1] = Error
                  \/ /\ Len(got) + 1 <= Len(sent) /\ sent[Len(got) + 1].size > 0
                     /\ pend[1] = [sent[Len(got) + 1] EXCEPT !.ok = FALSE]
      <3>1. AbstractUp = TRUE /\ AbstractUp' = FALSE
        BY <2>5, <2>6, <2>8 DEF AbstractUp
      <3>2. got' = Append(got, pend[1])
        BY <2>1, <2>2
      <3>3. Len(got) + 1 <= Len(sent) => Len(got) < Len(sent)
        BY <2>3
      <3>4. Chan!Fail
        BY <1>g, <2>1, <2>8, <3>1, <3>2, <3>3 DEF Chan!Fail, Chan!Garble
      <3> QED
        BY <3>4 DEF Chan!Next
    <2> QED
      BY <2>2, <2>7, <2>8
  <1>5. ASSUME NEW s \in Sizes,
               \/ AppendRecord(Rec("bulk", s)) \/ AppendNoMemory(Rec("bulk", s))
               \/ SendControl(Rec("control", s))
        PROVE  [Chan!Next]_(Chan!vars)
    <2>1. Produces(Rec("bulk", s)) \/ Produces(Rec("control", s))
      BY <1>5 DEF AppendRecord, AppendNoMemory, SendControl
    <2> QED
      BY <1>1, <2>1, RecProduced
  <1>6. CASE \/ SendSome \/ SendFails \/ ReceiveFails \/ SendError \/ Close \/ RecvInto
             \/ ReceiveFrame \/ UNCHANGED vars
    <2>1. UNCHANGED <<sent, rpc, got>>
      BY <1>6 DEF SendSome, SendFails, ReceiveFails, SendError, Close, RecvInto, ReceiveFrame,
                  vars, agentVars, recvVars
    <2> QED
      BY <1>2, <2>1
  <1>7. CASE ReceiveBad \/ RecvEnds \/ CollectorStops
    <2>1. UNCHANGED <<sent, got>> /\ rpc = "recv" /\ rpc' # "recv"
      BY <1>7 DEF ReceiveBad, RecvEnds, CollectorStops, agentVars
    <2> QED
      BY <1>3, <2>1
  <1>8. ~SendForgotten
    BY DEF SendForgotten
  <1> QED
    BY <1>4, <1>5, <1>6, <1>7, <1>8 DEF Next, AgentStep, CollectorStep

(* The step that forgets a failure takes the abstract channel down.        *)
LEMMA ForgottenStep == ~lost /\ SendForgotten => [Chan!Next]_(Chan!vars)
  <1> SUFFICES ASSUME ~lost, SendForgotten PROVE [Chan!Next]_(Chan!vars)
    OBVIOUS
  <1>1. lost' = TRUE /\ heard' = got /\ sent' = sent
    BY DEF SendForgotten
  <1>2. AbstractGot' = AbstractGot /\ AbstractUp' = FALSE
    BY <1>1 DEF AbstractGot, AbstractUp
  <1>3. CASE AbstractUp = TRUE
    <2>1. Chan!Fail
      BY <1>1, <1>2, <1>3 DEF Chan!Fail
    <2> QED
      BY <2>1 DEF Chan!Next
  <1>4. CASE AbstractUp = FALSE
    BY <1>1, <1>2, <1>4 DEF Chan!vars
  <1>5. AbstractUp \in BOOLEAN
    BY DEF AbstractUp
  <1> QED
    BY <1>3, <1>4, <1>5

(* Afterwards records are only produced.                                   *)
LEMMA LostStep == lost /\ [Next]_vars => [Chan!Next]_(Chan!vars)
  <1> SUFFICES ASSUME lost, [Next]_vars PROVE [Chan!Next]_(Chan!vars)
    OBVIOUS
  <1>1. lost' /\ heard' = heard
    BY LossIsKept DEF SendForgotten
  <1>2. AbstractGot' = AbstractGot /\ AbstractUp = FALSE /\ AbstractUp' = FALSE
    BY <1>1 DEF AbstractGot, AbstractUp
  <1>3. CASE sent' = sent
    BY <1>2, <1>3 DEF Chan!vars
  <1>4. ASSUME NEW r \in Produced, Produces(r) PROVE [Chan!Next]_(Chan!vars)
    <2>1. Chan!Put
      BY <1>2, <1>4 DEF Produces, Chan!Put, Produced
    <2> QED
      BY <2>1 DEF Chan!Next
  <1>5. ASSUME NEW s \in Sizes,
               \/ AppendRecord(Rec("bulk", s)) \/ AppendNoMemory(Rec("bulk", s))
               \/ SendControl(Rec("control", s))
        PROVE  [Chan!Next]_(Chan!vars)
    <2>1. Produces(Rec("bulk", s)) \/ Produces(Rec("control", s))
      BY <1>5 DEF AppendRecord, AppendNoMemory, SendControl
    <2> QED
      BY <1>4, <2>1, RecProduced
  <1>6. CASE \/ SendSome \/ SendFails \/ SendForgotten \/ ReceiveFails \/ SendError \/ Close
             \/ CollectorStep \/ CollectorStops \/ UNCHANGED vars
    <2>1. sent' = sent
      BY <1>6 DEF SendSome, SendFails, SendForgotten, ReceiveFails, SendError, Close,
                  CollectorStep, CollectorStops, RecvInto, ReceiveFrame, ReceiveBad, PopPending,
                  RecvEnds, vars, agentVars
    <2> QED
      BY <1>3, <2>1
  <1> QED
    BY <1>5, <1>6 DEF Next, AgentStep

(* Every step of the framed connection is one of the channel of records,   *)
(* or none.                                                                *)
LEMMA ChannelStep == LossInv /\ LossInv' /\ [Next]_vars => [Chan!Next]_(Chan!vars)
  <1> SUFFICES ASSUME LossInv, LossInv', [Next]_vars PROVE [Chan!Next]_(Chan!vars)
    OBVIOUS
  <1>1. CASE lost
    BY <1>1, LostStep
  <1>2. CASE ~lost /\ SendForgotten
    BY <1>2, ForgottenStep
  <1>3. CASE ~lost /\ ~SendForgotten
    <2>1. ~lost'
      BY <1>3, LossIsKept
    <2>2. FramingInv /\ FramingInv'
      BY <1>3, <2>1 DEF LossInv
    <2> QED
      BY <1>3, <2>1, <2>2, SoundStep
  <1> QED
    BY <1>1, <1>2, <1>3

(* The framed connection implements the channel of records: packing,       *)
(* partial sends and reads, tearing and expanding lose, reorder, duplicate *)
(* and forge nothing (append_record_parts, send_all, _receive_exact,       *)
(* decode_bulk_batch).  For the channel a forgotten flush of roots is a    *)
(* failure like any other, after which it promises nothing (send_roots).   *)
THEOREM FramingIsChannel == Spec => IsChannel
  <1>1. Init => Chan!Init
    BY DEF Init, Chan!Init, AbstractUp, AbstractGot
  <1>2. Spec => []LossInv
    BY FramingIsKept
  <1> QED
    BY <1>1, <1>2, ChannelStep, PTL DEF Spec, IsChannel, Chan!Spec
=============================================================================
