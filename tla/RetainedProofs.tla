--------------------------- MODULE RetainedProofs ---------------------------
(***************************************************************************)
(* The retained-heap calculators are correct: for every finite graph, with *)
(* cycles, shared objects and missing ones, in every order in which the    *)
(* sets are walked, the numbers are those of the definition.               *)
(***************************************************************************)
EXTENDS Retained, FiniteSetTheorems, TLAPS

(* The sum of f over S, as the model writes it.                            *)
Sum(f, S) == MapThenSumSet(LAMBDA r : f[r], S)

(* Two Python threads that are equal as values have no locals: what        *)
(* retained.py needs to be right, see the run retained_twins.              *)
NoTwins ==
    \A h \in Inputs : h.language = "python" =>
        \A t, u \in DOMAIN h.threads :
            h.threads[t] = h.threads[u] /\ h.threads[t].locals # {} => t = u

-----------------------------------------------------------------------------
(* The invariant.                                                          *)

(* Every member of S is an object with one referrer at most and refers     *)
(* only to members, and no path leads from a member back to it.            *)
Strict(S) ==
    /\ S \subseteq Objects
    /\ \A r \in S : /\ heap.refs[r] \subseteq S
                    /\ \A p, q \in Inbound(r) : p = q
                    /\ \A k \in heap.refs[r] : r \notin WithObject(k)

SubtreeInv ==
    /\ Strict(subtreeRoots)
    /\ \A r \in subtreeRoots : objectRetained[r] = Bytes(WithObject(r))

(* Where each phase has got to, and what it leaves behind for the next.    *)
PlaceInv ==
    /\ heap \in Inputs
    /\ threadsDone > 0 => objectsLeft = {}
    /\ phase \in {"leaves", "subtrees"} => threadsDone = 0 /\ threadRetained = <<>>
    /\ phase = "delete" => IF ForObject THEN item \in Objects \ objectsLeft
                                        ELSE item = threadsDone
    /\ phase = "done" => objectsLeft = {} /\ threadsDone = Len(heap.threads)

(* What a deletion starts from, what it does not walk, and what keeps an   *)
(* address: its referrers and, for a local, the other threads that hold it.*)
Skipped == IF ForObject THEN subtreeRoots ELSE {}
Locals == heap.threads[item].locals
Start == IF ForObject THEN {item} ELSE Locals
Needs(y) == IF ForObject /\ y = item THEN {} ELSE Inbound(y)
Holders(y) ==
    IF ~ForObject /\ y \in Locals
    THEN {u \in DOMAIN heap.threads : Other(item, u) /\ y \in heap.threads[u].locals}
    ELSE {}
Goes == IF ForObject THEN WithObject(item) ELSE WithThread(item)
Walked == (deleted \cap Objects) \ Skipped
Covered == Walked \cup UNION {WithObject(z) : z \in deleted \cap Skipped}

(* The counts are those of the referrers that are not walked, and what is  *)
(* deleted has lost them all.                                              *)
CountInv ==
    /\ DOMAIN inboundView = Start \cup UNION {heap.refs[e] : e \in Walked}
    /\ ForObject \/ NoTwins => deleted \subseteq Goes
    /\ \A y \in DOMAIN inboundView :
        /\ inboundView[y] \in Nat
        /\ y \in deleted => Needs(y) \subseteq Walked /\ Holders(y) = {}
        /\ y \notin deleted =>
              inboundView[y] = Cardinality(Needs(y) \ Walked) + Cardinality(Holders(y))
    /\ ForObject /\ item \in subtreeRoots => Walked = {}
    /\ ForObject /\ item \notin deleted => deleted = {}
    /\ retained = Sum(Size, Covered)

(* The list has every address that is counted and not deleted; a pass that *)
(* has deleted nothing has gone past deleted addresses only.               *)
ListInv ==
    /\ happened \in BOOLEAN
    /\ \A y \in Addr :
        /\ entries[y] > 0 => y \in DOMAIN inboundView
        /\ y \in DOMAIN inboundView \ deleted => entries[y] > 0
        /\ pass[y] > 0 => y \in DOMAIN sortKey /\ sortKey[y] \in Nat
        /\ ~happened /\ pass[y] < entries[y] => y \in deleted
    /\ ~happened => sortKey = inboundView

DeleteInv == phase = "delete" => CountInv /\ ListInv

(* The results that are final.                                             *)
Finished == {o \in Objects \ objectsLeft : ~(phase = "delete" /\ ForObject /\ o = item)}
ThreadsFinished == IF phase = "delete" /\ ~ForObject THEN threadsDone - 1 ELSE threadsDone
NameOf(t) == heap.threads[t].name
ResultInv ==
    phase \in {"loops", "delete", "done"} =>
        /\ \A o \in Finished : objectRetained[o] = Bytes(WithObject(o))
        /\ DOMAIN threadRetained = {NameOf(t) : t \in 1..ThreadsFinished}
        /\ \A t \in 1..ThreadsFinished :
              NoTwins /\ (\A u \in t + 1..ThreadsFinished : NameOf(u) # NameOf(t)) =>
                  threadRetained[NameOf(t)] = Bytes(WithThread(t))

IInv == TypeOK /\ PlaceInv /\ SubtreeInv /\ DeleteInv /\ ResultInv

-----------------------------------------------------------------------------
(* Induction over numbers and finite sets, and sums.                       *)

(* A set of natural numbers that is not empty has a least element.         *)
LEMMA LeastNat == ASSUME NEW T \in SUBSET Nat, T # {} PROVE \E m \in T : \A k \in T : m <= k
  <1> DEFINE R == OpToRel(<, Nat)
  <1>1. IsWellFoundedOn(R, Nat)
    BY NatLessThanWellFounded
  <1>2. \A x, y \in Nat : <<x, y>> \in R <=> x < y
    BY DEF OpToRel
  <1> HIDE DEF R
  <1>3. PICK m \in T : \A y \in T : ~(<<y, m>> \in R)
    BY <1>1, WFMin
  <1>4. ASSUME NEW k \in T PROVE m <= k
    <2>1. ~(k < m) /\ k \in Nat /\ m \in Nat
      BY <1>2, <1>3
    <2> QED
      BY <2>1
  <1> QED
    BY <1>4

(* A set of numbers with 0 and every successor is the set of all of them.  *)
LEMMA NatInduct ==
    ASSUME NEW T \in SUBSET Nat, 0 \in T, \A n \in T : n + 1 \in T
    PROVE  T = Nat
  <1> SUFFICES ASSUME Nat \ T # {} PROVE FALSE
    OBVIOUS
  <1> DEFINE U == Nat \ T
  <1>1. PICK m \in U : \A k \in U : m <= k
    <2>1. U \in SUBSET Nat /\ U # {}
      OBVIOUS
    <2> HIDE DEF U
    <2> QED
      BY <2>1, LeastNat
  <1>2. m # 0 /\ m - 1 \in Nat /\ (m - 1) + 1 = m
    OBVIOUS
  <1>3. m - 1 \in T
    BY <1>1, <1>2
  <1> QED
    BY <1>2, <1>3

(* What holds of the empty set, and with a set of one that has an element  *)
(* more, holds of every finite set.                                        *)
LEMMA SetInduct ==
    ASSUME NEW U, IsFiniteSet(U), NEW P, {} \in P,
           \A T \in SUBSET U : \A x \in U \ T : T \in P => T \cup {x} \in P
    PROVE  \A T \in SUBSET U : T \in P
  <1> DEFINE Upto == {n \in Nat : \A T \in SUBSET U : Cardinality(T) <= n => T \in P}
  <1>1. 0 \in Upto
    <2>1. ASSUME NEW T \in SUBSET U, Cardinality(T) <= 0 PROVE T = {}
      BY <2>1, FS_Subset, FS_CardinalityType, FS_EmptySet
    <2> QED
      BY <2>1
  <1>2. ASSUME NEW n \in Upto PROVE n + 1 \in Upto
    <2>1. ASSUME NEW T \in SUBSET U, Cardinality(T) <= n + 1, T # {} PROVE T \in P
      <3>1. PICK x \in T : TRUE
        BY <2>1
      <3>2. IsFiniteSet(T) /\ Cardinality(T) \in Nat
        BY FS_Subset, FS_CardinalityType
      <3>3. Cardinality(T \ {x}) = Cardinality(T) - 1
        BY <3>2, FS_RemoveElement
      <3>4. T \ {x} \in P
        BY <2>1, <3>2, <3>3
      <3>5. (T \ {x}) \cup {x} \in P
        BY <3>4
      <3>6. (T \ {x}) \cup {x} = T
        OBVIOUS
      <3> QED
        BY <3>5, <3>6
    <2>2. n + 1 \in Nat
      OBVIOUS
    <2>3. \A T \in SUBSET U : Cardinality(T) <= n + 1 => T \in P
      BY <2>1
    <2> QED
      BY <2>2, <2>3
  <1>3. Upto = Nat
    <2> HIDE DEF Upto
    <2>1. Upto \in SUBSET Nat
      BY DEF Upto
    <2> QED
      BY <1>1, <1>2, <2>1, NatInduct
  <1>4. ASSUME NEW T \in SUBSET U PROVE T \in P
    <2>1. Cardinality(T) \in Upto
      BY <1>3, FS_Subset, FS_CardinalityType
    <2> QED
      BY <2>1
  <1> QED
    BY <1>4

(* How MapThenSumSet computes the sum: a recursive function on the subsets,*)
(* which takes out one element, picked by CHOOSE, after the other.         *)
Pick(s) == CHOOSE x \in s : TRUE
Step(f, g, s) == IF s = {} THEN 0 ELSE f[Pick(s)] + g[s \ {Pick(s)}]
Adder(f, S) == CHOOSE g : g = [s \in SUBSET S |-> Step(f, g, s)]

(* A sum is the value of that function for the whole set.                  *)
LEMMA SumAdder == ASSUME NEW f, NEW S PROVE Sum(f, S) = Adder(f, S)[S]
  BY DEF Sum, MapThenSumSet, MapThenFoldSet, Adder, Step, Pick

(* The element picked is one of the set.                                   *)
LEMMA PickIn == ASSUME NEW s, s # {} PROVE Pick(s) \in s
  BY DEF Pick

(* The recursive function exists: functions on the small subsets extend to *)
(* the larger ones.                                                        *)
LEMMA AdderExists ==
    ASSUME NEW f, NEW S, IsFiniteSet(S)
    PROVE  \A s \in SUBSET S : Adder(f, S)[s] = Step(f, Adder(f, S), s)
  <1> DEFINE Small(n) == {s \in SUBSET S : Cardinality(s) <= n}
             Upto == {n \in Nat : \E g : g = [s \in Small(n) |-> Step(f, g, s)]}
  <1>1. 0 \in Upto
    <2>1. \A s \in Small(0) : s = {}
      BY FS_Subset, FS_CardinalityType, FS_EmptySet
    <2> DEFINE g == [s \in Small(0) |-> 0]
    <2>2. g = [s \in Small(0) |-> Step(f, g, s)]
      BY <2>1 DEF Step
    <2> QED
      BY <2>2
  <1>2. ASSUME NEW n \in Upto PROVE n + 1 \in Upto
    <2>1. PICK g : g = [s \in Small(n) |-> Step(f, g, s)]
      OBVIOUS
    <2> DEFINE h == [s \in Small(n + 1) |-> Step(f, g, s)]
    <2>2. ASSUME NEW s \in Small(n + 1) PROVE Step(f, g, s) = Step(f, h, s)
      <3>1. CASE s = {}
        BY <3>1 DEF Step
      <3>2. CASE s # {}
        <4> DEFINE t == s \ {Pick(s)}
        <4>1. t \in Small(n) /\ t \in Small(n + 1)
          <5>1. IsFiniteSet(s) /\ Cardinality(s) \in Nat /\ n \in Nat
            BY FS_Subset, FS_CardinalityType
          <5>2. Cardinality(t) = Cardinality(s) - 1
            BY <3>2, <5>1, PickIn, FS_RemoveElement
          <5> QED
            BY <5>1, <5>2
        <4>2. h[t] = g[t]
          <5>1. h[t] = Step(f, g, t)
            BY <4>1
          <5>2. g[t] = Step(f, g, t)
            BY <2>1, <4>1
          <5> QED
            BY <5>1, <5>2
        <4> QED
          BY <3>2, <4>2 DEF Step
      <3> QED
        BY <3>1, <3>2
    <2>3. h = [s \in Small(n + 1) |-> Step(f, h, s)]
      BY <2>2
    <2> HIDE DEF h
    <2>4. \E k : k = [s \in Small(n + 1) |-> Step(f, k, s)]
      BY <2>3
    <2>5. n + 1 \in Nat
      OBVIOUS
    <2> QED
      BY <2>4, <2>5, Zenon
  <1>3. Upto = Nat
    <2> HIDE DEF Upto
    <2>1. Upto \in SUBSET Nat
      BY DEF Upto
    <2> QED
      BY <1>1, <1>2, <2>1, NatInduct
  <1>4. PICK g : g = [s \in Small(Cardinality(S)) |-> Step(f, g, s)]
    <2>1. Cardinality(S) \in Upto
      BY <1>3, FS_CardinalityType
    <2> QED
      BY <2>1
  <1>5. Small(Cardinality(S)) = SUBSET S
    BY FS_Subset
  <1>6. g = [s \in SUBSET S |-> Step(f, g, s)]
    BY <1>4, <1>5
  <1> DEFINE a == Adder(f, S)
  <1>7. a = [s \in SUBSET S |-> Step(f, a, s)]
    BY <1>6 DEF Adder
  <1> HIDE DEF a
  <1>8. \A s \in SUBSET S : a[s] = Step(f, a, s)
    BY <1>7
  <1> QED
    BY <1>8 DEF a

(* The function for a set gives the sums of its subsets.                   *)
LEMMA AdderPart ==
    ASSUME NEW f, NEW S, IsFiniteSet(S), NEW T \in SUBSET S
    PROVE  Adder(f, S)[T] = Sum(f, T)
  <1> DEFINE a == Adder(f, S)
             b == Adder(f, T)
             Upto == {n \in Nat : \A s \in SUBSET T : Cardinality(s) <= n => a[s] = b[s]}
  <1>0. IsFiniteSet(T)
    BY FS_Subset
  <1>1. /\ \A s \in SUBSET S : a[s] = Step(f, a, s)
        /\ \A s \in SUBSET T : b[s] = Step(f, b, s)
    BY <1>0, AdderExists
  <1> HIDE DEF a, b
  <1>2. 0 \in Upto
    <2>1. ASSUME NEW s \in SUBSET T, Cardinality(s) <= 0 PROVE s = {}
      BY <2>1, <1>0, FS_Subset, FS_CardinalityType, FS_EmptySet
    <2>2. a[{}] = b[{}]
      BY <1>1 DEF Step
    <2> QED
      BY <2>1, <2>2
  <1>3. ASSUME NEW n \in Upto PROVE n + 1 \in Upto
    <2>1. ASSUME NEW s \in SUBSET T, Cardinality(s) <= n + 1, s # {} PROVE a[s] = b[s]
      <3>1. IsFiniteSet(s) /\ Cardinality(s) \in Nat /\ n \in Nat
        BY <1>0, FS_Subset, FS_CardinalityType
      <3>2. Cardinality(s \ {Pick(s)}) = Cardinality(s) - 1
        BY <2>1, <3>1, PickIn, FS_RemoveElement
      <3>3. a[s \ {Pick(s)}] = b[s \ {Pick(s)}]
        BY <2>1, <3>1, <3>2
      <3> QED
        BY <1>1, <2>1, <3>3 DEF Step
    <2>2. a[{}] = b[{}]
      BY <1>1 DEF Step
    <2>3. n + 1 \in Nat
      OBVIOUS
    <2>4. \A s \in SUBSET T : Cardinality(s) <= n + 1 => a[s] = b[s]
      BY <2>1, <2>2
    <2> QED
      BY <2>3, <2>4
  <1>4. Upto = Nat
    <2> HIDE DEF Upto
    <2>1. Upto \in SUBSET Nat
      BY DEF Upto
    <2> QED
      BY <1>2, <1>3, <2>1, NatInduct
  <1>5. a[T] = b[T]
    <2>1. Cardinality(T) \in Upto
      BY <1>0, <1>4, FS_CardinalityType
    <2> QED
      BY <2>1, <1>0, FS_CardinalityType
  <1> QED
    BY <1>5, SumAdder DEF a, b

(* The sum of nothing is 0, and a sum is its picked element's value and the*)
(* sum of the others.                                                      *)
LEMMA SumPick ==
    ASSUME NEW f, NEW S, IsFiniteSet(S)
    PROVE  /\ S = {} => Sum(f, S) = 0
           /\ S # {} => Sum(f, S) = f[Pick(S)] + Sum(f, S \ {Pick(S)})
  <1> DEFINE a == Adder(f, S)
  <1>1. \A s \in SUBSET S : a[s] = Step(f, a, s)
    BY AdderExists
  <1>2. Sum(f, S) = a[S]
    BY SumAdder
  <1>3. a[S \ {Pick(S)}] = Sum(f, S \ {Pick(S)})
    BY AdderPart
  <1> HIDE DEF a
  <1>4. a[S] = Step(f, a, S)
    BY <1>1
  <1> QED
    BY <1>2, <1>3, <1>4 DEF Step

(* Sums of natural numbers are natural numbers, and the order in which they*)
(* are added does not matter.                                              *)
LEMMA SumAdd ==
    ASSUME NEW U, IsFiniteSet(U), NEW f, \A u \in U : f[u] \in Nat
    PROVE  /\ Sum(f, {}) = 0
           /\ \A T \in SUBSET U : Sum(f, T) \in Nat
           /\ \A T \in SUBSET U : \A x \in U \ T : Sum(f, T \cup {x}) = f[x] + Sum(f, T)
  <1>0. ASSUME NEW T \in SUBSET U
        PROVE  IsFiniteSet(T) /\ Cardinality(T) \in Nat
    BY FS_Subset, FS_CardinalityType
  <1>1. Sum(f, {}) = 0
    BY SumPick, FS_EmptySet
  <1>2. ASSUME NEW T \in SUBSET U, Cardinality(T) = 0 PROVE T = {}
    BY <1>0, <1>2, FS_EmptySet
  <1>3. ASSUME NEW T \in SUBSET U, T # {}
        PROVE  /\ Pick(T) \in T /\ Sum(f, T) = f[Pick(T)] + Sum(f, T \ {Pick(T)})
               /\ Cardinality(T \ {Pick(T)}) = Cardinality(T) - 1
    BY <1>0, <1>3, PickIn, SumPick, FS_RemoveElement
  <1> DEFINE Upto == {n \in Nat : \A T \in SUBSET U : Cardinality(T) <= n =>
                        /\ Sum(f, T) \in Nat
                        /\ \A x \in U \ T : Sum(f, T \cup {x}) = f[x] + Sum(f, T)}
  <1>4. 0 \in Upto
    <2>1. ASSUME NEW x \in U PROVE Sum(f, {x}) = f[x] + 0
      <3>1. {x} \in SUBSET U /\ Pick({x}) = x /\ {x} \ {x} = {}
        BY PickIn
      <3> QED
        BY <3>1, <1>1, <1>3
    <2>2. ASSUME NEW T \in SUBSET U, Cardinality(T) <= 0 PROVE T = {}
      BY <2>2, <1>0, <1>2
    <2>3. ASSUME NEW T \in SUBSET U, Cardinality(T) <= 0
          PROVE  /\ Sum(f, T) \in Nat
                 /\ \A x \in U \ T : Sum(f, T \cup {x}) = f[x] + Sum(f, T)
      <3>1. T = {} /\ \A x : T \cup {x} = {x}
        BY <2>2, <2>3
      <3> QED
        BY <3>1, <2>1, <1>1
    <2> QED
      BY <2>3
  <1>5. ASSUME NEW n \in Upto PROVE n + 1 \in Upto
    <2>0. n \in Nat /\ n + 1 \in Nat
      OBVIOUS
    <2>1. ASSUME NEW T \in SUBSET U, Cardinality(T) <= n
          PROVE  /\ Sum(f, T) \in Nat
                 /\ \A x \in U \ T : Sum(f, T \cup {x}) = f[x] + Sum(f, T)
      BY <2>1
    <2> HIDE DEF Upto
    <2>2. ASSUME NEW T \in SUBSET U, Cardinality(T) <= n + 1, T # {} PROVE Sum(f, T) \in Nat
      <3>1. Sum(f, T \ {Pick(T)}) \in Nat
        BY <2>0, <2>1, <2>2, <1>0, <1>3
      <3> QED
        BY <3>1, <2>2, <1>3
    <2>3. ASSUME NEW T \in SUBSET U, Cardinality(T) <= n + 1, T # {}, NEW x \in U \ T
          PROVE  Sum(f, T \cup {x}) = f[x] + Sum(f, T)
      <3> DEFINE V == T \cup {x}
                 y == Pick(V)
      <3>1. y \in V /\ Sum(f, V) = f[y] + Sum(f, V \ {y})
        <4>1. V \in SUBSET U /\ V # {}
          OBVIOUS
        <4> QED
          BY <4>1, <1>3
      <3>2. CASE y = x
        <4>1. V \ {x} = T
          OBVIOUS
        <4> QED
          BY <3>1, <3>2, <4>1
      <3>3. CASE y # x
        <4> DEFINE W == T \ {y}
        <4>1. y \in T /\ y \in U \ W /\ x \in U \ W /\ W \in SUBSET U
          BY <3>1, <3>3
        <4>2. Cardinality(W) <= n
          <5>0. IsFiniteSet(T) /\ y \in T
            BY <4>1, <1>0
          <5> HIDE DEF y
          <5>1. Cardinality(W) = Cardinality(T) - 1
            BY <5>0, FS_RemoveElement
          <5> QED
            BY <5>1, <2>0, <2>3, <1>0
        <4>3. V \ {y} = W \cup {x} /\ W \cup {y} = T
          BY <4>1, <3>3
        <4>4. Sum(f, W \cup {x}) = f[x] + Sum(f, W) /\ Sum(f, W \cup {y}) = f[y] + Sum(f, W)
          BY <4>1, <4>2, <2>1
        <4>5. Sum(f, W) \in Nat
          BY <4>1, <4>2, <2>1
        <4> HIDE DEF V, y, W
        <4>6. Sum(f, V) = f[y] + (f[x] + Sum(f, W)) /\ Sum(f, T) = f[y] + Sum(f, W)
          BY <3>1, <4>3, <4>4
        <4>7. f[x] \in Nat /\ f[y] \in Nat
          BY <4>1
        <4> QED
          BY <4>5, <4>6, <4>7 DEF V
      <3> QED
        BY <3>2, <3>3
    <2>4. \A T \in SUBSET U : Cardinality(T) <= n + 1 =>
             /\ Sum(f, T) \in Nat
             /\ \A x \in U \ T : Sum(f, T \cup {x}) = f[x] + Sum(f, T)
      <3>1. ASSUME NEW T \in SUBSET U, T = {}
            PROVE  /\ Sum(f, T) \in Nat
                   /\ \A x \in U \ T : Sum(f, T \cup {x}) = f[x] + Sum(f, T)
        BY <1>4, <3>1, FS_EmptySet DEF Upto
      <3> QED
        BY <2>2, <2>3, <3>1
    <2> QED
      BY <2>0, <2>4 DEF Upto
  <1>6. Upto = Nat
    <2> HIDE DEF Upto
    <2>1. Upto \in SUBSET Nat
      BY DEF Upto
    <2> QED
      BY <1>4, <1>5, <2>1, NatInduct
  <1>7. ASSUME NEW T \in SUBSET U
        PROVE  /\ Sum(f, T) \in Nat
               /\ \A x \in U \ T : Sum(f, T \cup {x}) = f[x] + Sum(f, T)
    <2>1. Cardinality(T) \in Upto /\ Cardinality(T) <= Cardinality(T)
      BY <1>0, <1>6
    <2> QED
      BY <2>1
  <1> QED
    BY <1>1, <1>7

(* The sum over two sets that have nothing in common is the sum of theirs. *)
LEMMA SumDisjoint ==
    ASSUME NEW U, IsFiniteSet(U), NEW f, \A u \in U : f[u] \in Nat,
           NEW A \in SUBSET U, NEW B \in SUBSET U, A \cap B = {}
    PROVE  Sum(f, A \cup B) = Sum(f, A) + Sum(f, B)
  <1> DEFINE P == {T \in SUBSET B : Sum(f, A \cup T) = Sum(f, A) + Sum(f, T)}
  <1>0. /\ Sum(f, {}) = 0
        /\ \A T \in SUBSET U : Sum(f, T) \in Nat
        /\ \A T \in SUBSET U : \A x \in U \ T : Sum(f, T \cup {x}) = f[x] + Sum(f, T)
    BY SumAdd
  <1>1. {} \in P
    <2>1. A \cup {} = A /\ Sum(f, A) \in Nat
      BY <1>0
    <2> QED
      BY <1>0, <2>1
  <1>2. ASSUME NEW T \in SUBSET B, NEW x \in B \ T, T \in P PROVE T \cup {x} \in P
    <2>1. Sum(f, A \cup T) = Sum(f, A) + Sum(f, T)
      BY <1>2
    <2>2. A \cup (T \cup {x}) = (A \cup T) \cup {x}
      OBVIOUS
    <2>3. Sum(f, (A \cup T) \cup {x}) = f[x] + Sum(f, A \cup T)
      BY <1>0
    <2>4. Sum(f, T \cup {x}) = f[x] + Sum(f, T)
      BY <1>0
    <2>5. Sum(f, A) \in Nat /\ Sum(f, T) \in Nat /\ f[x] \in Nat
      BY <1>0
    <2>6. Sum(f, A \cup (T \cup {x})) = f[x] + (Sum(f, A) + Sum(f, T))
      BY <2>1, <2>2, <2>3, Zenon
    <2>7. Sum(f, A \cup (T \cup {x})) = Sum(f, A) + Sum(f, T \cup {x})
      BY <2>4, <2>5, <2>6
    <2> QED
      BY <2>7
  <1>3. B \in P
    <2>1. IsFiniteSet(B)
      BY FS_Subset
    <2> HIDE DEF P
    <2>2. \A T \in SUBSET B : \A x \in B \ T : T \in P => T \cup {x} \in P
      BY <1>2
    <2>3. \A T \in SUBSET B : T \in P
      BY <1>1, <2>1, <2>2, SetInduct
    <2> QED
      BY <2>3
  <1> QED
    BY <1>3

(* The sum over the union of a family of disjoint sets.                    *)
LEMMA SumUnion ==
    ASSUME NEW U, IsFiniteSet(U), NEW f, \A u \in U : f[u] \in Nat,
           NEW I, IsFiniteSet(I), NEW D, \A c \in I : D[c] \in SUBSET U,
           \A c, d \in I : c # d => D[c] \cap D[d] = {},
           NEW g, \A c \in I : g[c] = Sum(f, D[c])
    PROVE  Sum(f, UNION {D[c] : c \in I}) = Sum(g, I)
  <1> DEFINE All(T) == UNION {D[c] : c \in T}
             P == {T \in SUBSET I : Sum(f, All(T)) = Sum(g, T)}
  <1>0. /\ Sum(f, {}) = 0 /\ Sum(g, {}) = 0
        /\ \A c \in I : g[c] \in Nat
        /\ \A T \in SUBSET I : \A x \in I \ T : Sum(g, T \cup {x}) = g[x] + Sum(g, T)
    <2>1. /\ Sum(f, {}) = 0
          /\ \A T \in SUBSET U : Sum(f, T) \in Nat
      BY SumAdd
    <2>2. \A c \in I : g[c] \in Nat
      BY <2>1
    <2> QED
      BY <2>1, <2>2, SumAdd
  <1>1. {} \in P
    <2>1. All({}) = {}
      OBVIOUS
    <2> QED
      BY <1>0, <2>1
  <1>2. ASSUME NEW T \in SUBSET I, NEW x \in I \ T, T \in P PROVE T \cup {x} \in P
    <2>1. Sum(f, All(T)) = Sum(g, T)
      BY <1>2
    <2>2. All(T \cup {x}) = D[x] \cup All(T)
      OBVIOUS
    <2>3. D[x] \in SUBSET U /\ All(T) \in SUBSET U /\ D[x] \cap All(T) = {}
      OBVIOUS
    <2> HIDE DEF All
    <2>4. Sum(f, D[x] \cup All(T)) = Sum(f, D[x]) + Sum(f, All(T))
      BY <2>3, SumDisjoint
    <2>5. Sum(f, All(T \cup {x})) = Sum(g, T \cup {x})
      BY <1>0, <2>1, <2>2, <2>4
    <2> QED
      BY <2>5 DEF All
  <1>3. I \in P
    <2> HIDE DEF P
    <2> QED
      BY <1>1, <1>2, SetInduct
  <1> QED
    BY <1>3

-----------------------------------------------------------------------------
(* What goes with an object.                                               *)

(* What goes with an object is closed: with all of its referrers an        *)
(* address goes too.                                                       *)
LEMMA WithObjectClosed ==
    ASSUME NEW o \in Addr
    PROVE  /\ o \in WithObject(o) /\ WithObject(o) \in SUBSET Addr
           /\ GoneWithObject(o, WithObject(o))
  <1>1. o \in WithObject(o) /\ WithObject(o) \in SUBSET Addr
    BY DEF WithObject, GoneWithObject
  <1>2. ASSUME NEW x \in Addr, Orphaned(WithObject(o), x) PROVE x \in WithObject(o)
    <2>1. ASSUME NEW D \in SUBSET Addr, GoneWithObject(o, D) PROVE x \in D
      <3>1. WithObject(o) \subseteq D
        BY <2>1 DEF WithObject
      <3>2. Orphaned(D, x)
        BY <1>2, <3>1 DEF Orphaned
      <3> QED
        BY <2>1, <3>2 DEF GoneWithObject
    <2> QED
      BY <2>1 DEF WithObject
  <1> QED
    BY <1>1, <1>2 DEF GoneWithObject

(* It is the least closed set.                                             *)
LEMMA WithObjectLeast ==
    ASSUME NEW o \in Addr, NEW D \in SUBSET Addr, GoneWithObject(o, D)
    PROVE  WithObject(o) \subseteq D
  BY DEF WithObject

(* Nothing but the object itself goes without having lost its referrers.   *)
LEMMA ReferrersGo ==
    ASSUME NEW o \in Addr, NEW x \in WithObject(o), x # o
    PROVE  Orphaned(WithObject(o), x)
  <1> DEFINE D == WithObject(o) \ {x}
  <1> SUFFICES ASSUME ~Orphaned(WithObject(o), x) PROVE FALSE
    OBVIOUS
  <1>1. o \in D /\ D \in SUBSET Addr
    BY WithObjectClosed
  <1>2. ASSUME NEW y \in Addr, Orphaned(D, y) PROVE y \in D
    <2>1. Orphaned(WithObject(o), y)
      BY <1>2 DEF Orphaned
    <2>2. y \in WithObject(o)
      BY <2>1, WithObjectClosed DEF GoneWithObject
    <2> QED
      BY <2>1, <2>2
  <1>3. GoneWithObject(o, D)
    BY <1>1, <1>2 DEF GoneWithObject
  <1> QED
    BY <1>1, <1>3, WithObjectLeast

(* Going is transitive.                                                    *)
LEMMA GoesAlong ==
    ASSUME NEW o \in Addr, NEW x \in WithObject(o)
    PROVE  WithObject(x) \subseteq WithObject(o)
  <1>1. x \in Addr /\ GoneWithObject(x, WithObject(o)) /\ WithObject(o) \in SUBSET Addr
    BY WithObjectClosed DEF GoneWithObject
  <1> QED
    BY <1>1, WithObjectLeast

(* Two objects of which neither goes with the other take nothing in common *)
(* with them.                                                              *)
LEMMA NothingInCommon ==
    ASSUME NEW o \in Addr, NEW p \in Addr, o \notin WithObject(p), p \notin WithObject(o)
    PROVE  WithObject(o) \cap WithObject(p) = {}
  <1> DEFINE D == WithObject(o) \ WithObject(p)
  <1>1. o \in D /\ D \in SUBSET Addr
    BY WithObjectClosed
  <1>2. ASSUME NEW y \in Addr, Orphaned(D, y) PROVE y \in D
    <2>1. y \in WithObject(o)
      BY <1>2, WithObjectClosed DEF Orphaned, GoneWithObject
    <2>2. ASSUME y \in WithObject(p) PROVE FALSE
      <3>1. y # p
        BY <2>1
      <3>2. Orphaned(WithObject(p), y)
        BY <2>2, <3>1, ReferrersGo
      <3> QED
        BY <1>2, <3>2 DEF Orphaned
    <2> QED
      BY <2>1, <2>2
  <1>3. GoneWithObject(o, D)
    BY <1>1, <1>2 DEF GoneWithObject
  <1> QED
    BY <1>1, <1>3, WithObjectLeast

(* A strict subtree goes with its root as a whole: nothing it refers to is *)
(* left behind.                                                            *)
LEMMA SubtreeGoes ==
    ASSUME IsInput(heap), NEW S, Strict(S), NEW r \in S
    PROVE  /\ WithObject(r) \subseteq S
           /\ \A y \in WithObject(r) : heap.refs[y] \subseteq WithObject(r)
  <1>0. S \in SUBSET Addr /\ r \in Addr
    BY DEF Strict, Objects, IsInput
  <1>1. WithObject(r) \subseteq S
    <2>1. ASSUME NEW y \in Addr, Orphaned(S, y) PROVE y \in S
      BY <2>1 DEF Orphaned, Inbound, Strict
    <2>2. GoneWithObject(r, S)
      BY <2>1 DEF GoneWithObject
    <2> QED
      BY <1>0, <2>2, WithObjectLeast
  <1>2. ASSUME NEW y \in WithObject(r), NEW z \in heap.refs[y] PROVE z \in WithObject(r)
    <2>1. y \in S /\ y \in Objects
      BY <1>1 DEF Strict
    <2>2. z \in S /\ z \in Addr /\ y \in Inbound(z)
      BY <2>1, <1>0 DEF Strict, Inbound
    <2>3. Inbound(z) \subseteq WithObject(r)
      BY <2>2 DEF Strict
    <2> QED
      BY <1>0, <2>2, <2>3, WithObjectClosed DEF GoneWithObject, Orphaned
  <1> QED
    BY <1>1, <1>2

(* The bytes of a set are the sum of the sizes of its objects.             *)
LEMMA BytesSum == ASSUME NEW D PROVE Bytes(D) = Sum(Size, D \cap Objects)
  BY DEF Bytes, Sum, SizeOf, MapThenSumSet, MapThenFoldSet

(* Sizes can be added up over any set of addresses.                        *)
LEMMA SizesAdd ==
    /\ IsFiniteSet(Addr) /\ \A x \in Addr : Size[x] \in Nat
    /\ Sum(Size, {}) = 0
    /\ \A T \in SUBSET Addr : Sum(Size, T) \in Nat
    /\ \A T \in SUBSET Addr : \A x \in Addr \ T : Sum(Size, T \cup {x}) = Size[x] + Sum(Size, T)
  <1>1. IsFiniteSet(Addr) /\ \A x \in Addr : Size[x] \in Nat
    BY RetainedAssumption
  <1> QED
    BY <1>1, SumAdd

(* An address that no path leads back to and that refers only to strict    *)
(* subtrees takes these with it and nothing else, and no byte of them is   *)
(* counted twice: the sum that the search for subtrees stores.             *)
LEMMA SubtreeBytes ==
    ASSUME IsInput(heap), NEW S, Strict(S), NEW x \in Objects, heap.refs[x] \subseteq S,
           \A k \in heap.refs[x] : x \notin WithObject(k),
           NEW g, \A k \in heap.refs[x] : g[k] = Bytes(WithObject(k))
    PROVE  /\ \A y \in WithObject(x) : y = x \/ \E k \in heap.refs[x] : y \in WithObject(k)
           /\ Bytes(WithObject(x)) = Size[x] + Sum(g, heap.refs[x])
  <1> DEFINE R == heap.refs[x]
             D == [k \in R |-> WithObject(k)]
             All == UNION {D[k] : k \in R}
             E == All \cup {x}
  <1>0. /\ S \in SUBSET Addr /\ S \subseteq Objects /\ x \in Addr
        /\ R \in SUBSET Addr
        /\ \A k \in R : WithObject(k) \subseteq S
    BY SubtreeGoes DEF Strict, Objects, IsInput
  <1>1. All \in SUBSET Addr /\ All \subseteq S /\ x \notin All
    BY <1>0
  <1>2. ASSUME NEW y \in Addr, Orphaned(E, y) PROVE y \in E
    <2>1. PICK e \in Inbound(y) : e \in E
      BY <1>2 DEF Orphaned
    <2>2. y \in heap.refs[e]
      BY DEF Inbound
    <2>3. CASE e = x
      <3>1. y \in R /\ y \in WithObject(y)
        BY <2>2, <2>3, WithObjectClosed
      <3>2. y \in D[y]
        BY <3>1
      <3> QED
        BY <3>1, <3>2
    <2>4. CASE e # x
      <3>1. PICK k \in R : e \in WithObject(k)
        BY <2>1, <2>4
      <3>2. y \in WithObject(k)
        BY <2>2, <3>1, SubtreeGoes
      <3> QED
        BY <3>2
    <2> QED
      BY <2>3, <2>4
  <1>3. WithObject(x) \subseteq E
    <2>1. GoneWithObject(x, E) /\ E \in SUBSET Addr
      BY <1>0, <1>1, <1>2 DEF GoneWithObject
    <2> QED
      BY <1>0, <2>1, WithObjectLeast
  <1>4. ASSUME NEW k \in R PROVE WithObject(k) \subseteq WithObject(x)
    <2>1. k \in S /\ k \in Addr /\ x \in Inbound(k)
      BY <1>0 DEF Inbound
    <2>2. Inbound(k) \subseteq {x}
      BY <2>1 DEF Strict
    <2>3. Orphaned(WithObject(x), k)
      BY <1>0, <2>1, <2>2, WithObjectClosed DEF Orphaned
    <2>4. k \in WithObject(x)
      BY <1>0, <2>1, <2>3, WithObjectClosed DEF GoneWithObject
    <2> QED
      BY <1>0, <2>4, GoesAlong
  <1>5. WithObject(x) = E
    <2>1. x \in WithObject(x)
      BY <1>0, WithObjectClosed
    <2>2. All \subseteq WithObject(x)
      BY <1>4
    <2> QED
      BY <1>3, <2>1, <2>2
  <1>6. ASSUME NEW k \in R, NEW m \in R, k # m PROVE D[k] \cap D[m] = {}
    <2>1. ASSUME NEW u \in R, NEW v \in R, u # v PROVE u \notin WithObject(v)
      <3>1. SUFFICES ASSUME u \in WithObject(v) PROVE FALSE
        OBVIOUS
      <3>2. Orphaned(WithObject(v), u)
        BY <1>0, <2>1, <3>1, ReferrersGo
      <3>3. x \in Inbound(u)
        BY DEF Inbound
      <3> QED
        BY <3>2, <3>3 DEF Orphaned
    <2>2. k \notin WithObject(m) /\ m \notin WithObject(k) /\ k \in Addr /\ m \in Addr
      BY <1>0, <1>6, <2>1
    <2> QED
      BY <2>2, NothingInCommon
  <1>7. IsFiniteSet(R) /\ \A k \in R : D[k] \in SUBSET Addr
    BY <1>0, FS_Subset, SizesAdd
  <1>8. \A k \in R : g[k] = Sum(Size, D[k])
    <2>1. ASSUME NEW k \in R PROVE g[k] = Sum(Size, D[k])
      <3>1. D[k] = WithObject(k) /\ D[k] \cap Objects = D[k]
        BY <1>0
      <3>2. Bytes(D[k]) = Sum(Size, D[k])
        BY <3>1, BytesSum
      <3> QED
        BY <3>1, <3>2
    <2> QED
      BY <2>1
  <1>9. Sum(Size, All) = Sum(g, R)
    <2>1. \A k, m \in R : k # m => D[k] \cap D[m] = {}
      BY <1>6
    <2> HIDE DEF D, R
    <2> QED
      BY <1>7, <1>8, <2>1, SizesAdd, SumUnion
  <1>10. Sum(Size, E) = Size[x] + Sum(Size, All)
    <2> HIDE DEF All
    <2> QED
      BY <1>0, <1>1, SizesAdd
  <1>11. Bytes(WithObject(x)) = Sum(Size, E)
    <2>1. E \cap Objects = E
      BY <1>0, <1>1
    <2> HIDE DEF E
    <2> QED
      BY <1>5, <2>1, BytesSum
  <1>12. \A y \in WithObject(x) : y = x \/ \E k \in R : y \in WithObject(k)
    BY <1>5
  <1> QED
    BY <1>9, <1>10, <1>11, <1>12

(* One referrer at most.                                                   *)
LEMMA AtMostOne ==
    ASSUME IsInput(heap), NEW x, InboundCount(x) <= 1
    PROVE  \A p, q \in Inbound(x) : p = q
  <1> SUFFICES ASSUME NEW p \in Inbound(x), NEW q \in Inbound(x), p # q PROVE FALSE
    OBVIOUS
  <1>1. IsFiniteSet(Inbound(x))
    BY RetainedAssumption, FS_Subset DEF Inbound, Objects, IsInput
  <1>2. Cardinality({p, q}) = 2 /\ IsFiniteSet({p, q})
    <2>1. IsFiniteSet({p}) /\ Cardinality({p}) = 1 /\ q \notin {p}
      BY FS_Singleton
    <2>2. {p} \cup {q} = {p, q}
      OBVIOUS
    <2> QED
      BY <2>1, <2>2, FS_AddElement
  <1>3. Cardinality({p, q}) <= Cardinality(Inbound(x))
    BY <1>1, FS_Subset
  <1>4. Cardinality(Inbound(x)) \in Nat
    BY <1>1, FS_CardinalityType
  <1> QED
    BY <1>2, <1>3, <1>4 DEF InboundCount

(* The converse.                                                           *)
LEMMA FewReferrers ==
    ASSUME NEW x, \A p, q \in Inbound(x) : p = q
    PROVE  InboundCount(x) < 2
  <1>1. CASE Inbound(x) = {}
    BY <1>1, FS_EmptySet DEF InboundCount
  <1>2. CASE Inbound(x) # {}
    <2>1. PICK p : Inbound(x) = {p}
      BY <1>2
    <2> QED
      BY <2>1, FS_Singleton DEF InboundCount
  <1> QED
    BY <1>1, <1>2

(* The search for subtrees adds only roots of strict subtrees.             *)
LEMMA SubtreeAdded ==
    ASSUME IsInput(heap), NEW S, Strict(S), NEW x \in Objects, heap.refs[x] \subseteq S,
           InboundCount(x) <= 1
    PROVE  /\ Strict(S \cup {x})
           /\ \A k \in heap.refs[x] : x \notin WithObject(k)
  <1>1. \A k \in heap.refs[x] : x \notin WithObject(k)
    <2>1. CASE x \in S
      BY <2>1 DEF Strict
    <2>2. CASE x \notin S
      BY <2>2, SubtreeGoes
    <2> QED
      BY <2>1, <2>2
  <1>2. \A p, q \in Inbound(x) : p = q
    BY AtMostOne
  <1> QED
    BY <1>1, <1>2 DEF Strict

(* What goes with the locals of a thread is closed.                        *)
LEMMA WithThreadClosed ==
    ASSUME NEW t
    PROVE  WithThread(t) \in SUBSET Addr /\ GoneWithThread(t, WithThread(t))
  <1> DEFINE held(x) == \E u \in DOMAIN heap.threads \ {t} : x \in heap.threads[u].locals
             W == WithThread(t)
  <1>1. W \in SUBSET Addr
    BY DEF WithThread
  <1>2. ASSUME NEW x \in Addr, x \in heap.threads[t].locals, Inbound(x) \subseteq W, ~held(x)
        PROVE  x \in W
    <2>1. ASSUME NEW D \in SUBSET Addr, GoneWithThread(t, D) PROVE x \in D
      <3>1. W \subseteq D
        BY <2>1 DEF WithThread
      <3> QED
        BY <1>2, <2>1, <3>1 DEF GoneWithThread
    <2> QED
      BY <2>1 DEF WithThread
  <1>3. ASSUME NEW x \in Addr, x \notin heap.threads[t].locals, Orphaned(W, x)
        PROVE  x \in W
    <2>1. ASSUME NEW D \in SUBSET Addr, GoneWithThread(t, D) PROVE x \in D
      <3>1. W \subseteq D
        BY <2>1 DEF WithThread
      <3>2. Orphaned(D, x)
        BY <1>3, <3>1 DEF Orphaned
      <3> QED
        BY <1>3, <2>1, <3>2 DEF GoneWithThread
    <2> QED
      BY <2>1 DEF WithThread
  <1> QED
    BY <1>1, <1>2, <1>3 DEF GoneWithThread

(* It is the least closed set.                                             *)
LEMMA WithThreadLeast ==
    ASSUME NEW t, NEW D \in SUBSET Addr, GoneWithThread(t, D)
    PROVE  WithThread(t) \subseteq D
  BY DEF WithThread

(* No step changes the artifact, so none changes what the numbers should   *)
(* be.                                                                     *)
LEMMA HeapStays ==
    ASSUME heap' = heap
    PROVE  /\ Objects' = Objects
           /\ \A x : Inbound(x)' = Inbound(x)
           /\ \A x : InboundCount(x)' = InboundCount(x)
           /\ \A o : WithObject(o)' = WithObject(o)
           /\ \A t : WithThread(t)' = WithThread(t)
           /\ \A o : Bytes(WithObject(o))' = Bytes(WithObject(o))
           /\ \A t : Bytes(WithThread(t))' = Bytes(WithThread(t))
  <1>1. Objects' = Objects
    BY DEF Objects
  <1>2. \A x : Inbound(x)' = Inbound(x)
    BY <1>1 DEF Inbound
  <1>3. \A x : InboundCount(x)' = InboundCount(x)
    BY <1>2 DEF InboundCount
  <1>4. \A o : WithObject(o)' = WithObject(o)
    BY <1>2 DEF WithObject, GoneWithObject, Orphaned
  <1>5. \A t : WithThread(t)' = WithThread(t)
    BY <1>2 DEF WithThread, GoneWithThread, Orphaned
  <1>6. \A o : Bytes(WithObject(o))' = Bytes(WithObject(o))
    BY <1>1, <1>4 DEF Bytes
  <1>7. \A t : Bytes(WithThread(t))' = Bytes(WithThread(t))
    BY <1>1, <1>5 DEF Bytes
  <1> QED
    BY <1>1, <1>2, <1>3, <1>4, <1>5, <1>6, <1>7

-----------------------------------------------------------------------------
(* The steps.                                                              *)

(* The artifact is finite.                                                 *)
LEMMA InputFacts ==
    ASSUME IsInput(heap)
    PROVE  /\ Objects \in SUBSET Addr /\ IsFiniteSet(Objects)
           /\ \A o \in Objects : heap.refs[o] \in SUBSET Addr /\ IsFiniteSet(heap.refs[o])
           /\ \A x : Inbound(x) \subseteq Objects /\ IsFiniteSet(Inbound(x))
           /\ \A x : InboundCount(x) \in Nat
           /\ \A t \in 1..Len(heap.threads) : heap.threads[t].locals \in SUBSET Addr
           /\ DOMAIN heap.threads = 1..Len(heap.threads) /\ IsFiniteSet(DOMAIN heap.threads)
  <1>1. /\ Objects \in SUBSET Addr
        /\ \A o \in Objects : heap.refs[o] \in SUBSET Addr
        /\ \A x : Inbound(x) \subseteq Objects
        /\ \A t \in 1..Len(heap.threads) : heap.threads[t].locals \in SUBSET Addr
        /\ DOMAIN heap.threads = 1..Len(heap.threads) /\ Len(heap.threads) \in Nat
    BY DEF IsInput, Objects, Inbound
  <1>2. IsFiniteSet(Addr)
    BY RetainedAssumption
  <1>3. IsFiniteSet(Objects) /\ \A o \in Objects : IsFiniteSet(heap.refs[o])
    BY <1>1, <1>2, FS_Subset
  <1>4. \A x : IsFiniteSet(Inbound(x))
    BY <1>1, <1>3, FS_Subset
  <1>5. \A x : InboundCount(x) \in Nat
    BY <1>4, FS_CardinalityType DEF InboundCount
  <1>6. IsFiniteSet(1..Len(heap.threads))
    BY <1>1, FS_Interval
  <1> QED
    BY <1>1, <1>3, <1>4, <1>5, <1>6

(* The value that the search stores for a subtree is a number.             *)
LEMMA StoredSum ==
    ASSUME TypeOK, NEW x \in Objects
    PROVE  Size[x] + Sum(objectRetained, heap.refs[x]) \in Nat
  <1>1. IsFiniteSet(Addr) /\ \A a \in Addr : objectRetained[a] \in Nat
    BY RetainedAssumption DEF TypeOK
  <1>2. \A T \in SUBSET Addr : Sum(objectRetained, T) \in Nat
    BY <1>1, SumAdd
  <1>3. heap.refs[x] \in SUBSET Addr /\ Size[x] \in Nat
    BY InputFacts, SizesAdd DEF TypeOK
  <1> QED
    BY <1>2, <1>3

(* What VisitFront does, without the mapping operator.                     *)
LEMMA VisitSum ==
    ASSUME NEW x, VisitFront(x)
    PROVE  /\ phase = "subtrees" /\ x \in unvisited /\ unvisited' = unvisited \ {x}
           /\ \/ UNCHANGED <<nextFront, subtreeRoots, objectRetained>>
              \/ /\ nextFront' = nextFront \cup {x}
                 /\ UNCHANGED <<subtreeRoots, objectRetained>>
              \/ /\ InboundCount(x) <= 1 /\ heap.refs[x] \subseteq subtreeRoots
                 /\ subtreeRoots' = subtreeRoots \cup {x}
                 /\ objectRetained' = [objectRetained EXCEPT ![x] =
                        Size[x] + Sum(objectRetained, heap.refs[x])]
                 /\ nextFront' = nextFront \cup Inbound(x)
           /\ UNCHANGED <<heap, phase, front, loopVars, threadRetained, deleteVars>>
  BY DEF VisitFront, SizeOf, Sum

(* Every variable keeps to its type in the search for subtrees.            *)
LEMMA SearchTypes ==
    ASSUME TypeOK, FindLeaves \/ EndRound \/ Finish \/ \E x \in Addr : VisitFront(x)
    PROVE  TypeOK'
  <1>1. IsInput(heap)
    BY DEF TypeOK
  <1>2. CASE FindLeaves
    <2>1. heap' = heap /\ Objects' = Objects
      BY <1>2 DEF FindLeaves, Objects
    <2>2. \A x \in Addr : SizeOf(x) \in Nat
      BY SizesAdd DEF SizeOf
    <2>3. objectRetained' \in [Addr -> Nat]
      BY <1>2, <2>2 DEF FindLeaves
    <2>4. subtreeRoots' \subseteq Objects /\ front' \subseteq Objects /\ unvisited' \subseteq front'
      BY <1>1, <1>2, InputFacts DEF FindLeaves
    <2> QED
      BY <1>2, <2>1, <2>3, <2>4 DEF FindLeaves, TypeOK, loopVars, deleteVars
  <1>3. CASE EndRound
    BY <1>3 DEF EndRound, TypeOK, deleteVars, Objects
  <1>4. CASE Finish
    BY <1>4 DEF Finish, TypeOK, loopVars, deleteVars, subtreeVars, Objects
  <1>5. ASSUME NEW x \in Addr, VisitFront(x) PROVE TypeOK'
    <2>1. x \in unvisited /\ unvisited' = unvisited \ {x}
          /\ UNCHANGED <<heap, phase, front, loopVars, threadRetained, deleteVars>>
      BY <1>5, VisitSum
    <2>2. Objects' = Objects /\ x \in Objects
      BY <2>1 DEF Objects, TypeOK
    <2>3. objectRetained' \in [Addr -> Nat]
      <3>1. Size[x] + Sum(objectRetained, heap.refs[x]) \in Nat
        BY <2>2, StoredSum
      <3> QED
        BY <1>5, <3>1, VisitSum DEF TypeOK
    <2>4. subtreeRoots' \subseteq Objects /\ nextFront' \subseteq Objects
      BY <1>1, <1>5, <2>2, VisitSum, InputFacts DEF TypeOK
    <2> QED
      BY <2>1, <2>2, <2>3, <2>4 DEF TypeOK, loopVars, deleteVars
  <1> QED
    BY <1>2, <1>3, <1>4, <1>5

(* The roots found are those of strict subtrees, with their sizes.         *)
LEMMA SearchFindsSubtrees ==
    ASSUME TypeOK, SubtreeInv, FindLeaves \/ \E x \in Addr : VisitFront(x)
    PROVE  SubtreeInv'
  <1>1. IsInput(heap) /\ heap' = heap
    BY VisitSum DEF TypeOK, FindLeaves
  <1>2. /\ Objects' = Objects
        /\ \A x : Inbound(x)' = Inbound(x)
        /\ \A o : WithObject(o)' = WithObject(o)
        /\ \A o : Bytes(WithObject(o))' = Bytes(WithObject(o))
    BY <1>1, HeapStays
  <1>3. ASSUME Strict(subtreeRoots'),
               \A r \in subtreeRoots' : objectRetained'[r] = Bytes(WithObject(r))
        PROVE  SubtreeInv'
    <2>1. Strict(subtreeRoots)'
      BY <1>1, <1>2, <1>3 DEF Strict
    <2> QED
      BY <1>2, <1>3, <2>1 DEF SubtreeInv
  <1>4. CASE FindLeaves
    <2> DEFINE L == subtreeRoots'
    <2>1. L = {o \in Objects : heap.refs[o] = {} /\ InboundCount(o) < 2}
      BY <1>4 DEF FindLeaves
    <2>2. \A o \in L : \A p, q \in Inbound(o) : p = q
      <3>1. \A o \in L : InboundCount(o) <= 1
        BY <1>1, <2>1, InputFacts
      <3> QED
        BY <1>1, <3>1, AtMostOne
    <2>3. Strict(L)
      BY <2>1, <2>2 DEF Strict
    <2>4. ASSUME NEW r \in L PROVE objectRetained'[r] = Bytes(WithObject(r))
      <3>1. r \in Objects /\ r \in Addr /\ heap.refs[r] = {}
        BY <1>1, <2>1, InputFacts
      <3>2. objectRetained'[r] = Size[r]
        BY <1>4, <2>1, <3>1 DEF FindLeaves, SizeOf
      <3>3. Bytes(WithObject(r)) = Size[r] + Sum(<<>>, heap.refs[r])
        BY <1>1, <2>3, <3>1, SubtreeBytes
      <3>4. Sum(<<>>, heap.refs[r]) = 0
        BY <3>1, SumPick, FS_EmptySet
      <3>5. Size[r] \in Nat
        BY <3>1, SizesAdd
      <3> QED
        BY <3>2, <3>3, <3>4, <3>5
    <2> QED
      BY <1>3, <2>3, <2>4
  <1>5. ASSUME NEW x \in Addr, VisitFront(x) PROVE SubtreeInv'
    <2>0. x \in Objects
      BY <1>5, VisitSum DEF TypeOK
    <2>1. CASE UNCHANGED <<subtreeRoots, objectRetained>>
      BY <1>3, <2>1 DEF SubtreeInv
    <2>2. CASE /\ InboundCount(x) <= 1 /\ heap.refs[x] \subseteq subtreeRoots
               /\ subtreeRoots' = subtreeRoots \cup {x}
               /\ objectRetained' = [objectRetained EXCEPT ![x] =
                      Size[x] + Sum(objectRetained, heap.refs[x])]
      <3>1. /\ Strict(subtreeRoots \cup {x})
            /\ \A k \in heap.refs[x] : x \notin WithObject(k)
        BY <1>1, <2>0, <2>2, SubtreeAdded DEF SubtreeInv
      <3>2. Bytes(WithObject(x)) = Size[x] + Sum(objectRetained, heap.refs[x])
        BY <1>1, <2>0, <2>2, <3>1, SubtreeBytes DEF SubtreeInv
      <3>3. \A r \in subtreeRoots' : objectRetained'[r] = Bytes(WithObject(r))
        BY <2>2, <3>2 DEF SubtreeInv, TypeOK
      <3> QED
        BY <1>3, <2>2, <3>1, <3>3
    <2> QED
      BY <1>5, <2>1, <2>2, VisitSum
  <1> QED
    BY <1>4, <1>5

(* A deletion starts with a list of what it starts from, in which nothing  *)
(* has been examined.                                                      *)
LEMMA BeginList ==
    ASSUME NEW what, NEW view, DOMAIN view \in SUBSET Addr,
           \A y \in DOMAIN view : view[y] \in Nat, Begin(what, view)
    PROVE  /\ ListInv'
           /\ retained' \in Nat /\ deleted' \subseteq DOMAIN inboundView'
           /\ DOMAIN inboundView' \subseteq Addr
           /\ \A y \in DOMAIN inboundView' : inboundView'[y] \in Int
           /\ entries' \in [Addr -> Nat] /\ pass' \in [Addr -> Nat]
           /\ \A y \in Addr : pass'[y] <= entries'[y]
  <1>1. /\ inboundView' = view /\ deleted' = {} /\ happened' = FALSE /\ retained' = 0
        /\ entries' = [y \in Addr |-> IF y \in DOMAIN view THEN 1 ELSE 0]
        /\ pass' = entries' /\ sortKey' = view
    BY DEF Begin
  <1>2. \A y \in Addr : /\ entries'[y] > 0 <=> y \in DOMAIN view
                         /\ pass'[y] = entries'[y] /\ entries'[y] \in Nat
    BY <1>1
  <1>3. ASSUME NEW y \in Addr
        PROVE  /\ entries'[y] > 0 => y \in DOMAIN inboundView'
               /\ y \in DOMAIN inboundView' \ deleted' => entries'[y] > 0
               /\ pass'[y] > 0 => y \in DOMAIN sortKey' /\ sortKey'[y] \in Nat
               /\ ~(pass'[y] < entries'[y])
    BY <1>1, <1>2
  <1>4. ListInv'
    BY <1>1, <1>3 DEF ListInv
  <1> QED
    BY <1>1, <1>4

(* Its counts are right when they are those of referrers and holders.      *)
LEMMA BeginCount ==
    ASSUME deleted' = {}, retained' = 0, DOMAIN inboundView' = Start',
           \A y \in Start' : /\ inboundView'[y] \in Nat
                             /\ inboundView'[y] = Cardinality(Needs(y)') + Cardinality(Holders(y)')
    PROVE  CountInv'
  <1>1. Walked' = {} /\ Covered' = {}
    BY DEF Walked, Covered
  <1>2. retained' = Sum(Size, Covered')
    BY <1>1, SizesAdd
  <1>3. DOMAIN inboundView' = Start' \cup UNION {heap'.refs[e] : e \in Walked'}
    BY <1>1
  <1>4. \A y \in Start' : Needs(y)' \ Walked' = Needs(y)'
    BY <1>1
  <1> QED
    BY <1>1, <1>2, <1>3, <1>4 DEF CountInv

(* The deletion of an object.                                              *)
LEMMA ObjectBegins ==
    ASSUME TypeOK, PlaceInv, NEW o \in Addr, BeginObject(o)
    PROVE  TypeOK' /\ PlaceInv' /\ DeleteInv'
  <1> DEFINE view == [x \in {o} |-> 0]
  <1>1. /\ phase = "loops" /\ o \in objectsLeft /\ Begin(o, view)
        /\ objectsLeft' = objectsLeft \ {o}
        /\ UNCHANGED <<heap, subtreeVars, objectRetained, threadsDone, threadRetained>>
    BY DEF BeginObject
  <1>2. item' = o /\ deleted' = {} /\ retained' = 0 /\ inboundView' = view /\ phase' = "delete"
    BY <1>1 DEF Begin
  <1>3. threadsDone' = 0 /\ ForObject'
    BY <1>1 DEF PlaceInv, TypeOK, ForObject
  <1>4. DOMAIN view = {o} /\ view[o] = 0
    OBVIOUS
  <1> HIDE DEF view
  <1>5. /\ ListInv'
        /\ retained' \in Nat /\ deleted' \subseteq DOMAIN inboundView'
        /\ DOMAIN inboundView' \subseteq Addr
        /\ \A y \in DOMAIN inboundView' : inboundView'[y] \in Int
        /\ entries' \in [Addr -> Nat] /\ pass' \in [Addr -> Nat]
        /\ \A y \in Addr : pass'[y] <= entries'[y]
    <2>1. DOMAIN view \in SUBSET Addr /\ \A y \in DOMAIN view : view[y] \in Nat
      BY <1>4
    <2> QED
      BY <1>1, <2>1, BeginList
  <1>6. CountInv'
    <2>1. Start' = {o} /\ Needs(o)' = {} /\ Holders(o)' = {}
      BY <1>2, <1>3 DEF Start, Needs, Holders
    <2>2. \A y \in Start' : /\ inboundView'[y] \in Nat
                            /\ inboundView'[y] = Cardinality(Needs(y)') + Cardinality(Holders(y)')
      BY <1>2, <1>4, <2>1, FS_EmptySet
    <2>3. DOMAIN inboundView' = Start'
      BY <1>2, <1>4, <2>1
    <2> QED
      BY <1>2, <2>2, <2>3, BeginCount
  <1>7. TypeOK'
    BY <1>1, <1>2, <1>5 DEF TypeOK, subtreeVars, Objects
  <1>8. PlaceInv'
    BY <1>1, <1>2, <1>3 DEF PlaceInv, TypeOK, Objects, ForObject
  <1> QED
    BY <1>2, <1>5, <1>6, <1>7, <1>8 DEF DeleteInv

(* The deletion of a thread's locals, or an artifact that retained.py does *)
(* not analyze.                                                            *)
LEMMA ThreadBegins ==
    ASSUME TypeOK, PlaceInv, BeginThread
    PROVE  TypeOK' /\ PlaceInv' /\ DeleteInv'
  <1> DEFINE t == threadsDone + 1
             others(x) == {u \in DOMAIN heap.threads : Other(t, u) /\ x \in heap.threads[u].locals}
             view == [x \in heap.threads[t].locals |-> InboundCount(x) + Cardinality(others(x))]
  <1>1. /\ phase = "loops" /\ objectsLeft = {} /\ t <= Len(heap.threads) /\ threadsDone' = t
        /\ UNCHANGED <<heap, subtreeVars, objectRetained, objectsLeft, threadRetained>>
    BY DEF BeginThread
  <1>2. IsInput(heap) /\ t \in 1..Len(heap.threads) /\ t > 0 /\ t # 0
    BY <1>1 DEF TypeOK, IsInput
  <1>3. CASE phase' = "KeyError" /\ UNCHANGED deleteVars
    <2>1. TypeOK'
      BY <1>1, <1>2, <1>3 DEF TypeOK, subtreeVars, deleteVars, Objects
    <2>2. PlaceInv'
      BY <1>1, <1>2, <1>3 DEF PlaceInv
    <2> QED
      BY <1>3, <2>1, <2>2 DEF DeleteInv
  <1>4. CASE Begin(t, view)
    <2>1. item' = t /\ deleted' = {} /\ retained' = 0 /\ inboundView' = view /\ phase' = "delete"
      BY <1>4 DEF Begin
    <2>2. ~ForObject'
      BY <1>1, <1>2 DEF ForObject
    <2>3. DOMAIN view = heap.threads[t].locals /\ DOMAIN view \in SUBSET Addr
      BY <1>2, InputFacts
    <2>4. ASSUME NEW y \in DOMAIN view
          PROVE  /\ view[y] = InboundCount(y) + Cardinality(others(y))
                 /\ view[y] \in Nat
      <3>1. view[y] = InboundCount(y) + Cardinality(others(y))
        OBVIOUS
      <3>2. IsFiniteSet(others(y))
        <4>1. IsFiniteSet(DOMAIN heap.threads)
          BY <1>2, InputFacts
        <4>2. others(y) \subseteq DOMAIN heap.threads
          OBVIOUS
        <4> HIDE DEF others
        <4> QED
          BY <4>1, <4>2, FS_Subset
      <3> HIDE DEF others
      <3>3. Cardinality(others(y)) \in Nat /\ InboundCount(y) \in Nat
        BY <1>2, <3>2, FS_CardinalityType, InputFacts
      <3> QED
        BY <3>1, <3>3
    <2>5. /\ ListInv'
          /\ retained' \in Nat /\ deleted' \subseteq DOMAIN inboundView'
          /\ DOMAIN inboundView' \subseteq Addr
          /\ \A y \in DOMAIN inboundView' : inboundView'[y] \in Int
          /\ entries' \in [Addr -> Nat] /\ pass' \in [Addr -> Nat]
          /\ \A y \in Addr : pass'[y] <= entries'[y]
      <3>1. \A y \in DOMAIN view : view[y] \in Nat
        BY <2>4
      <3> HIDE DEF view, t
      <3> QED
        BY <1>4, <2>3, <3>1, BeginList
    <2>6. CountInv'
      <3>1. Start' = heap.threads[t].locals
        BY <1>1, <2>1, <2>2 DEF Start, Locals
      <3>2. ASSUME NEW y \in heap.threads[t].locals
            PROVE  Needs(y)' = Inbound(y) /\ Holders(y)' = others(y)
        <4>1. Needs(y)' = Inbound(y)
          BY <1>1, <2>2, HeapStays DEF Needs
        <4>2. Holders(y)' = others(y)
          BY <1>1, <2>1, <2>2 DEF Holders, Locals, Other
        <4> QED
          BY <4>1, <4>2
      <3>3. DOMAIN inboundView' = Start'
        BY <2>1, <2>3, <3>1
      <3> HIDE DEF others, view
      <3>4. \A y \in Start' : /\ inboundView'[y] \in Nat
                              /\ inboundView'[y] = Cardinality(Needs(y)') + Cardinality(Holders(y)')
        BY <2>1, <2>3, <2>4, <3>1, <3>2 DEF InboundCount
      <3> QED
        BY <2>1, <3>3, <3>4, BeginCount
    <2> HIDE DEF view
    <2>7. TypeOK'
      BY <1>1, <1>2, <2>1, <2>5 DEF TypeOK, subtreeVars, Objects
    <2>8. PlaceInv'
      BY <1>1, <1>2, <2>1, <2>2 DEF PlaceInv
    <2> QED
      BY <2>1, <2>5, <2>6, <2>7, <2>8 DEF DeleteInv
  <1> QED
    BY <1>3, <1>4 DEF BeginThread

(* Steps of one deletion start from the same, and have the same to find.   *)
LEMMA SameDeletion ==
    ASSUME UNCHANGED <<heap, threadsDone, item, subtreeRoots>>
    PROVE  /\ Objects' = Objects /\ (ForObject' <=> ForObject)
           /\ Skipped' = Skipped /\ Start' = Start /\ Goes' = Goes
           /\ \A y : Needs(y)' = Needs(y)
           /\ \A y : Holders(y)' = Holders(y)
           /\ \A o : WithObject(o)' = WithObject(o)
  <1>1. /\ Objects' = Objects
        /\ \A o : WithObject(o)' = WithObject(o)
        /\ \A t : WithThread(t)' = WithThread(t)
        /\ \A y : Inbound(y)' = Inbound(y)
    BY HeapStays
  <1>2. ForObject' <=> ForObject
    BY DEF ForObject
  <1>3. Skipped' = Skipped /\ Start' = Start
    BY <1>2 DEF Skipped, Start, Locals
  <1>4. Goes' = Goes
    <2>1. WithObject(item)' = WithObject(item) /\ WithThread(item)' = WithThread(item)
      BY <1>1 DEF WithObject, WithThread, GoneWithObject, GoneWithThread, Orphaned
    <2> QED
      BY <1>2, <2>1 DEF Goes
  <1>5. \A y : Needs(y)' = Needs(y)
    BY <1>1, <1>2 DEF Needs
  <1>6. \A y : Holders(y)' = Holders(y)
    BY <1>2 DEF Holders, Locals, Other
  <1> QED
    BY <1>1, <1>2, <1>3, <1>4, <1>5, <1>6

(* The state of a deletion, between any two of its steps.                  *)
Deleting == TypeOK /\ PlaceInv /\ SubtreeInv /\ phase = "delete" /\ CountInv /\ ListInv

(* What a deletion works with is finite.                                   *)
LEMMA DeletingFacts ==
    ASSUME Deleting
    PROVE  /\ IsInput(heap) /\ Objects \in SUBSET Addr
           /\ DOMAIN inboundView \in SUBSET Addr /\ deleted \subseteq DOMAIN inboundView
           /\ ForObject => item \in Objects /\ item \in Addr
           /\ ~ForObject => item \in 1..Len(heap.threads)
           /\ Skipped \subseteq Objects /\ Walked \subseteq Objects /\ Walked \subseteq deleted
           /\ Start \subseteq DOMAIN inboundView
           /\ \A y : Needs(y) \subseteq Objects /\ IsFiniteSet(Needs(y))
           /\ \A y : IsFiniteSet(Holders(y))
           /\ \A y \in Addr \ Start : Needs(y) = Inbound(y) /\ Holders(y) = {}
  <1>1. IsInput(heap) /\ Objects \in SUBSET Addr /\ DOMAIN inboundView \in SUBSET Addr
        /\ deleted \subseteq DOMAIN inboundView
    BY InputFacts DEF Deleting, TypeOK
  <1>2. /\ ForObject => item \in Objects /\ item \in Addr
        /\ ~ForObject => item \in 1..Len(heap.threads)
    BY <1>1 DEF Deleting, PlaceInv, TypeOK, ForObject
  <1>3. Skipped \subseteq Objects /\ Walked \subseteq Objects /\ Walked \subseteq deleted
    BY DEF Skipped, Walked, Deleting, TypeOK
  <1>4. Start \subseteq DOMAIN inboundView
    BY DEF Deleting, CountInv
  <1>5. \A y : Needs(y) \subseteq Objects /\ IsFiniteSet(Needs(y))
    BY <1>1, InputFacts, FS_EmptySet DEF Needs
  <1>6. \A y : IsFiniteSet(Holders(y))
    <2>1. IsFiniteSet(DOMAIN heap.threads)
      BY <1>1, InputFacts
    <2>2. \A y : Holders(y) \subseteq DOMAIN heap.threads
      BY DEF Holders
    <2> QED
      BY <2>1, <2>2, FS_Subset
  <1>7. \A y \in Addr \ Start : Needs(y) = Inbound(y) /\ Holders(y) = {}
    BY DEF Start, Needs, Holders
  <1> QED
    BY <1>1, <1>2, <1>3, <1>4, <1>5, <1>6, <1>7

(* A count that has come down to zero: nothing keeps the address.          *)
LEMMA ZeroCount ==
    ASSUME Deleting, NEW x \in DOMAIN inboundView
    PROVE  /\ inboundView[x] <= 0 => Needs(x) \subseteq Walked /\ Holders(x) = {}
           /\ x \notin deleted /\ Needs(x) \subseteq Walked /\ Holders(x) = {} => inboundView[x] = 0
  <1>1. inboundView[x] \in Nat
        /\ (x \in deleted => Needs(x) \subseteq Walked /\ Holders(x) = {})
        /\ (x \notin deleted => inboundView[x] = Cardinality(Needs(x) \ Walked)
                                                  + Cardinality(Holders(x)))
    BY DEF Deleting, CountInv
  <1> DEFINE N == Needs(x) \ Walked
             H == Holders(x)
  <1>2. IsFiniteSet(N) /\ IsFiniteSet(H)
    BY DeletingFacts, FS_Subset
  <1>3. N \subseteq {} <=> Needs(x) \subseteq Walked
    OBVIOUS
  <1> HIDE DEF N, H
  <1>4. /\ Cardinality(N) \in Nat /\ Cardinality(H) \in Nat
        /\ (Cardinality(N) = 0 <=> N = {}) /\ (Cardinality(H) = 0 <=> H = {})
    BY <1>2, FS_CardinalityType, FS_EmptySet
  <1>5. x \notin deleted => inboundView[x] = Cardinality(N) + Cardinality(H)
    BY <1>1 DEF N, H
  <1>6. ASSUME inboundView[x] <= 0, x \notin deleted PROVE N = {} /\ H = {}
    BY <1>1, <1>4, <1>5, <1>6
  <1>7. ASSUME x \notin deleted, N = {}, H = {} PROVE inboundView[x] = 0
    BY <1>4, <1>5, <1>7
  <1> QED
    BY <1>1, <1>3, <1>6, <1>7 DEF H

(* An object is deleted first, and alone if it is the root of a subtree.   *)
LEMMA ItemFirst ==
    ASSUME Deleting, ForObject, item \notin deleted \/ item \in subtreeRoots
    PROVE  DOMAIN inboundView = {item} /\ Walked = {} /\ deleted \subseteq {item}
  <1>1. Walked = {}
    BY DEF Deleting, CountInv, Walked
  <1>2. DOMAIN inboundView = {item}
    BY <1>1 DEF Deleting, CountInv, Start
  <1> QED
    BY <1>1, <1>2, DeletingFacts

(* Only Python's comparison of threads by value hides a holder.            *)
LEMMA NobodyHolds ==
    ASSUME Deleting, NoTwins, ~ForObject, NEW x \in Locals, Holders(x) = {}
    PROVE  ~\E u \in DOMAIN heap.threads \ {item} : x \in heap.threads[u].locals
  <1> SUFFICES ASSUME NEW u \in DOMAIN heap.threads \ {item}, x \in heap.threads[u].locals
               PROVE  FALSE
    OBVIOUS
  <1>1. item \in DOMAIN heap.threads /\ heap \in Inputs
    BY DeletingFacts, InputFacts DEF Deleting, PlaceInv
  <1>2. ~Other(item, u)
    BY DEF Holders
  <1>3. heap.language = "python" /\ heap.threads[u] = heap.threads[item]
    BY <1>2 DEF Other
  <1> QED
    BY <1>1, <1>3 DEF NoTwins

(* What is deleted goes.                                                   *)
LEMMA DeletedGoes ==
    ASSUME Deleting, ForObject \/ NoTwins, NEW x \in DOMAIN inboundView,
           Needs(x) \subseteq Walked, Holders(x) = {}
    PROVE  x \in Goes
  <1>1. Walked \subseteq Goes
    BY DeletingFacts DEF Deleting, CountInv
  <1>2. x \in Addr /\ (x \in Start \/ \E e \in Walked : x \in heap.refs[e])
    <2>1. DOMAIN inboundView = Start \cup UNION {heap.refs[e] : e \in Walked}
      BY DEF Deleting, CountInv
    <2>2. x \in Addr
      BY DeletingFacts
    <2> QED
      BY <2>1, <2>2
  <1>3. x \in Start \/ Inbound(x) # {}
    BY <1>2, DeletingFacts DEF Inbound
  <1>4. CASE ForObject
    <2>1. item \in Addr /\ Goes = WithObject(item) /\ Start = {item}
      BY <1>4, DeletingFacts DEF Goes, Start
    <2>2. CASE x = item
      BY <2>1, <2>2, WithObjectClosed
    <2>3. CASE x # item
      <3>1. Orphaned(Goes, x)
        BY <1>1, <1>3, <2>1, <2>3 DEF Needs, Orphaned
      <3> QED
        BY <1>2, <2>1, <3>1, WithObjectClosed DEF GoneWithObject
    <2> QED
      BY <2>2, <2>3
  <1>5. CASE ~ForObject
    <2>1. Goes = WithThread(item) /\ Start = Locals /\ Needs(x) = Inbound(x)
      BY <1>5 DEF Goes, Start, Needs
    <2>2. GoneWithThread(item, Goes)
      BY <2>1, WithThreadClosed
    <2>3. CASE x \in Locals
      <3>1. ~\E u \in DOMAIN heap.threads \ {item} : x \in heap.threads[u].locals
        BY <1>5, <2>3, NobodyHolds
      <3> QED
        BY <1>1, <1>2, <2>1, <2>2, <2>3, <3>1 DEF GoneWithThread, Locals
    <2>4. CASE x \notin Locals
      <3>1. Orphaned(Goes, x)
        BY <1>1, <1>3, <2>1, <2>4 DEF Orphaned
      <3> QED
        BY <1>2, <2>2, <2>4, <3>1 DEF GoneWithThread, Locals
    <2> QED
      BY <2>3, <2>4
  <1> QED
    BY <1>4, <1>5

(* What is counted for an address was not counted before: a subtree that   *)
(* is reused has nothing in common with what was walked or with another.   *)
LEMMA CountedOnce ==
    ASSUME Deleting, NEW x \in DOMAIN inboundView, x \notin deleted,
           Needs(x) \subseteq Walked, Holders(x) = {}
    PROVE  /\ x \notin Skipped => x \notin Covered
           /\ x \in Skipped => WithObject(x) \cap Covered = {}
           /\ Covered \in SUBSET Addr
  <1>0. /\ IsInput(heap) /\ Objects \in SUBSET Addr /\ x \in Addr
        /\ Skipped \subseteq Objects /\ Walked \subseteq Objects /\ Walked \subseteq deleted
    BY DeletingFacts
  <1>1. Strict(Skipped)
    BY DEF Deleting, SubtreeInv, Skipped, Strict
  <1>2. \A z \in Skipped : WithObject(z) \subseteq Skipped
    BY <1>0, <1>1, SubtreeGoes
  <1>3. Walked \cap Skipped = {}
    BY DEF Walked
  <1>4. Covered \in SUBSET Addr
    BY <1>0, <1>2 DEF Covered
  <1>5. ASSUME x \notin Skipped PROVE x \notin Covered
    BY <1>0, <1>2, <1>5 DEF Covered
  <1>6. ASSUME x \in Skipped, NEW z \in deleted \cap Skipped
        PROVE  WithObject(x) \cap WithObject(z) = {}
    <2>0. ForObject /\ x \in subtreeRoots /\ x # z /\ z \in Addr /\ z \in subtreeRoots
      BY <1>0, <1>6 DEF Skipped
    <2>1. x \notin WithObject(z)
      <3> SUFFICES ASSUME x \in WithObject(z) PROVE FALSE
        OBVIOUS
      <3>1. x # item
        BY <2>0, ItemFirst
      <3>2. Orphaned(WithObject(z), x)
        BY <2>0, ReferrersGo
      <3>3. Inbound(x) \subseteq Walked
        BY <3>1 DEF Needs
      <3> QED
        BY <1>2, <1>3, <3>2, <3>3 DEF Orphaned
    <2>2. z \notin WithObject(x)
      <3> SUFFICES ASSUME z \in WithObject(x) PROVE FALSE
        OBVIOUS
      <3>1. z # item
        BY <2>0, ItemFirst
      <3>2. Orphaned(WithObject(x), z)
        BY <1>0, <2>0, ReferrersGo
      <3>3. z \in DOMAIN inboundView /\ Needs(z) \subseteq Walked
        BY <1>6, DeletingFacts DEF Deleting, CountInv
      <3>4. Inbound(z) \subseteq Walked
        BY <3>1, <3>3 DEF Needs
      <3> QED
        BY <1>2, <1>3, <1>6, <3>2, <3>4 DEF Orphaned
    <2> QED
      BY <1>0, <2>0, <2>1, <2>2, NothingInCommon
  <1>7. ASSUME x \in Skipped PROVE WithObject(x) \cap Covered = {}
    BY <1>2, <1>3, <1>6, <1>7 DEF Covered
  <1> QED
    BY <1>4, <1>5, <1>7

(* The bytes counted for an address are those of what it adds.             *)
LEMMA CountedExactly ==
    ASSUME Deleting, NEW x \in DOMAIN inboundView, x \notin deleted,
           Needs(x) \subseteq Walked, Holders(x) = {},
           UNCHANGED <<heap, threadsDone, item, subtreeRoots>>, deleted' = deleted \cup {x},
           retained' = retained + (IF UsesSubtree(x) THEN objectRetained[x]
                                   ELSE IF x \in Objects THEN SizeOf(x) ELSE 0)
    PROVE  retained' = Sum(Size, Covered')
  <1>0. /\ IsInput(heap) /\ Objects \in SUBSET Addr /\ x \in Addr
        /\ Skipped \subseteq Objects /\ Covered \in SUBSET Addr
        /\ (UsesSubtree(x) <=> x \in Skipped)
    BY DeletingFacts, CountedOnce DEF UsesSubtree, Skipped
  <1>1. /\ Objects' = Objects /\ Skipped' = Skipped
        /\ \A o : WithObject(o)' = WithObject(o)
    BY SameDeletion
  <1>2. retained = Sum(Size, Covered) /\ Sum(Size, Covered) \in Nat /\ Size[x] \in Nat
    BY <1>0, SizesAdd DEF Deleting, CountInv
  <1>3. Covered' = ((deleted' \cap Objects) \ Skipped)
                    \cup UNION {WithObject(z) : z \in deleted' \cap Skipped}
    BY <1>1 DEF Covered, Walked
  <1>4. CASE x \in Skipped
    <2>1. Covered' = Covered \cup WithObject(x)
      BY <1>3, <1>4 DEF Covered, Walked
    <2>2. WithObject(x) \in SUBSET Addr /\ WithObject(x) \cap Covered = {}
      BY <1>0, <1>4, WithObjectClosed, CountedOnce
    <2>3. Sum(Size, Covered \cup WithObject(x)) = Sum(Size, Covered) + Sum(Size, WithObject(x))
      BY <1>0, <2>2, SizesAdd, SumDisjoint
    <2>4. objectRetained[x] = Sum(Size, WithObject(x))
      <3>1. Strict(subtreeRoots) /\ x \in subtreeRoots /\ subtreeRoots \subseteq Objects
            /\ objectRetained[x] = Bytes(WithObject(x))
        BY <1>4 DEF Deleting, SubtreeInv, Skipped, Strict
      <3>2. WithObject(x) \cap Objects = WithObject(x)
        BY <1>0, <3>1, SubtreeGoes
      <3>3. Bytes(WithObject(x)) = Sum(Size, WithObject(x) \cap Objects)
        BY BytesSum
      <3> QED
        BY <3>1, <3>2, <3>3
    <2>5. retained' = retained + objectRetained[x]
      BY <1>0, <1>4
    <2> QED
      BY <1>2, <2>1, <2>3, <2>4, <2>5
  <1>5. CASE x \in Objects \ Skipped
    <2>1. Covered' = Covered \cup {x} /\ x \notin Covered
      BY <1>3, <1>5, CountedOnce DEF Covered, Walked
    <2>2. retained' = retained + Size[x]
      BY <1>0, <1>5 DEF SizeOf
    <2>3. Sum(Size, Covered \cup {x}) = Size[x] + Sum(Size, Covered)
      BY <1>0, <2>1, SizesAdd
    <2> QED
      BY <1>2, <2>1, <2>2, <2>3
  <1>6. CASE x \notin Objects
    <2>1. Covered' = Covered
      BY <1>0, <1>3, <1>6 DEF Covered, Walked
    <2>2. retained' = retained + 0
      BY <1>0, <1>6
    <2> QED
      BY <1>2, <2>1, <2>2
  <1> QED
    BY <1>4, <1>5, <1>6

(* The counts, when x is walked or passed over: an address it refers to    *)
(* has one referrer less, whether it was counted before or is met now.     *)
LEMMA CountsGoDown ==
    ASSUME Deleting, NEW x \in DOMAIN inboundView, x \notin deleted,
           Needs(x) \subseteq Walked, Holders(x) = {},
           UNCHANGED <<heap, threadsDone, item, subtreeRoots>>, deleted' = deleted \cup {x},
           NEW new, new = (IF x \in Objects /\ ~UsesSubtree(x)
                           THEN heap.refs[x] \ deleted' ELSE {}),
           inboundView' = [y \in DOMAIN inboundView \cup new |->
               (IF y \in DOMAIN inboundView THEN inboundView[y] ELSE InboundCount(y))
               - (IF y \in new THEN 1 ELSE 0)]
    PROVE  /\ DOMAIN inboundView' = Start' \cup UNION {heap'.refs[e] : e \in Walked'}
           /\ \A y \in DOMAIN inboundView' :
                /\ inboundView'[y] \in Nat
                /\ y \in deleted' => Needs(y)' \subseteq Walked' /\ Holders(y)' = {}
                /\ y \notin deleted' => inboundView'[y] = Cardinality(Needs(y)' \ Walked')
                                                          + Cardinality(Holders(y)')
           /\ ForObject' /\ item' \in subtreeRoots' => Walked' = {}
  <1>0. /\ IsInput(heap) /\ Objects \in SUBSET Addr /\ x \in Addr
        /\ DOMAIN inboundView \in SUBSET Addr /\ deleted \subseteq DOMAIN inboundView
        /\ Walked \subseteq deleted
        /\ (UsesSubtree(x) <=> x \in Skipped)
    BY DeletingFacts DEF UsesSubtree, Skipped
  <1>1. /\ Objects' = Objects /\ Skipped' = Skipped /\ Start' = Start
        /\ (ForObject' <=> ForObject)
        /\ \A y : Needs(y)' = Needs(y)
        /\ \A y : Holders(y)' = Holders(y)
    BY SameDeletion
  <1> DEFINE walks == x \in Objects /\ x \notin Skipped
             D == DOMAIN inboundView
  <1>2. /\ walks => Walked' = Walked \cup {x} /\ new = heap.refs[x] \ deleted'
        /\ ~walks => Walked' = Walked /\ new = {}
    BY <1>0, <1>1 DEF Walked
  <1>3. D = Start \cup UNION {heap.refs[e] : e \in Walked}
    BY DEF Deleting, CountInv
  <1>4. DOMAIN inboundView' = D \cup new
    OBVIOUS
  <1>5. D \cup new = Start \cup UNION {heap.refs[e] : e \in Walked'}
    <2>1. CASE walks
      <3>1. heap.refs[x] \subseteq D \cup new
        BY <1>0, <1>2, <2>1
      <3>2. new \subseteq heap.refs[x]
        BY <1>2, <2>1
      <3> DEFINE A(W) == UNION {heap.refs[e] : e \in W}
      <3>3. A(Walked') = A(Walked) \cup heap.refs[x]
        <4>1. \A W : A(W \cup {x}) = A(W) \cup heap.refs[x]
          OBVIOUS
        <4>2. Walked' = Walked \cup {x}
          BY <1>2, <2>1
        <4> HIDE DEF A
        <4> QED
          BY <4>1, <4>2
      <3>4. D = Start \cup A(Walked)
        BY <1>3
      <3> HIDE DEF A, D
      <3>5. D \cup new = Start \cup A(Walked')
        BY <3>1, <3>2, <3>3, <3>4
      <3> QED
        BY <3>5 DEF A
    <2>2. CASE ~walks
      BY <1>2, <1>3, <2>2
    <2> QED
      BY <2>1, <2>2
  <1>6. \A y \in D : /\ inboundView[y] \in Nat
                     /\ y \in deleted => Needs(y) \subseteq Walked /\ Holders(y) = {}
                     /\ y \notin deleted => inboundView[y] = Cardinality(Needs(y) \ Walked)
                                                               + Cardinality(Holders(y))
    BY DEF Deleting, CountInv
  <1>7. \A y \in D \cup new : inboundView'[y] =
            (IF y \in D THEN inboundView[y] ELSE InboundCount(y)) - (IF y \in new THEN 1 ELSE 0)
    OBVIOUS
  <1>8. new \cap deleted' = {} /\ new \in SUBSET Addr
    BY <1>0, <1>2, InputFacts
  <1> HIDE DEF D
  <1>9. ASSUME NEW y \in D \cup new, y \in deleted'
        PROVE  inboundView'[y] \in Nat /\ Needs(y) \subseteq Walked' /\ Holders(y) = {}
    <2>1. y \notin new /\ y \in D
      BY <1>8, <1>9
    <2>2. inboundView'[y] = inboundView[y] - 0
      BY <1>7, <2>1
    <2>3. Walked \subseteq Walked'
      BY <1>2
    <2>4. Needs(y) \subseteq Walked /\ Holders(y) = {}
      BY <1>6, <1>9, <2>1
    <2>5. inboundView[y] \in Nat
      BY <1>6, <2>1
    <2>6. inboundView'[y] \in Nat
      BY <2>2, <2>5
    <2> QED
      BY <2>3, <2>4, <2>6
  <1>10. ASSUME NEW y \in D \cup new, y \notin deleted'
         PROVE  /\ inboundView'[y] \in Nat
                /\ inboundView'[y] = Cardinality(Needs(y) \ Walked') + Cardinality(Holders(y))
    <2>0. y \in Addr /\ y \notin deleted /\ y # x
      BY <1>0, <1>8, <1>10 DEF D
    <2> DEFINE N == Needs(y) \ Walked
               H == Holders(y)
    <2>1. IsFiniteSet(N) /\ IsFiniteSet(H)
      BY DeletingFacts, FS_Subset
    <2>2. Cardinality(N) \in Nat /\ Cardinality(H) \in Nat
      BY <2>1, FS_CardinalityType
    <2>3. (IF y \in D THEN inboundView[y] ELSE InboundCount(y)) = Cardinality(N) + Cardinality(H)
      <3>1. CASE y \in D
        BY <1>6, <2>0, <3>1
      <3>2. CASE y \notin D
        <4>1. Needs(y) = Inbound(y) /\ Holders(y) = {}
          BY <1>3, <2>0, <3>2, DeletingFacts
        <4>2. Inbound(y) \cap Walked = {}
          BY <1>3, <3>2 DEF Inbound
        <4>3. N = Inbound(y)
          BY <4>1, <4>2
        <4>4. Cardinality(H) = 0
          BY <4>1, FS_EmptySet
        <4> QED
          BY <2>2, <3>2, <4>3, <4>4 DEF InboundCount
      <3> QED
        BY <3>1, <3>2
    <2>4. CASE y \in new
      <3>1. walks /\ y \in heap.refs[x]
        BY <1>2, <2>4
      <3>2. x \in Inbound(y)
        BY <3>1 DEF Inbound
      <3>3. ~(ForObject /\ y = item)
        <4>1. ASSUME ForObject, y = item PROVE FALSE
          <5>1. DOMAIN inboundView = {item}
            BY <2>0, <4>1, ItemFirst
          <5> QED
            BY <2>0, <4>1, <5>1
        <4> QED
          BY <4>1
      <3>4. x \in N
        BY <1>0, <3>2, <3>3 DEF Needs
      <3>5. Needs(y) \ Walked' = N \ {x}
        BY <1>2, <3>1
      <3> HIDE DEF N, H
      <3>6. Cardinality(N \ {x}) = Cardinality(N) - 1 /\ Cardinality(N \ {x}) \in Nat
        BY <2>1, <3>4, FS_RemoveElement, FS_CardinalityType
      <3>7. inboundView'[y] = (Cardinality(N) + Cardinality(H)) - 1
        BY <1>7, <2>3, <2>4
      <3>8. inboundView'[y] = Cardinality(N \ {x}) + Cardinality(H)
        BY <2>2, <3>6, <3>7
      <3>9. inboundView'[y] \in Nat
        BY <2>2, <3>6, <3>8
      <3>10. /\ Cardinality(Needs(y) \ Walked') = Cardinality(N \ {x})
             /\ Cardinality(Holders(y)) = Cardinality(H)
        BY <3>5, Zenon DEF H
      <3> QED
        BY <3>8, <3>9, <3>10, Zenon
    <2>5. CASE y \notin new
      <3>1. Needs(y) \ Walked' = N
        <4>1. CASE walks
          <5>1. y \notin heap.refs[x]
            BY <1>2, <1>10, <2>5, <4>1
          <5>2. x \notin Needs(y)
            BY <5>1 DEF Needs, Inbound
          <5> QED
            BY <1>2, <4>1, <5>2
        <4>2. CASE ~walks
          BY <1>2, <4>2
        <4> QED
          BY <4>1, <4>2
      <3> HIDE DEF N, H
      <3>2. inboundView'[y] = (Cardinality(N) + Cardinality(H)) - 0
        BY <1>7, <2>3, <2>5
      <3>3. inboundView'[y] \in Nat /\ inboundView'[y] = Cardinality(N) + Cardinality(H)
        BY <2>2, <3>2
      <3>4. /\ Cardinality(Needs(y) \ Walked') = Cardinality(N)
            /\ Cardinality(Holders(y)) = Cardinality(H)
        BY <3>1, Zenon DEF H
      <3> QED
        BY <3>3, <3>4, Zenon
    <2> QED
      BY <2>4, <2>5
  <1>11. ASSUME ForObject, item \in subtreeRoots PROVE Walked' = {}
    <2>1. x = item /\ Walked = {}
      BY <1>11, ItemFirst
    <2>2. ~walks
      BY <1>11, <2>1 DEF Skipped
    <2> QED
      BY <1>2, <2>1, <2>2
  <1>12. DOMAIN inboundView' = Start' \cup UNION {heap'.refs[e] : e \in Walked'}
    BY <1>1, <1>4, <1>5
  <1>13. ASSUME NEW y \in DOMAIN inboundView'
         PROVE  /\ inboundView'[y] \in Nat
                /\ y \in deleted' => Needs(y)' \subseteq Walked' /\ Holders(y)' = {}
                /\ y \notin deleted' => inboundView'[y] = Cardinality(Needs(y)' \ Walked')
                                                          + Cardinality(Holders(y)')
    <2>1. y \in D \cup new /\ Needs(y)' = Needs(y) /\ Holders(y)' = Holders(y)
      BY <1>1, <1>4
    <2>2. CASE y \in deleted'
      BY <1>9, <2>1, <2>2
    <2>3. CASE y \notin deleted'
      BY <1>10, <2>1, <2>3
    <2> QED
      BY <2>2, <2>3
  <1>14. ForObject' /\ item' \in subtreeRoots' => Walked' = {}
    BY <1>1, <1>11
  <1> QED
    BY <1>12, <1>13, <1>14

(* One entry of the list: delete_unreferenced.                             *)
LEMMA DeleteStep ==
    ASSUME Deleting, NEW x \in Addr, DeleteUnreferenced(x)
    PROVE  TypeOK' /\ PlaceInv' /\ DeleteInv'
  <1>1. /\ x \in Examined /\ inboundView[x] <= 0 /\ pass' = [pass EXCEPT ![x] = @ - 1]
        /\ UNCHANGED <<heap, phase, subtreeVars, objectRetained, loopVars, threadRetained,
                       item, sortKey>>
    BY DEF DeleteUnreferenced
  <1>2. UNCHANGED <<heap, threadsDone, item, subtreeRoots, objectsLeft>> /\ phase' = "delete"
    BY <1>1 DEF subtreeVars, loopVars, Deleting
  <1>3. /\ entries \in [Addr -> Nat] /\ pass \in [Addr -> Nat]
        /\ \A y \in Addr : pass[y] <= entries[y]
        /\ happened \in BOOLEAN
        /\ \A y \in Addr :
            /\ entries[y] > 0 => y \in DOMAIN inboundView
            /\ y \in DOMAIN inboundView \ deleted => entries[y] > 0
            /\ pass[y] > 0 => y \in DOMAIN sortKey /\ sortKey[y] \in Nat
            /\ ~happened /\ pass[y] < entries[y] => y \in deleted
        /\ ~happened => sortKey = inboundView
    BY DEF Deleting, TypeOK, ListInv
  <1>4. pass[x] > 0 /\ entries[x] > 0 /\ x \in DOMAIN inboundView
    <2>1. pass[x] > 0
      BY <1>1 DEF Examined
    <2> QED
      BY <1>3, <2>1
  <1>5. /\ pass' \in [Addr -> Nat] /\ \A y \in Addr : pass'[y] <= pass[y]
        /\ \A y \in Addr : y # x => pass'[y] = pass[y]
        /\ pass'[x] = pass[x] - 1
    BY <1>1, <1>3, <1>4
  <1>6. /\ Objects' = Objects /\ (ForObject' <=> ForObject) /\ Goes' = Goes
        /\ Skipped' = Skipped /\ Start' = Start
        /\ \A y : Needs(y)' = Needs(y)
        /\ \A y : Holders(y)' = Holders(y)
        /\ \A o : WithObject(o)' = WithObject(o)
    BY <1>2, SameDeletion
  <1>7. Needs(x) \subseteq Walked /\ Holders(x) = {}
    BY <1>1, <1>4, ZeroCount
  <1>8. PlaceInv'
    BY <1>1, <1>2, <1>6 DEF Deleting, PlaceInv, loopVars
  <1>9. CASE x \in deleted /\ UNCHANGED <<inboundView, entries, deleted, retained, happened>>
    <2>1. TypeOK'
      <3>1. \A y \in Addr : pass'[y] <= entries'[y]
        BY <1>3, <1>5, <1>9
      <3> QED
        BY <1>1, <1>2, <1>5, <1>6, <1>9, <3>1 DEF Deleting, TypeOK, subtreeVars, loopVars
    <2>2. ListInv'
      <3>1. \A y \in Addr : pass'[y] > 0 => pass[y] > 0
        BY <1>3, <1>5
      <3>2. \A y \in Addr : pass'[y] < entries[y] => y = x \/ pass[y] < entries[y]
        BY <1>5
      <3> QED
        BY <1>1, <1>3, <1>9, <3>1, <3>2 DEF ListInv
    <2>3. CountInv'
      <3>1. Walked' = Walked /\ Covered' = Covered
        BY <1>6, <1>9 DEF Walked, Covered
      <3> QED
        BY <1>2, <1>6, <1>9, <3>1 DEF Deleting, CountInv
    <2> QED
      BY <1>8, <2>1, <2>2, <2>3 DEF DeleteInv
  <1>10. CASE x \notin deleted
    <2> DEFINE new == IF x \in Objects /\ ~UsesSubtree(x) THEN heap.refs[x] \ deleted' ELSE {}
    <2>1. /\ deleted' = deleted \cup {x} /\ happened' = TRUE
          /\ retained' = retained + (IF UsesSubtree(x) THEN objectRetained[x]
                                     ELSE IF x \in Objects THEN SizeOf(x) ELSE 0)
          /\ inboundView' = [y \in DOMAIN inboundView \cup new |->
                (IF y \in DOMAIN inboundView THEN inboundView[y] ELSE InboundCount(y))
                - (IF y \in new THEN 1 ELSE 0)]
          /\ entries' = [y \in Addr |-> entries[y] + (IF y \in new THEN 1 ELSE 0)
                                                  - (IF y = x THEN 1 ELSE 0)]
      BY <1>10 DEF DeleteUnreferenced
    <2>2. new \in SUBSET Addr /\ new \cap deleted' = {} /\ x \notin new
      BY <2>1, DeletingFacts, InputFacts
    <2>3. /\ DOMAIN inboundView' = Start' \cup UNION {heap'.refs[e] : e \in Walked'}
          /\ \A y \in DOMAIN inboundView' :
               /\ inboundView'[y] \in Nat
               /\ y \in deleted' => Needs(y)' \subseteq Walked' /\ Holders(y)' = {}
               /\ y \notin deleted' => inboundView'[y] = Cardinality(Needs(y)' \ Walked')
                                                         + Cardinality(Holders(y)')
          /\ ForObject' /\ item' \in subtreeRoots' => Walked' = {}
      <3>1. new = IF x \in Objects /\ ~UsesSubtree(x) THEN heap.refs[x] \ deleted' ELSE {}
        OBVIOUS
      <3> HIDE DEF new
      <3> QED
        BY <1>2, <1>4, <1>7, <1>10, <2>1, <3>1, CountsGoDown
    <2>4. DOMAIN inboundView' = DOMAIN inboundView \cup new
      BY <2>1
    <2>5. retained' = Sum(Size, Covered')
      BY <1>2, <1>4, <1>7, <1>10, <2>1, CountedExactly
    <2> HIDE DEF new
    <2>6. CountInv'
      <3>1. ForObject' \/ NoTwins => deleted' \subseteq Goes'
        <4>1. ForObject \/ NoTwins => deleted \subseteq Goes /\ x \in Goes
          BY <1>4, <1>7, DeletedGoes DEF Deleting, CountInv
        <4> QED
          BY <1>6, <2>1, <4>1
      <3>2. ForObject' /\ item' \notin deleted' => deleted' = {}
        <4>1. ASSUME ForObject, item \notin deleted PROVE x = item
          BY <1>4, <4>1, ItemFirst
        <4> QED
          BY <1>2, <1>6, <2>1, <4>1
      <3> QED
        BY <2>3, <2>5, <3>1, <3>2 DEF CountInv
    <2>7. \A y \in Addr : /\ y \in new => entries'[y] = entries[y] + 1
                          /\ y = x => entries'[y] = entries[y] - 1
                          /\ y \notin new /\ y # x => entries'[y] = entries[y]
      BY <1>3, <2>1, <2>2
    <2>8. entries' \in [Addr -> Nat] /\ \A y \in Addr : pass'[y] <= entries'[y]
      <3>1. ASSUME NEW y \in Addr PROVE entries'[y] \in Nat /\ pass'[y] <= entries'[y]
        <4>1. entries[y] \in Nat /\ pass[y] \in Nat /\ pass[y] <= entries[y]
          BY <1>3
        <4>2. CASE y = x
          BY <1>4, <1>5, <2>7, <4>1, <4>2
        <4>3. CASE y # x
          <5>1. pass'[y] = pass[y] /\ (entries'[y] = entries[y] \/ entries'[y] = entries[y] + 1)
            BY <1>5, <2>7, <4>3
          <5> QED
            BY <4>1, <5>1
        <4> QED
          BY <4>2, <4>3
      <3>2. entries' = [y \in Addr |-> entries'[y]]
        BY <2>1
      <3> QED
        BY <3>1, <3>2
    <2>9. ListInv'
      <3>1. ASSUME NEW y \in Addr
            PROVE  /\ entries'[y] > 0 => y \in DOMAIN inboundView'
                   /\ y \in DOMAIN inboundView' \ deleted' => entries'[y] > 0
                   /\ pass'[y] > 0 => y \in DOMAIN sortKey' /\ sortKey'[y] \in Nat
        <4>0. entries[y] \in Nat /\ pass[y] \in Nat /\ pass'[y] \in Nat /\ pass'[y] <= pass[y]
          BY <1>3, <1>5
        <4>1. ASSUME entries'[y] > 0 PROVE y \in DOMAIN inboundView'
          BY <1>3, <1>4, <2>4, <2>7, <4>1
        <4>2. ASSUME y \in DOMAIN inboundView', y \notin deleted' PROVE entries'[y] > 0
          <5>1. y # x /\ y \notin deleted
            BY <2>1, <4>2
          <5>2. CASE y \in new
            BY <2>7, <4>0, <5>2
          <5>3. CASE y \notin new
            BY <1>3, <2>4, <2>7, <4>2, <5>1, <5>3
          <5> QED
            BY <5>2, <5>3
        <4>3. ASSUME pass'[y] > 0 PROVE y \in DOMAIN sortKey' /\ sortKey'[y] \in Nat
          <5>1. pass[y] > 0
            BY <4>0, <4>3
          <5> QED
            BY <1>1, <1>3, <5>1
        <4> QED
          BY <4>1, <4>2, <4>3
      <3> QED
        BY <2>1, <3>1 DEF ListInv
    <2>10. TypeOK'
      <3>1. retained' \in Nat
        <4>1. objectRetained[x] \in Nat /\ SizeOf(x) \in Nat /\ retained \in Nat
          BY SizesAdd DEF Deleting, TypeOK, SizeOf
        <4> QED
          BY <2>1, <4>1
      <3>2. DOMAIN inboundView' \subseteq Addr /\ deleted' \subseteq DOMAIN inboundView'
        BY <1>4, <2>1, <2>2, <2>4, DeletingFacts
      <3>3. \A y \in DOMAIN inboundView' : inboundView'[y] \in Int
        <4>1. \A y \in DOMAIN inboundView' : inboundView'[y] \in Nat
          BY <2>3, Zenon
        <4> QED
          BY <4>1
      <3> QED
        BY <1>1, <1>2, <1>5, <1>6, <2>8, <3>1, <3>2, <3>3 
          DEF Deleting, TypeOK, subtreeVars, loopVars
    <2> QED
      BY <1>8, <2>6, <2>9, <2>10 DEF DeleteInv
  <1> QED
    BY <1>9, <1>10 DEF DeleteUnreferenced

(* After a pass that deletes nothing, everything counted that is not       *)
(* deleted is still referred to: the list is sorted, so the first entry    *)
(* that stops the pass has the least count of those left.                  *)
LEMMA RestIsKept ==
    ASSUME Deleting, EndPass, ~happened
    PROVE  \A y \in DOMAIN inboundView \ deleted : inboundView[y] > 0
  <1> SUFFICES ASSUME NEW y \in DOMAIN inboundView \ deleted PROVE inboundView[y] > 0
    OBVIOUS
  <1>1. /\ y \in Addr /\ entries[y] > 0 /\ ~(pass[y] < entries[y]) /\ sortKey = inboundView
        /\ pass[y] \in Nat /\ entries[y] \in Nat
    BY DeletingFacts DEF Deleting, ListInv, TypeOK
  <1>2. pass[y] > 0
    BY <1>1
  <1>3. \A z \in Addr : pass[z] > 0 => sortKey[z] \in Nat
    BY DEF Deleting, ListInv
  <1> DEFINE K == {sortKey[z] : z \in {w \in Addr : pass[w] > 0}}
  <1>4. K \in SUBSET Nat /\ K # {}
    BY <1>1, <1>2, <1>3
  <1>5. PICK m \in K : \A k \in K : m <= k
    <2> HIDE DEF K
    <2> QED
      BY <1>4, LeastNat
  <1>6. PICK z \in Addr : pass[z] > 0 /\ m = sortKey[z]
    OBVIOUS
  <1>7. z \in Examined
    BY <1>5, <1>6 DEF Examined
  <1>8. PICK x \in Examined : inboundView[x] > 0
    BY <1>7 DEF EndPass
  <1>9. x \in Addr /\ pass[x] > 0 /\ sortKey[x] <= sortKey[y]
    BY <1>1, <1>2 DEF Examined
  <1>10. sortKey[x] \in Nat /\ sortKey[y] \in Nat
    BY <1>1, <1>2, <1>3, <1>9
  <1> QED
    BY <1>1, <1>8, <1>9, <1>10

(* The deletion of an object has counted the bytes of all that goes.       *)
LEMMA ObjectExact ==
    ASSUME Deleting, ForObject, \A y \in DOMAIN inboundView \ deleted : inboundView[y] > 0
    PROVE  retained = Bytes(WithObject(item))
  <1> DEFINE sub == deleted \cap Skipped
             D == deleted \cup UNION {WithObject(z) : z \in sub}
  <1>0. /\ IsInput(heap) /\ item \in Addr /\ deleted \in SUBSET Addr
        /\ Objects \in SUBSET Addr /\ Skipped \subseteq Objects /\ Strict(Skipped)
        /\ Start \subseteq DOMAIN inboundView
    BY DeletingFacts DEF Deleting, SubtreeInv, Skipped
  <1>1. \A z \in sub : /\ WithObject(z) \subseteq Skipped /\ z \in WithObject(z)
                       /\ WithObject(z) \in SUBSET Addr
                       /\ \A e \in WithObject(z) : heap.refs[e] \subseteq WithObject(z)
    BY <1>0, SubtreeGoes, WithObjectClosed
  <1>2. D \in SUBSET Addr
    BY <1>0, <1>1
  <1>3. item \in deleted
    <2>1. ASSUME item \notin deleted PROVE FALSE
      <3>1. item \in DOMAIN inboundView
        BY <1>0 DEF Start
      <3>2. Needs(item) \subseteq Walked /\ Holders(item) = {}
        BY DEF Needs, Holders
      <3>3. inboundView[item] = 0
        BY <2>1, <3>1, <3>2, ZeroCount
      <3> QED
        BY <2>1, <3>1, <3>3
    <2> QED
      BY <2>1
  <1>4. ASSUME NEW y \in Addr, Orphaned(D, y) PROVE y \in D
    <2>1. CASE \E e \in Inbound(y) : \E z \in sub : e \in WithObject(z)
      BY <1>1, <2>1 DEF Inbound
    <2>2. CASE ~\E e \in Inbound(y) : \E z \in sub : e \in WithObject(z)
      <3>1. Inbound(y) \subseteq Walked /\ Inbound(y) # {}
        BY <1>1, <1>4, <2>2 DEF Orphaned, Walked, Inbound
      <3>2. y \in DOMAIN inboundView
        BY <3>1 DEF Inbound, Deleting, CountInv
      <3>3. Needs(y) \subseteq Walked /\ Holders(y) = {}
        BY <3>1 DEF Needs, Holders
      <3>4. y \notin deleted => inboundView[y] = 0
        BY <3>2, <3>3, ZeroCount
      <3>5. y \in deleted
        BY <3>2, <3>4
      <3> QED
        BY <3>5
    <2> QED
      BY <2>1, <2>2
  <1>5. WithObject(item) \subseteq D
    <2>1. GoneWithObject(item, D)
      BY <1>3, <1>4 DEF GoneWithObject
    <2> HIDE DEF D
    <2> QED
      BY <1>0, <1>2, <2>1, WithObjectLeast
  <1>6. D \subseteq WithObject(item)
    <2>1. deleted \subseteq WithObject(item)
      BY DEF Deleting, CountInv, Goes
    <2>2. \A z \in sub : WithObject(z) \subseteq WithObject(item)
      BY <1>0, <2>1, GoesAlong
    <2> QED
      BY <2>1, <2>2
  <1>7. WithObject(item) \cap Objects = Covered
    <2>1. D \cap Objects = Covered
      BY <1>0, <1>1 DEF Covered, Walked
    <2> HIDE DEF D
    <2> QED
      BY <1>5, <1>6, <2>1
  <1>8. retained = Sum(Size, Covered)
    BY DEF Deleting, CountInv
  <1> QED
    BY <1>7, <1>8, BytesSum, Zenon

(* So has the deletion of a thread's locals.                               *)
LEMMA ThreadExact ==
    ASSUME Deleting, NoTwins, ~ForObject,
           \A y \in DOMAIN inboundView \ deleted : inboundView[y] > 0
    PROVE  retained = Bytes(WithThread(item))
  <1>0. /\ IsInput(heap) /\ item \in 1..Len(heap.threads) /\ deleted \in SUBSET Addr
        /\ Start \subseteq DOMAIN inboundView
    BY DeletingFacts
  <1>1. Skipped = {} /\ Walked = deleted \cap Objects /\ Covered = deleted \cap Objects
        /\ Start = Locals
    BY DEF Skipped, Walked, Covered, Start
  <1>2. ASSUME NEW y \in DOMAIN inboundView, Inbound(y) \subseteq deleted, Holders(y) = {}
        PROVE  y \in deleted
    <2>1. Needs(y) \subseteq Walked
      BY <1>1, <1>2 DEF Needs, Inbound
    <2>2. y \notin deleted => inboundView[y] = 0
      BY <1>2, <2>1, ZeroCount
    <2> QED
      BY <2>2
  <1>3. ASSUME NEW y \in Addr, y \in Locals, Inbound(y) \subseteq deleted,
               ~\E u \in DOMAIN heap.threads \ {item} : y \in heap.threads[u].locals
        PROVE  y \in deleted
    <2>1. y \in DOMAIN inboundView
      BY <1>0, <1>1, <1>3
    <2>2. Holders(y) = {}
      <3>1. ASSUME NEW u \in DOMAIN heap.threads, Other(item, u), y \in heap.threads[u].locals
            PROVE  FALSE
        <4>1. u # item
          BY <3>1 DEF Other
        <4> QED
          BY <1>3, <3>1, <4>1
      <3> QED
        BY <3>1 DEF Holders
    <2> QED
      BY <1>2, <1>3, <2>1, <2>2
  <1>4. ASSUME NEW y \in Addr, y \notin Locals, Orphaned(deleted, y) PROVE y \in deleted
    <2>1. y \in DOMAIN inboundView
      <3>1. PICK e \in Walked : y \in heap.refs[e]
        BY <1>1, <1>4 DEF Orphaned, Inbound
      <3> QED
        BY <3>1 DEF Deleting, CountInv
    <2>2. Holders(y) = {}
      BY <1>4 DEF Holders
    <2> QED
      BY <1>2, <1>4, <2>1, <2>2 DEF Orphaned
  <1>5. WithThread(item) \subseteq deleted
    <2>1. GoneWithThread(item, deleted)
      BY <1>3, <1>4 DEF GoneWithThread, Locals
    <2> QED
      BY <1>0, <2>1, WithThreadLeast
  <1>6. deleted \subseteq WithThread(item)
    BY DEF Deleting, CountInv, Goes
  <1>7. WithThread(item) \cap Objects = Covered
    BY <1>1, <1>5, <1>6
  <1>8. retained = Sum(Size, Covered)
    BY DEF Deleting, CountInv
  <1> QED
    BY <1>7, <1>8, BytesSum, Zenon

(* The next pass of a deletion.                                            *)
LEMMA PassAgain ==
    ASSUME Deleting, EndPass, happened
    PROVE  TypeOK' /\ PlaceInv' /\ SubtreeInv' /\ DeleteInv'
  <1>1. /\ pass' = entries /\ sortKey' = inboundView /\ happened' = FALSE
        /\ UNCHANGED <<phase, objectRetained, threadRetained, heap, subtreeVars, loopVars, item,
                       inboundView, entries, deleted, retained>>
    BY DEF EndPass
  <1>2. UNCHANGED <<heap, threadsDone, item, subtreeRoots, objectsLeft>>
    BY <1>1 DEF subtreeVars, loopVars
  <1>3. /\ Objects' = Objects /\ (ForObject' <=> ForObject) /\ Goes' = Goes
        /\ Skipped' = Skipped /\ Start' = Start
        /\ \A y : Needs(y)' = Needs(y)
        /\ \A y : Holders(y)' = Holders(y)
        /\ \A o : WithObject(o)' = WithObject(o)
    BY <1>2, SameDeletion
  <1>4. TypeOK'
    BY <1>1, <1>2, <1>3 DEF Deleting, TypeOK, subtreeVars, loopVars
  <1>5. PlaceInv'
    BY <1>1, <1>2, <1>3 DEF Deleting, PlaceInv
  <1>6. SubtreeInv'
    BY <1>1, <1>2, <1>3, HeapStays DEF Deleting, SubtreeInv, Strict
  <1>7. CountInv'
    <2>1. Walked' = Walked /\ Covered' = Covered
      BY <1>1, <1>3 DEF Walked, Covered
    <2> QED
      BY <1>1, <1>2, <1>3, <2>1 DEF Deleting, CountInv
  <1>8. ListInv'
    <2>1. \A y \in Addr : /\ entries[y] > 0 => y \in DOMAIN inboundView
                          /\ y \in DOMAIN inboundView \ deleted => entries[y] > 0
      BY DEF Deleting, ListInv
    <2>2. \A y \in DOMAIN inboundView : inboundView[y] \in Nat
      BY DEF Deleting, CountInv
    <2>3. \A y \in Addr : ~(entries[y] < entries[y])
      BY DEF Deleting, TypeOK
    <2> QED
      BY <1>1, <2>1, <2>2, <2>3 DEF ListInv
  <1> QED
    BY <1>4, <1>5, <1>6, <1>7, <1>8 DEF DeleteInv

(* The result of a deletion is stored.                                     *)
LEMMA ResultStored ==
    ASSUME Deleting, ResultInv, EndPass, ~happened
    PROVE  TypeOK' /\ PlaceInv' /\ SubtreeInv' /\ DeleteInv' /\ ResultInv'
  <1>1. /\ phase' = "loops"
        /\ IF ForObject
           THEN /\ objectRetained' = [objectRetained EXCEPT ![item] = retained]
                /\ UNCHANGED threadRetained
           ELSE /\ threadRetained' =
                     [n \in DOMAIN threadRetained \cup {heap.threads[item].name} |->
                        IF n = heap.threads[item].name THEN retained ELSE threadRetained[n]]
                /\ UNCHANGED objectRetained
        /\ UNCHANGED <<pass, sortKey, happened, heap, subtreeVars, loopVars, item,
                       inboundView, entries, deleted, retained>>
    BY DEF EndPass
  <1>2. UNCHANGED <<heap, threadsDone, item, subtreeRoots, objectsLeft>>
    BY <1>1 DEF subtreeVars, loopVars
  <1>3. /\ Objects' = Objects /\ (ForObject' <=> ForObject)
        /\ \A y : Inbound(y)' = Inbound(y)
        /\ \A o : WithObject(o)' = WithObject(o)
        /\ \A o : Bytes(WithObject(o))' = Bytes(WithObject(o))
        /\ \A t : Bytes(WithThread(t))' = Bytes(WithThread(t))
    BY <1>2, SameDeletion, HeapStays
  <1>4. \A y \in DOMAIN inboundView \ deleted : inboundView[y] > 0
    BY RestIsKept
  <1>5. TypeOK /\ PlaceInv /\ SubtreeInv /\ phase = "delete" /\ IsInput(heap)
    BY DEF Deleting, TypeOK
  <1>6. DeleteInv'
    BY <1>1 DEF DeleteInv
  <1>7. PlaceInv'
    BY <1>1, <1>2, <1>3, <1>5 DEF PlaceInv
  <1>8. \A x \in Addr : objectRetained'[x] =
            IF ForObject /\ x = item THEN retained ELSE objectRetained[x]
    BY <1>1, <1>5 DEF TypeOK
  <1>9. TypeOK'
    <2>1. objectRetained' \in [Addr -> Nat]
      BY <1>1, <1>5 DEF TypeOK
    <2> QED
      BY <1>1, <1>2, <1>3, <1>5, <2>1 DEF TypeOK, subtreeVars, loopVars
  <1>10. ForObject => retained = Bytes(WithObject(item))
    BY <1>4, ObjectExact
  <1>11. SubtreeInv'
    <2>1. Strict(subtreeRoots)'
      BY <1>2, <1>3, <1>5 DEF SubtreeInv, Strict
    <2>2. \A r \in subtreeRoots : objectRetained'[r] = Bytes(WithObject(r))
      <3>1. subtreeRoots \subseteq Addr
        BY <1>5, InputFacts DEF TypeOK
      <3> QED
        BY <1>5, <1>8, <1>10, <3>1 DEF SubtreeInv
    <2> QED
      BY <1>2, <1>3, <2>1, <2>2 DEF SubtreeInv
  <1>12. /\ \A o \in Finished : objectRetained[o] = Bytes(WithObject(o))
         /\ DOMAIN threadRetained = {NameOf(t) : t \in 1..ThreadsFinished}
         /\ \A t \in 1..ThreadsFinished :
               NoTwins /\ (\A u \in t + 1..ThreadsFinished : NameOf(u) # NameOf(t)) =>
                   threadRetained[NameOf(t)] = Bytes(WithThread(t))
    BY <1>5 DEF ResultInv
  <1>13. \A o \in Finished' : objectRetained'[o] = Bytes(WithObject(o))
    <2>1. ASSUME NEW o \in Finished' PROVE objectRetained'[o] = Bytes(WithObject(o))
      <3>1. o \in Objects \ objectsLeft /\ o \in Addr
        BY <1>2, <1>3, <1>5, InputFacts DEF Finished
      <3>2. CASE ForObject /\ o = item
        BY <1>8, <1>10, <3>1, <3>2
      <3>3. CASE ~(ForObject /\ o = item)
        <4>1. o \in Finished
          BY <3>1, <3>3 DEF Finished
        <4> QED
          BY <1>8, <1>12, <3>1, <3>3, <4>1
      <3> QED
        BY <3>2, <3>3
    <2> QED
      BY <2>1
  <1>14. /\ DOMAIN threadRetained' = {NameOf(t) : t \in 1..ThreadsFinished'}
         /\ \A t \in 1..ThreadsFinished' :
               NoTwins /\ (\A u \in t + 1..ThreadsFinished' : NameOf(u) # NameOf(t)) =>
                   threadRetained'[NameOf(t)] = Bytes(WithThread(t))
    <2>1. CASE ForObject
      <3>1. ThreadsFinished' = ThreadsFinished /\ threadRetained' = threadRetained
        BY <1>1, <1>2, <1>3, <2>1 DEF ThreadsFinished
      <3> QED
        BY <1>12, <3>1
    <2>2. CASE ~ForObject
      <3> DEFINE n == threadsDone
                 m == threadsDone - 1
      <3>1. /\ ThreadsFinished' = n /\ ThreadsFinished = m /\ n = item
            /\ n \in Nat /\ n > 0 /\ m \in Nat /\ n = m + 1
        BY <1>1, <1>2, <1>3, <1>5, <2>2 DEF ThreadsFinished, PlaceInv, TypeOK, ForObject, IsInput
      <3>2. /\ DOMAIN threadRetained' = DOMAIN threadRetained \cup {NameOf(n)}
            /\ threadRetained'[NameOf(n)] = retained
            /\ \A k \in DOMAIN threadRetained :
                  k # NameOf(n) => threadRetained'[k] = threadRetained[k]
        BY <1>1, <2>2, <3>1 DEF NameOf
      <3>3. NoTwins => retained = Bytes(WithThread(n))
        BY <1>4, <2>2, <3>1, ThreadExact
      <3>4. \A t : t \in 1..n <=> t \in 1..m \/ t = n
        BY <3>1
      <3> HIDE DEF n, m
      <3>5. DOMAIN threadRetained' = {NameOf(t) : t \in 1..n}
        BY <1>12, <3>1, <3>2, <3>4
      <3>6. ASSUME NEW t \in 1..n, NoTwins, \A u \in t + 1..n : NameOf(u) # NameOf(t)
            PROVE  threadRetained'[NameOf(t)] = Bytes(WithThread(t))
        <4>1. CASE t = n
          BY <3>2, <3>3, <3>6, <4>1
        <4>2. CASE t # n
          <5>1. t \in 1..m /\ n \in t + 1..n /\ \A u \in t + 1..m : u \in t + 1..n
            BY <3>1, <4>2
          <5>2. NameOf(n) # NameOf(t)
            BY <3>6, <5>1
          <5>3. /\ threadRetained[NameOf(t)] = Bytes(WithThread(t))
                /\ NameOf(t) \in DOMAIN threadRetained
            BY <1>12, <3>1, <3>6, <5>1
          <5> QED
            BY <3>2, <5>2, <5>3
        <4> QED
          BY <4>1, <4>2
      <3> QED
        BY <3>1, <3>5, <3>6
    <2> QED
      BY <2>1, <2>2
  <1>15. ResultInv'
    <2>1. \A t : NameOf(t)' = NameOf(t)
      BY <1>2 DEF NameOf
    <2> QED
      BY <1>3, <1>13, <1>14, <2>1 DEF ResultInv
  <1> QED
    BY <1>6, <1>7, <1>9, <1>11, <1>15

(* Steps that neither store a result nor take one back.                    *)
LEMMA ResultsKept ==
    ASSUME ResultInv, UNCHANGED <<heap, objectRetained, threadRetained>>,
           Finished' \subseteq Finished, ThreadsFinished' = ThreadsFinished,
           phase \in {"loops", "delete", "done"}
    PROVE  ResultInv'
  <1>1. /\ \A o : Bytes(WithObject(o))' = Bytes(WithObject(o))
        /\ \A t : Bytes(WithThread(t))' = Bytes(WithThread(t))
        /\ \A t : NameOf(t)' = NameOf(t)
    BY HeapStays DEF NameOf
  <1> QED
    BY <1>1 DEF ResultInv

(* The invariant holds at first.                                           *)
LEMMA InitInv == Init => IInv
  <1> SUFFICES ASSUME Init PROVE IInv
    OBVIOUS
  <1>1. heap \in Inputs /\ IsInput(heap)
    BY RetainedAssumption DEF Init
  <1>2. TypeOK
    BY <1>1 DEF Init, TypeOK, EmptyBagOf, IsInput
  <1>3. PlaceInv
    BY <1>1 DEF Init, PlaceInv
  <1>4. SubtreeInv
    BY DEF Init, SubtreeInv, Strict
  <1>5. DeleteInv /\ ResultInv
    BY DEF Init, DeleteInv, ResultInv
  <1> QED
    BY <1>2, <1>3, <1>4, <1>5 DEF IInv

(* Every step of the calculator keeps the invariant.                       *)
LEMMA NextInv == IInv /\ [Next]_vars => IInv'
  <1> SUFFICES ASSUME IInv, [Next]_vars PROVE IInv'
    OBVIOUS
  <1>0. TypeOK /\ PlaceInv /\ SubtreeInv /\ DeleteInv /\ ResultInv
    BY DEF IInv
  <1>1. phase = "delete" => Deleting
    BY <1>0 DEF Deleting, DeleteInv
  <1>2. ASSUME UNCHANGED <<heap, subtreeRoots, objectRetained>> PROVE SubtreeInv'
    BY <1>0, <1>2, HeapStays DEF SubtreeInv, Strict
  <1>3. CASE FindLeaves
    <2>1. phase' = "subtrees" /\ heap' = heap /\ UNCHANGED <<loopVars, threadRetained>>
          /\ phase = "leaves"
      BY <1>3 DEF FindLeaves
    <2>2. TypeOK' /\ SubtreeInv'
      BY <1>0, <1>3, SearchTypes, SearchFindsSubtrees
    <2>3. PlaceInv' /\ DeleteInv' /\ ResultInv'
      BY <1>0, <2>1 DEF PlaceInv, DeleteInv, ResultInv, loopVars
    <2> QED
      BY <2>2, <2>3 DEF IInv
  <1>4. ASSUME NEW x \in Addr, VisitFront(x) PROVE IInv'
    <2>1. phase' = "subtrees" /\ heap' = heap /\ UNCHANGED <<loopVars, threadRetained>>
          /\ phase = "subtrees"
      BY <1>4, VisitSum
    <2>2. TypeOK' /\ SubtreeInv'
      BY <1>0, <1>4, SearchTypes, SearchFindsSubtrees
    <2>3. PlaceInv' /\ DeleteInv' /\ ResultInv'
      BY <1>0, <2>1 DEF PlaceInv, DeleteInv, ResultInv, loopVars
    <2> QED
      BY <2>2, <2>3 DEF IInv
  <1>5. CASE EndRound
    <2>1. /\ UNCHANGED <<heap, subtreeRoots, objectRetained, threadsDone, threadRetained>>
          /\ phase = "subtrees"
          /\ \/ phase' = "loops" /\ objectsLeft' = Objects
             \/ UNCHANGED <<phase, objectsLeft>>
      BY <1>5 DEF EndRound
    <2>2. threadsDone' = 0 /\ threadRetained' = <<>> /\ Objects' = Objects
      BY <1>0, <2>1 DEF PlaceInv, Objects
    <2>3. TypeOK' /\ SubtreeInv'
      BY <1>0, <1>2, <1>5, <2>1, SearchTypes
    <2>4. PlaceInv'
      BY <1>0, <2>1, <2>2 DEF PlaceInv
    <2>5. DeleteInv'
      BY <2>1 DEF DeleteInv
    <2>6. ResultInv'
      <3>1. CASE phase' = "loops" /\ objectsLeft' = Objects
        <4>1. Finished' = {} /\ ThreadsFinished' = 0
          BY <2>1, <2>2, <3>1 DEF Finished, ThreadsFinished
        <4>2. 1..0 = {} /\ DOMAIN threadRetained' = {}
          BY <2>2
        <4> QED
          BY <4>1, <4>2 DEF ResultInv
      <3>2. CASE phase' = "subtrees"
        BY <3>2 DEF ResultInv
      <3> QED
        BY <2>1, <3>1, <3>2
    <2> QED
      BY <2>3, <2>4, <2>5, <2>6 DEF IInv
  <1>6. ASSUME NEW o \in Addr, BeginObject(o) PROVE IInv'
    <2>1. /\ phase = "loops" /\ o \in objectsLeft /\ phase' = "delete" /\ item' = o
          /\ objectsLeft' = objectsLeft \ {o}
          /\ UNCHANGED <<heap, subtreeRoots, objectRetained, threadsDone, threadRetained>>
      BY <1>6 DEF BeginObject, Begin, subtreeVars
    <2>2. threadsDone = 0
      BY <1>0, <2>1 DEF PlaceInv, TypeOK
    <2>3. ThreadsFinished' = ThreadsFinished /\ Finished' \subseteq Finished
      BY <2>1, <2>2 DEF ThreadsFinished, Finished, ForObject, Objects
    <2>4. ResultInv'
      BY <1>0, <2>1, <2>3, ResultsKept
    <2> QED
      BY <1>0, <1>2, <1>6, <2>1, <2>4, ObjectBegins DEF IInv
  <1>7. CASE BeginThread
    <2>1. /\ phase = "loops" /\ threadsDone' = threadsDone + 1 /\ phase' \in {"delete", "KeyError"}
          /\ UNCHANGED <<heap, subtreeRoots, objectRetained, objectsLeft, threadRetained>>
      BY <1>7 DEF BeginThread, Begin, subtreeVars
    <2>2. ResultInv'
      <3>1. CASE phase' = "KeyError"
        BY <3>1 DEF ResultInv
      <3>2. CASE phase' = "delete"
        <4>1. threadsDone \in Nat
          BY <1>0 DEF TypeOK, IsInput
        <4>2. ThreadsFinished' = ThreadsFinished
          BY <2>1, <3>2, <4>1 DEF ThreadsFinished, ForObject
        <4>3. Finished' \subseteq Finished
          BY <2>1, <3>2 DEF Finished, Objects
        <4> QED
          BY <1>0, <2>1, <4>2, <4>3, ResultsKept
      <3> QED
        BY <2>1, <3>1, <3>2
    <2> QED
      BY <1>0, <1>2, <1>7, <2>1, <2>2, ThreadBegins DEF IInv
  <1>8. ASSUME NEW x \in Addr, DeleteUnreferenced(x) PROVE IInv'
    <2>1. /\ phase = "delete" /\ phase' = "delete"
          /\ UNCHANGED <<heap, subtreeRoots, objectRetained, objectsLeft, threadsDone,
                         threadRetained, item>>
      BY <1>8 DEF DeleteUnreferenced, subtreeVars, loopVars
    <2>2. TypeOK' /\ PlaceInv' /\ DeleteInv'
      BY <1>1, <1>8, <2>1, DeleteStep
    <2>3. ThreadsFinished' = ThreadsFinished /\ Finished' \subseteq Finished
      BY <2>1 DEF ThreadsFinished, Finished, ForObject, Objects
    <2>4. ResultInv'
      BY <1>0, <2>1, <2>3, ResultsKept
    <2> QED
      BY <1>2, <2>1, <2>2, <2>4 DEF IInv
  <1>9. CASE EndPass
    <2>1. Deleting
      BY <1>1, <1>9 DEF EndPass
    <2>2. CASE happened
      <3>1. /\ phase = "delete" /\ phase' = "delete"
            /\ UNCHANGED <<heap, objectRetained, objectsLeft, threadsDone, threadRetained, item>>
        BY <1>9, <2>2 DEF EndPass, loopVars
      <3>2. ThreadsFinished' = ThreadsFinished /\ Finished' \subseteq Finished
        BY <3>1 DEF ThreadsFinished, Finished, ForObject, Objects
      <3>3. ResultInv'
        BY <1>0, <3>1, <3>2, ResultsKept
      <3> QED
        BY <1>9, <2>1, <2>2, <3>3, PassAgain DEF IInv
    <2>3. CASE ~happened
      BY <1>0, <1>9, <2>1, <2>3, ResultStored DEF IInv
    <2> QED
      BY <2>2, <2>3
  <1>10. CASE Finish
    <2>1. /\ phase = "loops" /\ objectsLeft = {} /\ threadsDone = Len(heap.threads)
          /\ phase' = "done"
          /\ UNCHANGED <<heap, subtreeRoots, objectRetained, objectsLeft, threadsDone,
                         threadRetained, item>>
      BY <1>10 DEF Finish, subtreeVars, loopVars, deleteVars
    <2>2. ThreadsFinished' = ThreadsFinished /\ Finished' \subseteq Finished
      BY <2>1 DEF ThreadsFinished, Finished, Objects
    <2>3. ResultInv'
      BY <1>0, <2>1, <2>2, ResultsKept
    <2>4. TypeOK'
      BY <1>0, <1>10, SearchTypes
    <2>5. PlaceInv' /\ DeleteInv'
      BY <1>0, <2>1 DEF PlaceInv, DeleteInv
    <2> QED
      BY <1>2, <2>1, <2>3, <2>4, <2>5 DEF IInv
  <1>11. CASE UNCHANGED vars
    <2>1. /\ UNCHANGED <<heap, phase, objectRetained, threadRetained, deleteVars>>
          /\ UNCHANGED <<subtreeRoots, front, unvisited, nextFront, objectsLeft, threadsDone>>
          /\ UNCHANGED <<item, inboundView, entries, pass, sortKey, deleted, retained, happened>>
      BY <1>11 DEF vars, subtreeVars, loopVars, deleteVars
    <2>2. /\ Objects' = Objects /\ (ForObject' <=> ForObject) /\ Goes' = Goes
          /\ Skipped' = Skipped /\ Start' = Start
          /\ \A y : Needs(y)' = Needs(y)
          /\ \A y : Holders(y)' = Holders(y)
          /\ \A o : WithObject(o)' = WithObject(o)
      BY <2>1, SameDeletion
    <2>3. TypeOK' /\ PlaceInv'
      BY <1>0, <2>1, <2>2 DEF TypeOK, PlaceInv
    <2>4. CountInv => CountInv'
      <3>1. Walked' = Walked /\ Covered' = Covered
        BY <2>1, <2>2 DEF Walked, Covered
      <3> QED
        BY <2>1, <2>2, <3>1 DEF CountInv
    <2>5. ListInv => ListInv'
      BY <2>1 DEF ListInv
    <2>6. DeleteInv'
      BY <1>0, <2>1, <2>4, <2>5 DEF DeleteInv
    <2>7. ResultInv'
      <3>1. CASE phase \in {"loops", "delete", "done"}
        <4>1. ThreadsFinished' = ThreadsFinished /\ Finished' \subseteq Finished
          BY <2>1, <2>2 DEF ThreadsFinished, Finished
        <4> QED
          BY <1>0, <2>1, <3>1, <4>1, ResultsKept
      <3>2. CASE phase \notin {"loops", "delete", "done"}
        BY <2>1, <3>2 DEF ResultInv
      <3> QED
        BY <3>1, <3>2
    <2> QED
      BY <1>2, <2>1, <2>3, <2>6, <2>7 DEF IInv
  <1> QED
    BY <1>3, <1>4, <1>5, <1>6, <1>7, <1>8, <1>9, <1>10, <1>11 DEF Next

(* The last thread of a name is well defined.                              *)
LEMMA LastNamedIsLast ==
    ASSUME IsInput(heap), NEW t \in 1..Len(heap.threads)
    PROVE  /\ LastNamed(NameOf(t)) \in 1..Len(heap.threads)
           /\ NameOf(LastNamed(NameOf(t))) = NameOf(t)
           /\ \A u \in LastNamed(NameOf(t)) + 1..Len(heap.threads) :
                 NameOf(u) # NameOf(LastNamed(NameOf(t)))
  <1> DEFINE N == Len(heap.threads)
             same == {u \in 1..N : NameOf(u) = NameOf(t)}
             K == {N - u : u \in same}
  <1>0. N \in Nat /\ DOMAIN heap.threads = 1..N /\ t \in 1..N
    BY DEF IsInput
  <1> HIDE DEF N
  <1>1. K \in SUBSET Nat /\ K # {}
    BY <1>0
  <1>2. PICK m \in K : \A k \in K : m <= k
    <2> HIDE DEF K
    <2> QED
      BY <1>1, LeastNat
  <1>3. PICK v \in same : m = N - v
    OBVIOUS
  <1>4. v \in 1..N /\ NameOf(v) = NameOf(t) /\ \A u \in 1..N : NameOf(u) = NameOf(t) => u <= v
    <2>1. ASSUME NEW u \in 1..N, NameOf(u) = NameOf(t) PROVE u <= v
      <3>1. N - v <= N - u
        BY <1>2, <1>3, <2>1
      <3> QED
        BY <1>0, <3>1
    <2> QED
      BY <2>1
  <1>5. \E w \in DOMAIN heap.threads :
            /\ heap.threads[w].name = NameOf(t)
            /\ \A u \in DOMAIN heap.threads : heap.threads[u].name = NameOf(t) => u <= w
    BY <1>0, <1>4 DEF NameOf
  <1> DEFINE w == LastNamed(NameOf(t))
  <1>6. /\ w \in 1..N /\ NameOf(w) = NameOf(t)
        /\ \A u \in 1..N : NameOf(u) = NameOf(t) => u <= w
    BY <1>0, <1>5 DEF LastNamed, NameOf
  <1> HIDE DEF w
  <1>7. \A u \in w + 1..N : u \in 1..N /\ ~(u <= w)
    BY <1>0, <1>6
  <1> QED
    BY <1>6, <1>7 DEF w, N

-----------------------------------------------------------------------------
(* What loses its last reference, and what becomes unreachable.            *)

(* GoneWithObject and GoneWithThread have one shape.                       *)
Gone(R, held, cut, D) ==
    /\ cut \subseteq D
    /\ \A x \in Addr \ cut :
          IF x \in R THEN Inbound(x) \subseteq D /\ x \notin held => x \in D
                    ELSE Orphaned(D, x) => x \in D

(* Below is closed, and is the least closed set.                           *)
LEMMA BelowClosed ==
    ASSUME IsInput(heap), NEW R \in SUBSET Addr
    PROVE  /\ Below(R) \in SUBSET Addr /\ R \subseteq Below(R)
           /\ \A o \in Below(R) \cap Objects : heap.refs[o] \subseteq Below(R)
           /\ \A x \in Below(R) \ R : Inbound(x) # {}
  <1>0. \A o \in Objects : heap.refs[o] \in SUBSET Addr
    BY InputFacts
  <1>1. Below(R) \in SUBSET Addr /\ R \subseteq Below(R)
    BY DEF Below
  <1>2. ASSUME NEW o \in Below(R) \cap Objects, NEW y \in heap.refs[o] PROVE y \in Below(R)
    BY <1>0, <1>2 DEF Below
  <1>3. ASSUME NEW x \in Below(R) \ R, Inbound(x) = {} PROVE FALSE
    <2> DEFINE S == Below(R) \ {x}
    <2>1. S \in SUBSET Addr /\ R \subseteq S
      BY <1>1
    <2>2. \A o \in S \cap Objects : heap.refs[o] \subseteq S
      BY <1>2, <1>3 DEF Inbound
    <2>3. x \in S
      <3> HIDE DEF S
      <3> QED
        BY <1>3, <2>1, <2>2 DEF Below
    <2> QED
      BY <2>3
  <1> QED
    BY <1>1, <1>2, <1>3

(* What is reached from the roots is closed, and nothing else is reached.  *)
LEMMA ReachedClosed ==
    ASSUME IsInput(heap), NEW roots \in SUBSET Addr, NEW cut
    PROVE  /\ Reached(roots, cut) \in SUBSET Addr /\ roots \subseteq Reached(roots, cut)
           /\ \A o \in (Reached(roots, cut) \cap Objects) \ cut :
                 heap.refs[o] \subseteq Reached(roots, cut)
           /\ \A x \in Reached(roots, cut) \ roots :
                 \E y \in Inbound(x) \ cut : y \in Reached(roots, cut)
  <1> DEFINE K == Reached(roots, cut)
  <1>0. \A o \in Objects : heap.refs[o] \in SUBSET Addr
    BY InputFacts
  <1>1. K \in SUBSET Addr /\ roots \subseteq K
    BY DEF Reached
  <1>2. ASSUME NEW o \in (K \cap Objects) \ cut, NEW y \in heap.refs[o] PROVE y \in K
    BY <1>0, <1>2 DEF Reached
  <1>3. ASSUME NEW x \in K \ roots, ~\E y \in Inbound(x) \ cut : y \in K PROVE FALSE
    <2> DEFINE S == K \ {x}
    <2>1. S \in SUBSET Addr /\ roots \subseteq S
      BY <1>1
    <2>2. \A o \in (S \cap Objects) \ cut : heap.refs[o] \subseteq S
      <3> HIDE DEF K
      <3> QED
        BY <1>2, <1>3 DEF Inbound
    <2>3. x \in S
      <3>1. x \in K
        BY <1>3
      <3> HIDE DEF S
      <3> QED
        BY <2>1, <2>2, <3>1 DEF Reached
    <2> QED
      BY <2>3
  <1> QED
    BY <1>1, <1>2, <1>3

(* Unless something below is held where nobody looks, what loses its last  *)
(* reference becomes unreachable.                                          *)
LEMMA GoneIsUnreachable ==
    ASSUME IsInput(heap), NEW R \in SUBSET Addr, NEW held \in SUBSET Addr,
           NEW cut \in SUBSET R, held \cap (Below(R) \ cut) \subseteq R
    PROVE  /\ Unreachable(R, held, cut) \in SUBSET Addr
           /\ Gone(R, held, cut, Unreachable(R, held, cut))
  <1> DEFINE B == Below(R)
             roots == ((Addr \ B) \cup held) \ cut
             K == Reached(roots, cut)
             M == Unreachable(R, held, cut)
  <1>1. roots \in SUBSET Addr
    OBVIOUS
  <1>2. /\ B \in SUBSET Addr /\ R \subseteq B
        /\ \A o \in B \cap Objects : heap.refs[o] \subseteq B
    BY BelowClosed
  <1>3. \A x \in K \ roots : \E y \in Inbound(x) \ cut : y \in K
    <2> HIDE DEF roots
    <2> QED
      BY <1>1, ReachedClosed
  <1>4. M = B \ (K \ cut)
    BY DEF Unreachable
  <1> HIDE DEF B, K, M
  <1>5. ASSUME NEW x \in Addr \ cut, x \in B, Inbound(x) \subseteq M, x \notin held
        PROVE  x \in M
    <2>1. x \notin roots
      BY <1>5
    <2> HIDE DEF roots
    <2> QED
      BY <1>3, <1>4, <1>5, <2>1
  <1>6. ASSUME NEW x \in Addr \ cut, x \notin R, Orphaned(M, x) PROVE x \in M
    <2>1. PICK y \in Inbound(x) : y \in M
      BY <1>6 DEF Orphaned
    <2>2. x \in B
      BY <1>2, <1>4, <2>1 DEF Inbound
    <2>3. x \notin held
      BY <1>6, <2>2 DEF B
    <2> QED
      BY <1>5, <1>6, <2>2, <2>3 DEF Orphaned
  <1>7. Gone(R, held, cut, M)
    BY <1>2, <1>4, <1>5, <1>6 DEF Gone
  <1> QED
    BY <1>2, <1>4, <1>7 DEF M

(* And unless there is a cycle below, nothing else does.                   *)
LEMMA UnreachableIsGone ==
    ASSUME IsInput(heap), NEW R \in SUBSET Addr, NEW held \in SUBSET Addr,
           NEW cut \in SUBSET R, NEW W \in SUBSET Addr, Gone(R, held, cut, W),
           ~Cyclic(Below(R) \ cut)
    PROVE  Unreachable(R, held, cut) \subseteq W
  <1> DEFINE B == Below(R)
             roots == ((Addr \ B) \cup held) \ cut
             K == Reached(roots, cut)
             M == Unreachable(R, held, cut)
             C == M \ W
  <1>1. roots \in SUBSET Addr
    OBVIOUS
  <1>2. B \in SUBSET Addr /\ \A x \in B \ R : Inbound(x) # {}
    BY BelowClosed
  <1>3. roots \subseteq K /\ \A o \in (K \cap Objects) \ cut : heap.refs[o] \subseteq K
    <2> HIDE DEF roots
    <2> QED
      BY <1>1, ReachedClosed
  <1>4. M = B \ (K \ cut)
    BY DEF Unreachable
  <1>5. \A x : Inbound(x) \in SUBSET Objects /\ \A y \in Inbound(x) : y \in Addr
    BY InputFacts
  <1> HIDE DEF K, M
  <1>6. C \subseteq B \ cut
    BY <1>4 DEF Gone
  <1>7. ASSUME NEW x \in C PROVE Inbound(x) \cap C # {}
    <2>1. x \in Addr \ cut /\ x \in B /\ x \notin K /\ x \notin W
      BY <1>2, <1>4, <1>6
    <2>2. x \notin held
      BY <1>3, <2>1
    <2>3. PICK y \in Inbound(x) : y \notin W
      BY <1>2, <2>1, <2>2 DEF Gone, Orphaned
    <2>4. y \notin cut /\ y \in Objects /\ y \in Addr /\ x \in heap.refs[y]
      BY <1>5, <2>3 DEF Gone, Inbound
    <2>5. y \notin K
      BY <1>3, <2>1, <2>4
    <2>6. y \in B
      BY <1>3, <2>4, <2>5
    <2> QED
      BY <1>4, <2>3, <2>5, <2>6
  <1> HIDE DEF C
  <1>8. C = {}
    BY <1>6, <1>7 DEF Cyclic, B
  <1> QED
    BY <1>8 DEF C, M

(* More addresses, no fewer bytes.                                         *)
LEMMA BytesGrow ==
    ASSUME NEW D \in SUBSET Addr, NEW E \in SUBSET D PROVE Bytes(E) <= Bytes(D)
  <1> DEFINE A == E \cap Objects
             B == (D \cap Objects) \ E
  <1>1. A \in SUBSET Addr /\ B \in SUBSET Addr /\ A \cap B = {} /\ A \cup B = D \cap Objects
    OBVIOUS
  <1> HIDE DEF A, B
  <1>2. Sum(Size, A \cup B) = Sum(Size, A) + Sum(Size, B)
    <2>1. IsFiniteSet(Addr) /\ \A x \in Addr : Size[x] \in Nat
      BY SizesAdd
    <2> QED
      BY <1>1, <2>1, SumDisjoint
  <1>3. Sum(Size, A) \in Nat /\ Sum(Size, B) \in Nat
    BY <1>1, SizesAdd
  <1>4. Bytes(D) = Sum(Size, A \cup B) /\ Bytes(E) = Sum(Size, A)
    BY <1>1, BytesSum DEF A
  <1> QED
    BY <1>2, <1>3, <1>4

(* The two meanings agree where Agrees says so.                            *)
LEMMA MeaningsAgree ==
    ASSUME IsInput(heap), NEW R \in SUBSET Addr, NEW held \in SUBSET Addr,
           NEW cut \in SUBSET R, NEW W \in SUBSET Addr, Gone(R, held, cut, W),
           \A D \in SUBSET Addr : Gone(R, held, cut, D) => W \subseteq D
    PROVE  Agrees(Bytes(W), Unreachable(R, held, cut), R, Below(R) \ cut, held)
  <1> DEFINE M == Unreachable(R, held, cut)
  <1> SUFFICES ASSUME held \cap (Below(R) \ cut) \subseteq R
               PROVE  /\ Bytes(W) <= Bytes(M)
                      /\ ~Cyclic(Below(R) \ cut) => Bytes(W) = Bytes(M)
    BY DEF Agrees
  <1>1. M \in SUBSET Addr /\ W \subseteq M
    BY GoneIsUnreachable
  <1>2. ~Cyclic(Below(R) \ cut) => M \subseteq W
    BY UnreachableIsGone
  <1> HIDE DEF M
  <1>3. Bytes(W) <= Bytes(M)
    BY <1>1, BytesGrow
  <1>4. ~Cyclic(Below(R) \ cut) => M = W
    BY <1>1, <1>2
  <1> QED
    BY <1>3, <1>4

LEMMA ObjectAgrees ==
    ASSUME IsInput(heap), NEW o \in Objects
    PROVE  Agrees(Bytes(WithObject(o)), WithoutObject(o), {o}, Below({o}) \ {o},
                  HeldBy(DOMAIN heap.threads))
  <1> DEFINE held == HeldBy(DOMAIN heap.threads)
  <1>1. o \in Addr /\ held \in SUBSET Addr
    BY InputFacts DEF HeldBy
  <1> HIDE DEF held
  <1>2. \A D \in SUBSET Addr : Gone({o}, held, {o}, D) <=> GoneWithObject(o, D)
    BY <1>1 DEF Gone, GoneWithObject
  <1>3. /\ WithObject(o) \in SUBSET Addr /\ Gone({o}, held, {o}, WithObject(o))
        /\ \A D \in SUBSET Addr : Gone({o}, held, {o}, D) => WithObject(o) \subseteq D
    BY <1>1, <1>2, WithObjectClosed, WithObjectLeast
  <1>4. Agrees(Bytes(WithObject(o)), Unreachable({o}, held, {o}), {o}, Below({o}) \ {o}, held)
    BY <1>1, <1>3, MeaningsAgree
  <1> QED
    BY <1>4 DEF WithoutObject, held

LEMMA ThreadAgrees ==
    ASSUME IsInput(heap), NEW t \in 1..Len(heap.threads)
    PROVE  Agrees(Bytes(WithThread(t)), WithoutThread(t), heap.threads[t].locals,
                  Below(heap.threads[t].locals), HeldBy(OtherThreads(t)))
  <1> DEFINE held == HeldBy(OtherThreads(t))
             L == heap.threads[t].locals
  <1>1. L \in SUBSET Addr /\ held \in SUBSET Addr
    BY InputFacts DEF HeldBy, OtherThreads
  <1>2. \A D \in SUBSET Addr : Gone(L, held, {}, D) <=> GoneWithThread(t, D)
    BY DEF Gone, GoneWithThread, HeldBy, OtherThreads
  <1> HIDE DEF held, L
  <1>3. /\ WithThread(t) \in SUBSET Addr /\ Gone(L, held, {}, WithThread(t))
        /\ \A D \in SUBSET Addr : Gone(L, held, {}, D) => WithThread(t) \subseteq D
    BY <1>2, WithThreadClosed, WithThreadLeast
  <1>4. Agrees(Bytes(WithThread(t)), Unreachable(L, held, {}), L, Below(L) \ {}, held)
    BY <1>1, <1>3, MeaningsAgree
  <1>5. Below(L) \ {} = Below(L)
    OBVIOUS
  <1> QED
    BY <1>4, <1>5 DEF WithoutThread, held, L

-----------------------------------------------------------------------------
(* Every variable of retained.py and retained.go keeps to its type.        *)
THEOREM TypesAreKept == Spec => []TypeOK
  <1>1. IInv => TypeOK
    BY DEF IInv
  <1> QED
    BY <1>1, InitInv, NextInv, PTL DEF Spec

(* find_strict_subtrees finds strict subtrees only, and the size it stores *)
(* for each is final: for every finite graph, in every order of iteration. *)
THEOREM SubtreesAreExact == Spec => []SubtreesExact
  <1>1. ASSUME IInv PROVE SubtreesExact
    <2>1. SubtreeInv
      BY <1>1 DEF IInv
    <2>2. \A r \in subtreeRoots : InboundCount(r) < 2
      BY <2>1, FewReferrers DEF SubtreeInv, Strict
    <2> QED
      BY <2>1, <2>2 DEF SubtreeInv, Strict, SubtreesExact
  <1> QED
    BY <1>1, InitInv, NextInv, PTL DEF Spec

(* calculate is correct: unless two Python threads are equal as values and *)
(* have locals, the numbers of every artifact are the bytes that lose      *)
(* their last reference, whatever order the sets are walked in.  They are  *)
(* the bytes made unreachable where no cycle is below and no thread holds  *)
(* what the calculators do not look at, and at most these with cycles.     *)
THEOREM RetainedIsCorrect == ASSUME NoTwins PROVE Spec => []RetainedCorrect
  <1>1. ASSUME IInv PROVE RetainedCorrect
    <2> SUFFICES ASSUME phase = "done" PROVE CountsReferences /\ CountsUnreachable
      BY DEF RetainedCorrect
    <2>1. /\ IsInput(heap) /\ objectsLeft = {} /\ threadsDone = Len(heap.threads)
          /\ DOMAIN heap.threads = 1..Len(heap.threads)
      BY <1>1, InputFacts DEF IInv, TypeOK, PlaceInv
    <2>2. Finished = Objects /\ ThreadsFinished = Len(heap.threads)
      BY <2>1 DEF Finished, ThreadsFinished
    <2>3. /\ \A o \in Objects : objectRetained[o] = Bytes(WithObject(o))
          /\ DOMAIN threadRetained = {NameOf(t) : t \in 1..Len(heap.threads)}
          /\ \A t \in 1..Len(heap.threads) :
               (\A u \in t + 1..Len(heap.threads) : NameOf(u) # NameOf(t)) =>
                   threadRetained[NameOf(t)] = Bytes(WithThread(t))
      BY <1>1, <2>2 DEF IInv, ResultInv
    <2>4. ASSUME NEW n \in DOMAIN threadRetained
          PROVE  /\ threadRetained[n] = Bytes(WithThread(LastNamed(n)))
                 /\ LastNamed(n) \in 1..Len(heap.threads)
      <3>1. PICK t \in 1..Len(heap.threads) : n = NameOf(t)
        BY <2>3
      <3> DEFINE w == LastNamed(n)
      <3>2. /\ w \in 1..Len(heap.threads) /\ NameOf(w) = n
            /\ \A u \in w + 1..Len(heap.threads) : NameOf(u) # NameOf(w)
        BY <2>1, <3>1, LastNamedIsLast
      <3> HIDE DEF w
      <3>3. threadRetained[NameOf(w)] = Bytes(WithThread(w))
        BY <2>3, <3>2
      <3> QED
        BY <3>2, <3>3 DEF w
    <2>5. CountsReferences
      BY <2>1, <2>3, <2>4 DEF CountsReferences, NameOf
    <2>6. CountsUnreachable
      <3>1. ASSUME NEW o \in Objects
            PROVE  Agrees(objectRetained[o], WithoutObject(o), {o}, Below({o}) \ {o},
                          HeldBy(DOMAIN heap.threads))
        BY <2>1, <2>3, ObjectAgrees
      <3>2. ASSUME NEW n \in DOMAIN threadRetained, NEW t, t = LastNamed(n)
            PROVE  Agrees(threadRetained[n], WithoutThread(t), heap.threads[t].locals,
                          Below(heap.threads[t].locals), HeldBy(OtherThreads(t)))
        BY <2>1, <2>4, <3>2, ThreadAgrees
      <3> QED
        BY <3>1, <3>2 DEF CountsUnreachable
    <2> QED
      BY <2>5, <2>6
  <1> QED
    BY <1>1, InitInv, NextInv, PTL DEF Spec
=============================================================================
