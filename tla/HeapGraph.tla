----------------------------- MODULE HeapGraph ------------------------------
(***************************************************************************)
(* Object graphs of a target interpreter, and the artifact that records    *)
(* one.  Addresses are opaque; Null is the address 0, which a half-built   *)
(* container may hold in a slot.                                           *)
(***************************************************************************)
EXTENDS Naturals, FiniteSets

CONSTANTS
    Obj,        \* object addresses of the target process
    Null,       \* the address 0
    WellKnown,  \* the type objects every session announces
    Heaps       \* the object graphs the target can have

(* A graph: the GC-tracked objects, what each object refers to (referents  *)
(* and container content together), and each object's type.                *)
Heap == [roots : SUBSET Obj,
         refs  : [Obj -> SUBSET (Obj \cup {Null})],
         type  : [Obj -> Obj]]

ASSUME HeapsAssumption ==
    /\ Null \notin Obj
    /\ WellKnown \subseteq Obj
    /\ IsFiniteSet(Obj)
    /\ Heaps \subseteq Heap

-----------------------------------------------------------------------------

(* Everything the record of object o names.                                *)
Succ(h, o) == (h.refs[o] \cup {h.type[o]}) \ {Null}

(* S holds the roots and misses nothing that a member refers to.           *)
Closed(h, S) ==
    /\ h.roots \cup WellKnown \subseteq S
    /\ \A o \in S : Succ(h, o) \subseteq S

(* The least closed set.                                                   *)
Reach(h) == {o \in Obj : \A S \in SUBSET Obj : Closed(h, S) => o \in S}

(* What an artifact holds of one object.                                   *)
Record(h, o) == [addr |-> o, refs |-> h.refs[o], type |-> h.type[o]]

(* The complete artifact of h: its objects, the number the object section  *)
(* announces, and the domain of the type table.                            *)
ArtifactOf(h) ==
    LET objects == {Record(h, o) : o \in Reach(h)}
    IN  [objects |-> objects,
         count   |-> Cardinality(objects),
         types   |-> WellKnown \cup {r.type : r \in objects}]
=============================================================================
