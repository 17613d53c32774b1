------------------------------ MODULE Snapshot ------------------------------
(***************************************************************************)
(* What one run of pydump promises, with no agent, wire or file in it: the *)
(* object graph of the target is read at ONE instant, the target may       *)
(* change its graph before and after that, and an artifact, if one is      *)
(* published at all, is published once and is exactly the part of that     *)
(* graph that its GC roots and the well-known types reach.                 *)
(***************************************************************************)
EXTENDS HeapGraph

VARIABLES
    heap,      \* the target's object graph
    snap,      \* the graph that was read, a set of at most one graph
    published  \* the artifacts published, a set of at most one artifact

vars == <<heap, snap, published>>

Init == heap \in Heaps /\ snap = {} /\ published = {}

(* The program in the target runs.                                         *)
Run == heap' \in Heaps /\ UNCHANGED <<snap, published>>

(* The graph is read.                                                      *)
Take == snap = {} /\ snap' = {heap} /\ UNCHANGED <<heap, published>>

(* The artifact of the graph that was read appears.                        *)
Publish ==
    /\ published = {}
    /\ \E h \in snap : published' = {ArtifactOf(h)}
    /\ UNCHANGED <<heap, snap>>

Next == Run \/ Take \/ Publish

Spec == Init /\ [][Next]_vars
=============================================================================
