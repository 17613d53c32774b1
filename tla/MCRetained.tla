----------------------------- MODULE MCRetained -----------------------------
(* Instances of Retained for TLC.                                          *)
EXTENDS Retained, TLC

CONSTANTS a, b, c, d, x

(* Distinct powers of two: a sum of sizes tells which objects are in it.   *)
MCSize == (a :> 1 @@ b :> 2 @@ c :> 4 @@ d :> 8 @@ x :> 16)

Thread(n, L) == [name |-> n, locals |-> L]

(* Every graph of two objects and of three, with x missing from the        *)
(* artifact, and two threads that share a local or not.                    *)
AnyGraph == {[refs |-> r, threads |-> <<Thread("one", {a}), Thread("two", L)>>] :
                r \in [{a, b} -> SUBSET {a, b, x}], L \in SUBSET {a, b}}
            \cup {[refs |-> r, threads |-> <<>>] : r \in [{a, b, c} -> SUBSET {a, b, c}]}

(* Subtrees: a tree of four objects, with any one further reference.       *)
Trees == {(a :> {b, c} @@ b :> {d} @@ c :> {} @@ d :> {}),
          (a :> {b} @@ b :> {c} @@ c :> {d} @@ d :> {}),
          (a :> {b, c, d} @@ b :> {} @@ c :> {} @@ d :> {x})}
Deep == {[refs |-> [r EXCEPT ![o] = @ \cup S], threads |-> <<Thread("one", {b, c})>>] :
            r \in Trees, o \in {a, b, c, d}, S \in {{}, {a}, {b}, {c}, {d}, {x}}}

(* Threads that are equal as values, and a local no object mentions.       *)
Twins == {[refs |-> r, threads |-> <<Thread("one", {a}), Thread("one", {a})>>] :
            r \in [{a, b} -> SUBSET {b}]}
Dangling == {[refs |-> r, threads |-> <<Thread("one", {a, x})>>] :
            r \in [{a, b} -> SUBSET {a, b}]}

By(language, S) == {[language |-> language, refs |-> h.refs, threads |-> h.threads] : h \in S}

(* Equal threads are left to retained.go: see the run on PythonTwins.      *)
MCInputs ==
    By("python", AnyGraph \cup Deep \cup Dangling)
    \cup By("go", AnyGraph \cup Deep \cup Dangling \cup Twins)
PythonTwins == By("python", Twins)
SharedLocals == By("python", AnyGraph) \cup By("go", AnyGraph)
=============================================================================
