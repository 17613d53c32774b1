----------------------------- MODULE MCAnalysis -----------------------------
(* Instances of Analysis for TLC.                                          *)
EXTENDS Analysis, TLC

CONSTANTS a1, a2

(* Addresses; one of them is the magic value, as an address may be.        *)
A(n) == <<0, n>>
ListType == A(4)
DictType == A(5)
OtherType == A(6)
Known == (ListName :> ListType @@ DictName :> DictType @@ OtherName :> OtherType)
Types == <<<<ListType, ListName>>, <<DictType, DictName>>, <<OtherType, OtherName>>>>

Obj(addr, type, kind, size, content, refs) ==
    [addr |-> addr, type |-> type, kind |-> kind, size |-> size, content |-> content,
     refs |-> refs, attributes |-> <<>>, repr |-> <<7>>]
Leaf(n) == Obj(A(n), OtherType, "none", 2, <<>>, {})

HeapWith(objects) ==
    [created |-> <<7>>, strRepr |-> FALSE, known |-> Known, threads |-> <<>>,
     objects |-> objects, types |-> Types]

Frame(locals) == [file |-> <<7>>, line |-> 1, function |-> <<>>, locals |-> locals]
Thread(n, locals) == [name |-> n, alive |-> 1, daemon |-> 0,
                      frames |-> <<Frame(locals), Frame(<<>>)>>]

(* Contents of both kinds, shared with the referents or not; the magic     *)
(* value as an address, as a referent and as the address of an object.     *)
Shapes ==
    {HeapWith(<<>>), HeapWith(<<Leaf(1)>>), HeapWith(<<Leaf(Magic), Leaf(1)>>)}
    \cup {HeapWith(<<Obj(A(1), ListType, "sequence", 3, c, r), Leaf(2)>>) :
            c \in {<<>>, <<A(2)>>, <<A(2), A(2), A(Magic)>>}, r \in {{}, {A(2)}, {A(2), A(Magic)}}}
    \cup {HeapWith(<<Obj(A(1), DictType, "dict", 3, c, r), Leaf(2)>>) :
            c \in {<<>>, <<<<A(2), A(1)>>>>, <<<<A(2), A(1)>>, <<A(1), A(Magic)>>>>},
            r \in {{}, {A(1), A(3)}}}

(* String representations, attributes, threads, strings and sizes at and   *)
(* beyond the limits of their fields.                                      *)
Strings == {<<>>, <<8>>, [i \in 1..MaxString |-> 8], [i \in 1..MaxString + 1 |-> 8]}
Edges ==
    {[h EXCEPT !.strRepr = TRUE] : h \in Shapes}
    \cup {[HeapWith(<<[Leaf(1) EXCEPT !.repr = s]>>) EXCEPT !.strRepr = TRUE] : s \in Strings}
    \cup {HeapWith(<<[Leaf(1) EXCEPT !.attributes = <<<<s, A(2)>>>>], Leaf(2)>>) : s \in Strings}
    \cup {[HeapWith(<<Leaf(1)>>) EXCEPT !.created = s] : s \in Strings}
    \cup {HeapWith(<<[Leaf(1) EXCEPT !.size = n], Leaf(2)>>) : n \in {-1, 0, MaxU32, MaxU32 + 1}}
    \cup {[HeapWith(<<Leaf(1)>>) EXCEPT !.threads = t] :
            t \in {<<Thread(s, <<<<<<1>>, A(1)>>>>), Thread(<<>>, <<>>)>> : s \in Strings}}

(* A count that does not fit, and an agent that omitted a type.            *)
Crowd(n) == Obj(A(1), ListType, "sequence", 3, [i \in 1..n |-> A(2)], {})
Overflows ==
    {HeapWith(<<Crowd(n), Leaf(2)>>) : n \in {MaxU32, MaxU32 + 1}}
    \cup {HeapWith([i \in 1..MaxU32 + 1 |-> [Leaf(1) EXCEPT !.addr = <<i \div 9, i % 9>>]])}
    \cup {[HeapWith(<<Leaf(1)>>) EXCEPT !.known = (ListName :> ListType)]}

Document(h) == [words |-> Finished(h), of |-> h, complete |-> TRUE]
Left(h) == {[words |-> d, of |-> h, complete |-> FALSE] : d \in Unfinished(h)}

(* Everything a writer can leave of these heaps.                           *)
Written ==
    LET some == Shapes \cup Edges \cup Overflows IN
    {Document(h) : h \in {g \in some : Writable(g)}}
    \cup UNION {Left(h) : h \in {HeapWith(<<Leaf(Magic), Leaf(1)>>)} \cup Overflows
                                 \cup {h \in Edges : h.threads # <<>>}}

By(l, c) == [language |-> l, command |-> c]

(* One analyzer, any document.                                             *)
Reading == {[first |-> d, documents |-> {d}, jobs |-> (a1 :> By(l, "summary"))] :
                d \in Written, l \in Languages}

(* Two analyzers: two heaps with the same objects, one with others, one    *)
(* with a thread, one whose thread has a local that no object mentions, and*)
(* what a killed writer left.                                              *)
One    == HeapWith(<<Obj(A(1), ListType, "sequence", 3, <<A(2)>>, {}), Leaf(2)>>)
Same   == HeapWith(<<Obj(A(1), ListType, "sequence", 3, <<>>, {}), Leaf(2)>>)
More   == HeapWith(<<Leaf(1), Leaf(2), Leaf(3)>>)
Local  == [Same EXCEPT !.threads = <<Thread(<<1>>, <<<<<<1>>, A(1)>>>>)>>]
Dangle == [Same EXCEPT !.threads = <<Thread(<<1>>, <<<<<<1>>, A(8)>>>>)>>]
Torn   == CHOOSE d \in Left(One) : Len(d.words) = Len(Finished(One)) - 1

Pools == {{Document(One), Document(Same)}, {Document(One), Document(More)},
          {Document(Same), Document(Local)}, {Document(Dangle), Document(One)},
          {Document(One), Torn}}
(* Go prints its text from the report it builds for json.                  *)
Pairs == {<<By("python", "json"), By("python", "json")>>, <<By("python", "json"), By("go", "json")>>,
          <<By("go", "text"), By("go", "json")>>, <<By("python", "text"), By("python", "json")>>,
          <<By("python", "text"), By("go", "text")>>}
Racing == UNION {{[first |-> d, documents |-> p, jobs |-> (a1 :> j[1] @@ a2 :> j[2])] :
                    d \in p, j \in Pairs} : p \in Pools}

MCScenarios == Reading \cup Racing

(* The documents are such as a writer leaves, which the proofs suppose.    *)
ASSUME DocumentsAreWritten == WellWritten
=============================================================================
