------------------------------ MODULE Retained ------------------------------
(***************************************************************************)
(* The retained-heap calculators of the analyzers: retained.py and its Go  *)
(* port retained.go (with graph.go).  Both find the strict subtrees first, *)
(* then delete each object, and each thread's locals, and count what that  *)
(* leaves without a referrer.  They walk hash sets and dictionaries, so    *)
(* every order of a set is possible.                                       *)
(***************************************************************************)
EXTENDS Integers, Sequences, FiniteSets, FiniteSetsExt

CONSTANTS
    Addr,      \* addresses
    Size,      \* the shallow size of each address, if it is an object's
    Inputs     \* the artifacts analyzed, and by which analyzer

(* An artifact: the objects with their referents (content included, each   *)
(* once; some may be missing from the artifact), and the threads.  With it *)
(* the analyzer that reads it, since the two are not alike.                *)
IsInput(h) ==
    /\ h.language \in {"python", "go"}
    /\ DOMAIN h.refs \subseteq Addr
    /\ \A o \in DOMAIN h.refs : h.refs[o] \subseteq Addr
    /\ Len(h.threads) \in Nat /\ DOMAIN h.threads = 1..Len(h.threads)
    /\ \A t \in DOMAIN h.threads : h.threads[t].locals \subseteq Addr

ASSUME RetainedAssumption ==
    /\ IsFiniteSet(Addr) /\ Size \in [Addr -> Nat \ {0}]
    /\ \A h \in Inputs : IsInput(h)

VARIABLES
    heap,
    phase,
    \* find_strict_subtrees
    subtreeRoots, objectRetained,
    front, unvisited, nextFront,
    \* the loops over objects and threads
    objectsLeft, threadsDone, threadRetained,
    \* retained and delete_unreferenced
    item,         \* the object, or thread number, being deleted
    inboundView,  \* counts known so far
    entries,      \* the list `front', as a bag
    pass,         \* its entries this pass has not examined, as a bag
    sortKey,      \* the counts when the list was sorted
    deleted, retained, happened

subtreeVars == <<subtreeRoots, front, unvisited, nextFront>>
loopVars    == <<objectsLeft, threadsDone>>
deleteVars  == <<item, inboundView, entries, pass, sortKey, deleted, retained, happened>>
vars == <<heap, phase, subtreeVars, objectRetained, loopVars, threadRetained, deleteVars>>

Objects == DOMAIN heap.refs
SizeOf(o) == Size[o]

(* The inbound-reference index, and the addresses it knows: Python has no  *)
(* entry for an address that only a thread mentions, Go's graph has.       *)
Inbound(x) == {o \in Objects : x \in heap.refs[o]}
InboundCount(x) == Cardinality(Inbound(x))
Indexed == Objects \cup UNION {heap.refs[o] : o \in Objects}

EmptyBagOf == [x \in Addr |-> 0]

Init ==
    /\ heap \in Inputs
    /\ phase = "leaves"
    /\ subtreeRoots = {} /\ front = {} /\ unvisited = {} /\ nextFront = {}
    /\ objectRetained = [x \in Addr |-> 0]
    /\ objectsLeft = {} /\ threadsDone = 0 /\ threadRetained = <<>>
    /\ item = 0 /\ inboundView = <<>> /\ entries = EmptyBagOf /\ pass = EmptyBagOf
    /\ sortKey = <<>> /\ deleted = {} /\ retained = 0 /\ happened = FALSE

-----------------------------------------------------------------------------
(* find_strict_subtrees                                                    *)

FindLeaves ==
    LET leaves == {o \in Objects : heap.refs[o] = {} /\ InboundCount(o) < 2} IN
    /\ phase = "leaves"
    /\ subtreeRoots' = leaves
    /\ objectRetained' = [x \in Addr |-> IF x \in leaves THEN SizeOf(x) ELSE 0]
    /\ front' = UNION {Inbound(o) : o \in leaves}
    /\ unvisited' = front'
    /\ phase' = "subtrees"
    /\ UNCHANGED <<heap, nextFront, loopVars, threadRetained, deleteVars>>

(* Mutant: an address with several referrers may root a strict subtree.    *)
VisitShared(x) ==
    /\ phase = "subtrees" /\ x \in unvisited
    /\ unvisited' = unvisited \ {x}
    /\ \/ /\ ~(heap.refs[x] \subseteq subtreeRoots)
          /\ nextFront' = nextFront \cup {x}
          /\ UNCHANGED <<subtreeRoots, objectRetained>>
       \/ /\ heap.refs[x] \subseteq subtreeRoots
          /\ subtreeRoots' = subtreeRoots \cup {x}
          /\ objectRetained' = [objectRetained EXCEPT ![x] =
                SizeOf(x) + MapThenSumSet(LAMBDA r : objectRetained[r], heap.refs[x])]
          /\ nextFront' = nextFront \cup Inbound(x)
    /\ UNCHANGED <<heap, phase, front, loopVars, threadRetained, deleteVars>>

(* One address of the front, in any order.                                 *)
VisitFront(x) ==
    /\ phase = "subtrees" /\ x \in unvisited
    /\ unvisited' = unvisited \ {x}
    /\ \/ /\ InboundCount(x) > 1
          /\ UNCHANGED <<nextFront, subtreeRoots, objectRetained>>
       \/ /\ InboundCount(x) <= 1 /\ ~(heap.refs[x] \subseteq subtreeRoots)
          /\ nextFront' = nextFront \cup {x}
          /\ UNCHANGED <<subtreeRoots, objectRetained>>
       \/ /\ InboundCount(x) <= 1 /\ heap.refs[x] \subseteq subtreeRoots
          /\ subtreeRoots' = subtreeRoots \cup {x}
          /\ objectRetained' = [objectRetained EXCEPT ![x] =
                SizeOf(x) + MapThenSumSet(LAMBDA r : objectRetained[r], heap.refs[x])]
          /\ nextFront' = nextFront \cup Inbound(x)
    /\ UNCHANGED <<heap, phase, front, loopVars, threadRetained, deleteVars>>

(* Mutant: the search ends when the front is empty.                        *)
EndRoundEmpty ==
    /\ phase = "subtrees" /\ unvisited = {}
    /\ \/ /\ nextFront = {}
          /\ phase' = "loops" /\ objectsLeft' = Objects
          /\ UNCHANGED <<front, unvisited, nextFront>>
       \/ /\ nextFront # {}
          /\ front' = nextFront /\ unvisited' = nextFront /\ nextFront' = {}
          /\ UNCHANGED <<phase, objectsLeft>>
    /\ UNCHANGED <<heap, subtreeRoots, objectRetained, threadsDone, threadRetained, deleteVars>>

EndRound ==
    /\ phase = "subtrees" /\ unvisited = {}
    /\ \/ /\ nextFront = front
          /\ phase' = "loops" /\ objectsLeft' = Objects
          /\ UNCHANGED <<front, unvisited, nextFront>>
       \/ /\ nextFront # front
          /\ front' = nextFront /\ unvisited' = nextFront /\ nextFront' = {}
          /\ UNCHANGED <<phase, objectsLeft>>
    /\ UNCHANGED <<heap, subtreeRoots, objectRetained, threadsDone, threadRetained, deleteVars>>

-----------------------------------------------------------------------------
(* retained_heap: a list of entries, sorted before every pass.             *)

(* Mutant: the list of the last deletion is examined again.                *)
BeginStale(what, view) ==
    /\ item' = what
    /\ inboundView' = view
    /\ entries' = [x \in Addr |-> IF x \in DOMAIN view THEN 1 ELSE 0]
    /\ pass' = entries /\ sortKey' = view
    /\ deleted' = {} /\ retained' = 0 /\ happened' = FALSE
    /\ phase' = "delete"

Begin(what, view) ==
    /\ item' = what
    /\ inboundView' = view
    /\ entries' = [x \in Addr |-> IF x \in DOMAIN view THEN 1 ELSE 0]
    /\ pass' = entries' /\ sortKey' = view
    /\ deleted' = {} /\ retained' = 0 /\ happened' = FALSE
    /\ phase' = "delete"

BeginObject(o) ==
    /\ phase = "loops" /\ o \in objectsLeft
    /\ Begin(o, [x \in {o} |-> 0])
    /\ objectsLeft' = objectsLeft \ {o}
    /\ UNCHANGED <<heap, subtreeVars, objectRetained, threadsDone, threadRetained>>

(* Another thread than t: Python compares the values of the threads.       *)
Other(t, u) ==
    IF heap.language = "python" THEN heap.threads[u] # heap.threads[t] ELSE u # t

BeginThread ==
    LET t == threadsDone + 1
        others(x) == {u \in DOMAIN heap.threads : Other(t, u) /\ x \in heap.threads[u].locals}
    IN
    /\ phase = "loops" /\ objectsLeft = {} /\ t <= Len(heap.threads)
    /\ threadsDone' = t
    /\ \/ /\ heap.language = "python" /\ ~(heap.threads[t].locals \subseteq Indexed)
          /\ phase' = "KeyError" /\ UNCHANGED deleteVars
       \/ /\ heap.language = "go" \/ heap.threads[t].locals \subseteq Indexed
          /\ Begin(t, [x \in heap.threads[t].locals |->
                          InboundCount(x) + Cardinality(others(x))])
    /\ UNCHANGED <<heap, subtreeVars, objectRetained, objectsLeft, threadRetained>>

(* The entry a pass examines next: one with the least count of those left, *)
(* as they were sorted; equal counts come in any order.                    *)
Examined == {x \in Addr : pass[x] > 0
                          /\ \A y \in Addr : pass[y] > 0 => sortKey[x] <= sortKey[y]}

ForObject == threadsDone = 0
UsesSubtree(x) == ForObject /\ x \in subtreeRoots

(* Mutant: an entry that was deleted already is deleted again.             *)
DeleteAgain(x) ==
    LET new == IF x \in Objects /\ ~UsesSubtree(x) THEN heap.refs[x] \ (deleted \cup {x}) ELSE {} IN
    /\ phase = "delete" /\ x \in Examined
    /\ inboundView[x] <= 0
    /\ pass' = [pass EXCEPT ![x] = @ - 1]
    /\ deleted' = deleted \cup {x}
    /\ happened' = TRUE
    /\ retained' = retained + (IF UsesSubtree(x) THEN objectRetained[x]
                               ELSE IF x \in Objects THEN SizeOf(x) ELSE 0)
    /\ inboundView' = [y \in DOMAIN inboundView \cup new |->
          (IF y \in DOMAIN inboundView THEN inboundView[y] ELSE InboundCount(y))
          - (IF y \in new THEN 1 ELSE 0)]
    /\ entries' = [y \in Addr |-> entries[y] + (IF y \in new THEN 1 ELSE 0)
                                            - (IF y = x THEN 1 ELSE 0)]
    /\ UNCHANGED <<heap, phase, subtreeVars, objectRetained, loopVars, threadRetained,
                   item, sortKey>>

(* delete_unreferenced, one entry x.                                       *)
DeleteUnreferenced(x) ==
    /\ phase = "delete" /\ x \in Examined
    /\ inboundView[x] <= 0
    /\ pass' = [pass EXCEPT ![x] = @ - 1]
    /\ \/ x \in deleted /\ UNCHANGED <<inboundView, entries, deleted, retained, happened>>
       \/ /\ x \notin deleted
          /\ deleted' = deleted \cup {x}
          /\ happened' = TRUE
          /\ LET expand == x \in Objects /\ ~UsesSubtree(x)
                 new == IF expand THEN heap.refs[x] \ deleted' ELSE {}
             IN  /\ retained' = retained + (IF UsesSubtree(x) THEN objectRetained[x]
                                            ELSE IF x \in Objects THEN SizeOf(x) ELSE 0)
                 /\ inboundView' = [y \in DOMAIN inboundView \cup new |->
                       (IF y \in DOMAIN inboundView THEN inboundView[y] ELSE InboundCount(y))
                       - (IF y \in new THEN 1 ELSE 0)]
                 /\ entries' = [y \in Addr |-> entries[y] + (IF y \in new THEN 1 ELSE 0)
                                                         - (IF y = x THEN 1 ELSE 0)]
    /\ UNCHANGED <<heap, phase, subtreeVars, objectRetained, loopVars, threadRetained,
                   item, sortKey>>

(* A pass ends at an entry that is still referred to, or at the end of the *)
(* list; after a pass that deleted nothing the result is stored.           *)
EndPass ==
    /\ phase = "delete"
    /\ \/ \E x \in Examined : inboundView[x] > 0
       \/ Examined = {}
    /\ \/ /\ happened
          /\ pass' = entries /\ sortKey' = inboundView /\ happened' = FALSE
          /\ UNCHANGED <<phase, objectRetained, threadRetained>>
       \/ /\ ~happened
          /\ phase' = "loops"
          /\ IF ForObject
              THEN /\ objectRetained' = [objectRetained EXCEPT ![item] = retained]
                   /\ UNCHANGED threadRetained
              ELSE /\ threadRetained' =
                        [n \in DOMAIN threadRetained \cup {heap.threads[item].name} |->
                           IF n = heap.threads[item].name THEN retained ELSE threadRetained[n]]
                   /\ UNCHANGED objectRetained
          /\ UNCHANGED <<pass, sortKey, happened>>
    /\ UNCHANGED <<heap, subtreeVars, loopVars, item, inboundView, entries, deleted, retained>>

Finish ==
    /\ phase = "loops" /\ objectsLeft = {} /\ threadsDone = Len(heap.threads)
    /\ phase' = "done"
    /\ UNCHANGED <<heap, subtreeVars, objectRetained, loopVars, threadRetained, deleteVars>>

Next ==
    \/ FindLeaves \/ EndRound \/ BeginThread \/ EndPass \/ Finish
    \/ \E x \in Addr : VisitFront(x) \/ BeginObject(x) \/ DeleteUnreferenced(x)

Spec == Init /\ [][Next]_vars

(* The analyzer is one sequential process: it goes on while it can.        *)
FairSpec == Spec /\ WF_vars(Next)

-----------------------------------------------------------------------------
(* What the numbers mean.  The calculators count references: deleting a    *)
(* set of addresses also deletes every address all of whose referrers are  *)
(* deleted, the least set that satisfies Gone.                             *)

Orphaned(D, x) == Inbound(x) # {} /\ Inbound(x) \subseteq D

GoneWithObject(o, D) == o \in D /\ \A x \in Addr : Orphaned(D, x) => x \in D

GoneWithThread(t, D) ==
    LET locals == heap.threads[t].locals
        held(x) == \E u \in DOMAIN heap.threads \ {t} : x \in heap.threads[u].locals
    IN  \A x \in Addr :
          IF x \in locals THEN Inbound(x) \subseteq D /\ ~held(x) => x \in D
                          ELSE Orphaned(D, x) => x \in D

Bytes(D) == MapThenSumSet(SizeOf, D \cap Objects)
WithObject(o) == {x \in Addr : \A D \in SUBSET Addr : GoneWithObject(o, D) => x \in D}
WithThread(t) == {x \in Addr : \A D \in SUBSET Addr : GoneWithThread(t, D) => x \in D}

(* What the class comment promises instead: the addresses made unreachable *)
(* by deleting an object or a thread's locals, R.  The roots that are left *)
(* are the locals of the threads and every object that is not below R, and *)
(* no path goes through the objects that are deleted themselves, `cut'.    *)
Below(R) ==
    {x \in Addr : \A S \in SUBSET Addr :
        R \subseteq S /\ (\A o \in S \cap Objects : heap.refs[o] \subseteq S) => x \in S}
Reached(roots, cut) ==
    {x \in Addr : \A S \in SUBSET Addr :
        (roots \subseteq S /\ \A o \in (S \cap Objects) \ cut : heap.refs[o] \subseteq S)
            => x \in S}
Unreachable(R, held, cut) ==
    Below(R) \ (Reached(((Addr \ Below(R)) \cup held) \ cut, cut) \ cut)

HeldBy(T) == UNION {heap.threads[t].locals : t \in T}
OtherThreads(t) == DOMAIN heap.threads \ {t}
WithoutObject(o) == Unreachable({o}, HeldBy(DOMAIN heap.threads), {o})
WithoutThread(t) == Unreachable(heap.threads[t].locals, HeldBy(OtherThreads(t)), {})

(* Members of S that keep each other alive, all of them referred to from S *)
(* itself: there are such iff S has a cycle.                               *)
Cyclic(S) == \E C \in SUBSET S : C # {} /\ \A x \in C : Inbound(x) \cap C # {}

(* The two meanings agree if nothing below is held by a thread in a local  *)
(* which the calculators do not look at; with cycles below, less goes.     *)
Agrees(number, without, seen, below, held) ==
    held \cap below \subseteq seen =>
        /\ number <= Bytes(without)
        /\ ~Cyclic(below) => number = Bytes(without)

(* The result for each thread name is the one of its last thread.          *)
LastNamed(n) ==
    CHOOSE t \in DOMAIN heap.threads :
        /\ heap.threads[t].name = n
        /\ \A u \in DOMAIN heap.threads : heap.threads[u].name = n => u <= t

-----------------------------------------------------------------------------
(* Properties.                                                             *)

(* Every variable of the calculator keeps to its type.                     *)
TypeOK ==
    /\ IsInput(heap)
    /\ phase \in {"leaves", "subtrees", "loops", "delete", "KeyError", "done"}
    /\ subtreeRoots \subseteq Objects /\ front \subseteq Objects
    /\ unvisited \subseteq front /\ nextFront \subseteq Objects
    /\ objectRetained \in [Addr -> Nat] /\ retained \in Nat
    /\ objectsLeft \subseteq Objects /\ threadsDone \in 0..Len(heap.threads)
    /\ DOMAIN inboundView \subseteq Addr /\ deleted \subseteq DOMAIN inboundView
    /\ \A x \in DOMAIN inboundView : inboundView[x] \in Int
    /\ entries \in [Addr -> Nat] /\ pass \in [Addr -> Nat]
    /\ \A x \in Addr : pass[x] <= entries[x]

(* The numbers are the bytes that lose their last reference.               *)
CountsReferences ==
    /\ \A o \in Objects : objectRetained[o] = Bytes(WithObject(o))
    /\ DOMAIN threadRetained = {heap.threads[t].name : t \in DOMAIN heap.threads}
    /\ \A n \in DOMAIN threadRetained : threadRetained[n] = Bytes(WithThread(LastNamed(n)))

(* The numbers are the bytes made unreachable, up to cycles and threads.   *)
CountsUnreachable ==
    /\ \A o \in Objects :
          Agrees(objectRetained[o], WithoutObject(o), {o}, Below({o}) \ {o},
                 HeldBy(DOMAIN heap.threads))
    /\ \A n \in DOMAIN threadRetained :
          LET t == LastNamed(n)
              L == heap.threads[t].locals
          IN  Agrees(threadRetained[n], WithoutThread(t), L, Below(L), HeldBy(OtherThreads(t)))

(* The numbers reported are the bytes of everything that loses its last    *)
(* reference with each object and with each thread, whatever order the     *)
(* sets are walked in, and although strict subtrees are counted once and   *)
(* reused (calculate).  They are the bytes made unreachable, as the class  *)
(* comment says (retained.py:68), only for an object below which there is  *)
(* neither a cycle nor a local of a thread, and for a thread below which   *)
(* there is neither a cycle nor a local that only other threads have.  A   *)
(* cycle below is never counted beyond what becomes unreachable: it makes  *)
(* the number too small.  (Such a local makes it too large: see            *)
(* OtherThreadsAreRoots.)                                                  *)
RetainedCorrect == phase = "done" => CountsReferences /\ CountsUnreachable

(* A strict subtree's memoized size is the final one as soon as the search *)
(* for subtrees has ended, and no member of it has two referrers, so that  *)
(* counting it without walking it can never count anything twice.          *)
SubtreesExact ==
    phase \in {"loops", "delete", "done"} =>
        \A r \in subtreeRoots : /\ objectRetained[r] = Bytes(WithObject(r))
                                /\ heap.refs[r] \subseteq subtreeRoots
                                /\ InboundCount(r) < 2

(* The search for subtrees and the deletion both come to an end with a     *)
(* result, in any order of iteration, cycles and missing objects included. *)
(* Only retained.py has an artifact it cannot analyze at all: one with a   *)
(* thread local that no object mentions (InboundReferences.__getitem__).   *)
Unanalyzable ==
    /\ heap.language = "python"
    /\ \E t \in DOMAIN heap.threads : ~(heap.threads[t].locals \subseteq Indexed)
Terminates == <>(phase = IF Unanalyzable THEN "KeyError" ELSE "done")

(* Other threads are roots: what another thread still holds in a local is  *)
(* not counted as retained by this one.                                    *)
OtherThreadsAreRoots ==
    phase = "delete" /\ ~ForObject =>
        \A u \in DOMAIN heap.threads \ {item} : deleted \cap heap.threads[u].locals = {}
=============================================================================
