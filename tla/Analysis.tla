------------------------------ MODULE Analysis ------------------------------
(***************************************************************************)
(* The analyzers' command lines: an artifact is read, the retained sizes   *)
(* are taken from the cache beside it or calculated and stored there, and  *)
(* the file is read twice more for the identity in the report (cli.py,     *)
(* retained.py, report.py, and main.go, cache.go, report.go).  Analyzers   *)
(* run side by side, may be killed, and the artifact may be replaced under *)
(* its name at any time; what an analyzer has open stays as it was.        *)
(***************************************************************************)
EXTENDS HeapFormat

CONSTANTS
    Analyzers,
    Scenarios,   \* an artifact, the analyzers run on it, and what replaces it
    MaxReplace,  \* how often the artifact is replaced
    None

(* A document is its words, with the heap its writer was given and whether *)
(* that writer finished.  A scenario has a set of documents, the first of  *)
(* which is in place, and a job for some analyzers.                        *)
Languages == {"python", "go"}
Commands  == {"summary", "json", "text"}

ASSUME AnalysisAssumption ==
    /\ MaxReplace \in Nat
    /\ \A s \in Scenarios :
          /\ s.first \in s.documents
          /\ DOMAIN s.jobs \subseteq Analyzers
          /\ \A a \in DOMAIN s.jobs : s.jobs[a] \in [language : Languages, command : Commands]

(* What an analyzer has of a document it has read.                         *)
LoadedOf(d) == [heap |-> HeapRead(d.words), words |-> d.words, of |-> d.of,
                complete |-> d.complete]

(* A document is what a writer left that was given a heap.  None is not one*)
(* and not the result of reading one.                                      *)
IsDocument(d) ==
    /\ d # None /\ LoadedOf(d) # None
    /\ IF d.complete
       THEN IsHeap(d.of) /\ d.words = Finished(d.of)
       ELSE /\ d.words \in Unfinished(d.of)
            /\ ToSet(WellKnownTypeNames) \subseteq DOMAIN d.of.known =>
                  IsHeap(d.of) /\ ~ByChance(d.of, d.words)
WellWritten == \A s \in Scenarios : \A d \in s.documents : IsDocument(d)

VARIABLES
    scenario,
    file,      \* the document under the artifact's name, None when there is none
    replaced,  \* how often it has been replaced or removed
    cache,     \* the cache files, by name
    pc, loaded, name, numbers, temp, report,  \* of each analyzer
    moved      \* history: the artifact has changed since this analyzer read it

own == <<pc, loaded, name, numbers, temp, report, moved>>
vars == <<scenario, file, replaced, cache, own>>

Job(a)  == scenario.jobs[a]
Heap(a) == loaded[a].heap
Ended   == {"done", "error", "killed"}

(* A cache file holds the document its numbers were calculated from, and   *)
(* whether the artifact had changed before it was stored; one may be there *)
(* that is not a cache document at all.                                    *)
Junk == [from |-> None, moved |-> FALSE]

(* Mutant: the name of the cache file does not depend on the content.      *)
CachePathFixed(d) == <<>>

(* The name holds the hash of the content.                                 *)
CachePath(d) == d.words

Addresses(h) == {h.objects[i].addr : i \in DOMAIN h.objects}
ThreadNames(h) == {h.threads[i].name : i \in DOMAIN h.threads}

(* A thread local that neither is an object nor is referred to by one.     *)
DanglingLocal(h) ==
    \E t \in DOMAIN h.threads : \E f \in DOMAIN h.threads[t].frames :
        LET locals == h.threads[t].frames[f] IN
        ~({locals[n] : n \in DOMAIN locals}
            \subseteq Addresses(h) \cup UNION {h.objects[i].refs : i \in DOMAIN h.objects})

NoReport == [words |-> None, size |-> 0, sizes |-> None]

Init ==
    /\ scenario \in Scenarios
    /\ file = scenario.first /\ replaced = 0
    /\ cache \in {<<>>, [n \in {CachePath(file)} |-> Junk]}
    /\ pc = [a \in Analyzers |-> IF a \in DOMAIN scenario.jobs THEN "load" ELSE "off"]
    /\ loaded = [a \in Analyzers |-> None]
    /\ name = [a \in Analyzers |-> None]
    /\ numbers = [a \in Analyzers |-> Junk]
    /\ temp = [a \in Analyzers |-> None]
    /\ report = [a \in Analyzers |-> NoReport]
    /\ moved = [a \in Analyzers |-> FALSE]

(* One step of a, from one place in the program to another.                *)
Goes(a, from, to) ==
    /\ pc[a] = from /\ pc' = [pc EXCEPT ![a] = to]
    /\ UNCHANGED <<scenario, file, replaced>>

-----------------------------------------------------------------------------
(* load_heap, heap.Load: what was opened is read to the end, also when the *)
(* name is given to another file.                                          *)
HeapThere == IF file = None THEN Refused ELSE HeapRead(file.words)
LoadHeap(a) ==
    /\ Goes(a, "load", IF Job(a).command = "summary" THEN "sha256" ELSE "hash")
    /\ \E heap \in {HeapThere} :
          /\ heap.accepted
          /\ loaded' = [loaded EXCEPT ![a] = [heap |-> heap, words |-> file.words, of |-> file.of,
                                             complete |-> file.complete]]
    /\ UNCHANGED <<cache, name, numbers, temp, report, moved>>

LoadFails(a) ==
    /\ Goes(a, "load", "error")
    /\ ~HeapThere.accepted
    /\ UNCHANGED <<cache, loaded, name, numbers, temp, report, moved>>

(* RetainedHeapCache.path for load, retainedCachePath.  An artifact that is*)
(* gone ends the Go analyzer; for Python it is a cache miss.               *)
HashForLoad(a) ==
    /\ \/ file # None /\ Goes(a, "hash", "lookup")
       \/ file = None /\ Job(a).language = "python" /\ Goes(a, "hash", "calculate")
       \/ file = None /\ Job(a).language = "go" /\ Goes(a, "hash", "error")
    /\ name' = [name EXCEPT ![a] = IF file = None THEN None ELSE CachePath(file)]
    /\ UNCHANGED <<cache, loaded, numbers, temp, report, moved>>

(* Mutant: Go takes any cache document as well.                            *)
AcceptsAny(a, entry) == entry # Junk

(* Python takes any cache document, Go one about the same objects.         *)
Accepts(a, entry) ==
    /\ entry # Junk
    /\ Job(a).language = "go" => Addresses(entry.from.heap) = Addresses(Heap(a))

AfterRetained(a) ==
    IF Job(a) = [language |-> "python", command |-> "text"] THEN "done" ELSE "sha256"

Hit(a) == name[a] \in DOMAIN cache /\ Accepts(a, cache[name[a]])

LoadCache(a) ==
    /\ Goes(a, "lookup", AfterRetained(a))
    /\ Hit(a)
    /\ numbers' = [numbers EXCEPT ![a] = cache[name[a]]]
    /\ UNCHANGED <<cache, loaded, name, temp, report, moved>>

CacheMiss(a) ==
    /\ Goes(a, "lookup", "calculate")
    /\ ~Hit(a)
    /\ UNCHANGED <<cache, loaded, name, numbers, temp, report, moved>>

(* RetainedHeapCalculator and CalculateRetainedHeap: see Retained.         *)
Calculate(a) ==
    LET fails == Job(a).language = "python" /\ DanglingLocal(Heap(a)) IN
    /\ \/ Goes(a, "calculate", "error") /\ fails /\ UNCHANGED numbers
       \/ /\ Goes(a, "calculate", IF Job(a).language = "python" THEN "rehash" ELSE "store")
          /\ ~fails
          /\ numbers' = [numbers EXCEPT ![a] = [from |-> loaded[a], moved |-> FALSE]]
    /\ UNCHANGED <<cache, loaded, name, temp, report, moved>>

-----------------------------------------------------------------------------
(* RetainedHeapCache.store, storeRetainedCache.  Python hashes the artifact*)
(* once more for the name.  Whatever fails here is suppressed.             *)
HashForStore(a) ==
    /\ \/ file # None /\ Goes(a, "rehash", "store")
       \/ file = None /\ Goes(a, "rehash", AfterRetained(a))
    /\ name' = [name EXCEPT ![a] = IF file = None THEN None ELSE CachePath(file)]
    /\ UNCHANGED <<cache, loaded, numbers, temp, report, moved>>

(* The temporary file beside the cache file is made and written.           *)
WriteCache(a) ==
    /\ Goes(a, "store", "replace")
    /\ temp' = [temp EXCEPT ![a] = [from |-> numbers[a].from, moved |-> moved[a]]]
    /\ UNCHANGED <<cache, loaded, name, numbers, report, moved>>

ReplaceCache(a) ==
    /\ Goes(a, "replace", AfterRetained(a))
    /\ cache' = [n \in DOMAIN cache \cup {name[a]} |->
                    IF n = name[a] THEN [temp[a] EXCEPT !.moved = moved[a]] ELSE cache[n]]
    /\ temp' = [temp EXCEPT ![a] = None]
    /\ UNCHANGED <<loaded, name, numbers, report, moved>>

(* Mutant: the error reaches the command.                                  *)
StoreRaises(a) ==
    /\ Goes(a, "store", "error") \/ Goes(a, "replace", "error")
    /\ temp' = [temp EXCEPT ![a] = None]
    /\ UNCHANGED <<cache, loaded, name, numbers, report, moved>>

(* The directory, the temporary file or the renaming fails; the temporary  *)
(* file is removed in every case.                                          *)
StoreFails(a) ==
    /\ Goes(a, "store", AfterRetained(a)) \/ Goes(a, "replace", AfterRetained(a))
    /\ temp' = [temp EXCEPT ![a] = None]
    /\ UNCHANGED <<cache, loaded, name, numbers, report, moved>>

-----------------------------------------------------------------------------
(* build_heap_analysis, BuildReport: two more reads of what is under the   *)
(* name now, then the numbers are looked up, object by object and thread by*)
(* thread.                                                                 *)
HashForReport(a) ==
    /\ IF file = None THEN Goes(a, "sha256", "error") ELSE Goes(a, "sha256", "stat")
    /\ report' = [report EXCEPT ![a].words = IF file = None THEN None ELSE file.words]
    /\ UNCHANGED <<cache, loaded, name, numbers, temp, moved>>

StatForReport(a) ==
    /\ IF file = None THEN Goes(a, "stat", "error") ELSE Goes(a, "stat", "build")
    /\ report' = [report EXCEPT ![a].size = IF file = None THEN 0 ELSE Len(file.words)]
    /\ UNCHANGED <<cache, loaded, name, numbers, temp, moved>>

(* The document each object's number is from; 0 for one without.           *)
Sizes(a) ==
    [o \in Addresses(Heap(a)) |->
        IF o \in Addresses(numbers[a].from.heap) THEN numbers[a].from.words ELSE <<>>]

(* The summary has no numbers.  Python fails on a thread without a number, *)
(* Go reports 0.                                                           *)
BuildReport(a) ==
    LET computed == Job(a).command # "summary"
        fails == /\ computed /\ Job(a).language = "python"
                 /\ ~(ThreadNames(Heap(a)) \subseteq ThreadNames(numbers[a].from.heap))
    IN
    /\ pc[a] = "build" /\ Goes(a, "build", IF fails THEN "error" ELSE "done")
    /\ report' = [report EXCEPT ![a].sizes = IF computed /\ ~fails THEN Sizes(a) ELSE None]
    /\ UNCHANGED <<cache, loaded, name, numbers, temp, moved>>

-----------------------------------------------------------------------------
Kill(a) ==
    /\ pc[a] \notin Ended \cup {"off"}
    /\ Goes(a, pc[a], "killed")
    /\ UNCHANGED <<cache, loaded, name, numbers, temp, report, moved>>

(* Somebody removes the artifact, or puts another in its place: a capture  *)
(* to the same name (os.replace).                                          *)
ReplaceArtifact ==
    /\ replaced < MaxReplace
    /\ \E d \in scenario.documents \cup {None} : d # file /\ file' = d
    /\ replaced' = replaced + 1
    /\ moved' = [a \in Analyzers |-> moved[a] \/ pc[a] \notin Ended \cup {"off", "load"}]
    /\ UNCHANGED <<scenario, cache, pc, loaded, name, numbers, temp, report>>

AllEnded == /\ \A a \in Analyzers : pc[a] \in Ended \cup {"off"}
            /\ UNCHANGED vars

Next ==
    \/ \E a \in DOMAIN scenario.jobs :
          \/ LoadHeap(a) \/ LoadFails(a) \/ HashForLoad(a) \/ LoadCache(a) \/ CacheMiss(a)
          \/ Calculate(a) \/ HashForStore(a) \/ WriteCache(a) \/ ReplaceCache(a) \/ StoreFails(a)
          \/ HashForReport(a) \/ StatForReport(a) \/ BuildReport(a) \/ Kill(a)
    \/ ReplaceArtifact
    \/ AllEnded

Spec == Init /\ [][Next]_vars

-----------------------------------------------------------------------------
(* Properties.                                                             *)

(* What an analyzer reads is what the writer was given, but for the strings*)
(* and sizes that v1 cuts to its fields, whatever the addresses, counts and*)
(* strings are; a document whose writer finished is never refused, and one *)
(* whose writer was killed or raised always is, wherever the writer stopped*)
(* (HeapWriter, validate_artifact, HeapReader.read).                       *)
ReadsWhatWasWritten ==
    \A a \in Analyzers :
        /\ loaded[a] # None => /\ loaded[a].complete /\ Validated(loaded[a].words)
                               /\ Heap(a) = Meaning(loaded[a].of)
        /\ pc[a] = "error" /\ loaded[a] = None /\ replaced = 0 => ~file.complete

(* What the cache holds under the name of the present artifact belongs to  *)
(* that artifact, after any sequence of replacements, kills and analyzers  *)
(* of both languages, unless the artifact changed while the analyzer that  *)
(* stored it was at work (the name is hashed after the heap is read).      *)
CacheFits ==
    file # None /\ CachePath(file) \in DOMAIN cache =>
        LET entry == cache[CachePath(file)] IN
        entry = Junk \/ entry.moved \/ entry.from.words = file.words

(* A report is about one artifact: its hash, its size and every retained   *)
(* size belong to the heap it was built from, unless the artifact changed  *)
(* meanwhile or the cache entry was stored while it changed.  Go's report  *)
(* has a number for every object even then (loadRetainedCache).            *)
ReportTrue ==
    \A a \in Analyzers : pc[a] = "done" =>
        /\ report[a].words # None /\ ~moved[a] =>
              report[a].words = loaded[a].words /\ report[a].size = Len(loaded[a].words)
        /\ report[a].sizes # None /\ ~moved[a] /\ ~numbers[a].moved =>
              \A o \in DOMAIN report[a].sizes : report[a].sizes[o] = loaded[a].words
        /\ report[a].sizes # None /\ Job(a).language = "go" =>
              \A o \in DOMAIN report[a].sizes : report[a].sizes[o] # <<>>

(* The cache never costs a result: an analyzer that read its artifact ends *)
(* with a report, whatever the cache held and however storing it failed,   *)
(* unless it is killed, the artifact changed, or retained.py cannot count a*)
(* thread's locals; and only one that is killed leaves a temporary file.   *)
CacheCostsNothing ==
    \A a \in Analyzers :
        /\ pc[a] = "error" /\ loaded[a] # None =>
              \/ moved[a] \/ numbers[a].moved
              \/ Job(a).language = "python" /\ DanglingLocal(Heap(a))
        /\ pc[a] \in {"done", "error"} => temp[a] = None
=============================================================================
