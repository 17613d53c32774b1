--------------------------- MODULE AnalysisProofs ---------------------------
(***************************************************************************)
(* The safety of the retained cache and of the reports, for any documents, *)
(* any number of analyzers and any replacement of the artifact; and that a *)
(* reader makes of a document what its writer was given, for any heap.     *)
(***************************************************************************)
EXTENDS Analysis, SequenceTheorems, FiniteSetTheorems, TLAPS

Working == {"hash", "lookup", "calculate", "rehash", "store", "replace", "sha256", "stat",
            "build"}

(* The variables of the analyzers are functions on them.                   *)
OwnInv ==
    /\ scenario \in Scenarios
    /\ pc \in [Analyzers -> {"off", "load"} \cup Working \cup Ended]
    /\ moved \in [Analyzers -> BOOLEAN]
    /\ DOMAIN loaded = Analyzers /\ DOMAIN name = Analyzers /\ DOMAIN numbers = Analyzers
    /\ DOMAIN temp = Analyzers /\ DOMAIN report = Analyzers
    /\ \A a \in Analyzers : DOMAIN report[a] = {"words", "size", "sizes"}

(* An analyzer that is at work has read a heap, of the present artifact if *)
(* that did not change.                                                    *)
IsLoaded(d) == d.heap.accepted /\ d.heap = HeapRead(d.words)
LoadInv(a) ==
    /\ pc[a] \in Working => IsLoaded(loaded[a])
    /\ pc[a] \in Working /\ ~moved[a] => file # None /\ loaded[a].words = file.words
    /\ pc[a] = "load" => loaded[a] = None /\ ~moved[a]

(* The name under which it looks or stores is that of what it has read, if *)
(* the artifact did not change, and what it stores was calculated from it. *)
StoreInv(a) ==
    /\ /\ ~moved[a]
       /\ \/ pc[a] \in {"lookup", "store", "replace"}
          \/ pc[a] = "calculate" /\ Job(a).language # "python"
       => name[a] = loaded[a].words
    /\ pc[a] \in {"rehash", "store", "replace"} =>
          numbers[a] = [from |-> loaded[a], moved |-> FALSE]
    /\ pc[a] = "replace" => \E m \in BOOLEAN : temp[a] = [from |-> loaded[a], moved |-> m]
    /\ pc[a] \notin {"replace", "killed"} => temp[a] = None

(* What is in the cache was calculated from the document its name stands   *)
(* for, unless the artifact changed meanwhile.                             *)
CacheInv ==
    \A n \in DOMAIN cache :
        \/ cache[n] = Junk
        \/ IsLoaded(cache[n].from) /\ (cache[n].moved \/ cache[n].from.words = n)

(* The numbers an analyzer reports from fit what it has read.              *)
NumbersFit(a) ==
    /\ IsLoaded(numbers[a].from)
    /\ ~moved[a] /\ ~numbers[a].moved => numbers[a].from.words = loaded[a].words
    /\ Job(a).language = "go" => Addresses(numbers[a].from.heap) = Addresses(Heap(a))
NumbersInv(a) ==
    pc[a] \in {"sha256", "stat", "build"} /\ Job(a).command # "summary" => NumbersFit(a)

(* The identity a report has so far.                                       *)
IdentityInv(a) ==
    /\ pc[a] \in ({"load"} \cup Working) \ {"stat", "build"} => report[a] = NoReport
    /\ pc[a] \in {"stat", "build"} => report[a].sizes = None
    /\ pc[a] \in {"stat", "build"} /\ ~moved[a] => report[a].words = loaded[a].words
    /\ pc[a] = "build" /\ ~moved[a] => report[a].size = Len(loaded[a].words)

(* How it ended, which nothing touches any more.                           *)
Reported(a) ==
    pc[a] = "done" =>
        /\ report[a].words # None /\ ~moved[a] =>
              report[a].words = loaded[a].words /\ report[a].size = Len(loaded[a].words)
        /\ report[a].sizes # None /\ ~moved[a] /\ ~numbers[a].moved =>
              \A o \in DOMAIN report[a].sizes : report[a].sizes[o] = loaded[a].words
        /\ report[a].sizes # None /\ Job(a).language = "go" =>
              \A o \in DOMAIN report[a].sizes : report[a].sizes[o] # <<>>
Excused(a) ==
    pc[a] = "error" /\ loaded[a] # None =>
        \/ moved[a] \/ numbers[a].moved
        \/ Job(a).language = "python" /\ DanglingLocal(Heap(a))

RunInv(a) == /\ LoadInv(a) /\ StoreInv(a) /\ NumbersInv(a) /\ IdentityInv(a)
             /\ Reported(a) /\ Excused(a)
IInv == OwnInv /\ CacheInv /\ \A a \in Analyzers : RunInv(a)

-----------------------------------------------------------------------------
(* What the readers do not accept.                                         *)
LEMMA EmptyRefused == ~HeapRead(<<>>).accepted
  <1>1. \A at : ReadU32(<<>>, at) = Truncated
    BY DEF ReadU32
  <1>2. \A at : ReadU32(<<>>, at).at = 0
    BY <1>1 DEF Truncated, Read
  <1>3. Truncated.at = 0
    BY DEF Truncated, Read
  <1>4. ASSUME NEW h PROVE ReadCommonTypes(<<>>, h).at = 0
    BY <1>2, <1>3, Zenon DEF ReadCommonTypes, Then, With, Read, ReadSeq, ReadItems, Items
  <1>5. ~(ReadCommonTypes(<<>>, ReadHeader(<<>>)).at > 0)
    BY <1>4
  <1>6. HeapRead(<<>>) = Refused
    BY <1>5 DEF HeapRead
  <1> QED
    BY <1>6 DEF Refused
-----------------------------------------------------------------------------
(* One step of one analyzer leaves the others where they are.              *)
Still(b) ==
    /\ pc'[b] = pc[b] /\ loaded'[b] = loaded[b] /\ name'[b] = name[b] /\ numbers'[b] = numbers[b]
    /\ temp'[b] = temp[b] /\ report'[b] = report[b] /\ moved'[b] = moved[b]
StepOf(a) ==
    /\ scenario' = scenario /\ file' = file
    /\ \A b \in Analyzers \ {a} : Still(b)

(* An analyzer with a job is one of them.                                  *)
LEMMA JobIsAnalyzers == ASSUME OwnInv, NEW a \in DOMAIN scenario.jobs PROVE a \in Analyzers
  BY AnalysisAssumption DEF OwnInv

(* Nothing about an analyzer changes that stands still.                    *)
LEMMA StillKeeps ==
    ASSUME NEW b \in Analyzers, RunInv(b), Still(b), scenario' = scenario, file' = file
    PROVE  RunInv(b)'
  <1> USE DEF Still, Heap, Job
  <1>1. LoadInv(b)'
    BY DEF RunInv, LoadInv, IsLoaded
  <1>2. StoreInv(b)'
    BY DEF RunInv, StoreInv
  <1>3. NumbersInv(b)'
    BY DEF RunInv, NumbersInv, NumbersFit, IsLoaded
  <1>4. IdentityInv(b)'
    BY DEF RunInv, IdentityInv
  <1>5. Reported(b)'
    BY DEF RunInv, Reported
  <1>6. Excused(b)'
    BY DEF RunInv, Excused
  <1> QED
    BY <1>1, <1>2, <1>3, <1>4, <1>5, <1>6 DEF RunInv

(* So a step is right when it is right about its own analyzer.             *)
LEMMA StepKeeps ==
    ASSUME IInv, NEW a \in Analyzers, StepOf(a), OwnInv', CacheInv', RunInv(a)'
    PROVE  IInv'
  <1>1. ASSUME NEW b \in Analyzers PROVE RunInv(b)'
    <2>1. CASE b = a
      BY <2>1
    <2>2. CASE b # a
      BY <2>2, StillKeeps DEF StepOf, IInv
    <2> QED
      BY <2>1, <2>2
  <1> QED
    BY <1>1 DEF IInv

(* While the cache stays as it is, what is in it does.                     *)
LEMMA CacheKeeps == ASSUME CacheInv, cache' = cache PROVE CacheInv'
  BY DEF CacheInv, IsLoaded

(* The places of the program.                                              *)
LEMMA Places ==
    ASSUME NEW a \in Analyzers
    PROVE  AfterRetained(a) \in {"done", "sha256"}
  BY DEF AfterRetained

(* A step from one place to another.                                       *)
LEMMA GoesStep ==
    ASSUME OwnInv, NEW a \in Analyzers, NEW from, NEW to, Goes(a, from, to),
           to \in {"off", "load"} \cup Working \cup Ended
    PROVE  /\ pc[a] = from /\ pc'[a] = to
           /\ pc' \in [Analyzers -> {"off", "load"} \cup Working \cup Ended]
           /\ \A b \in Analyzers \ {a} : pc'[b] = pc[b]
           /\ scenario' = scenario /\ file' = file
  BY DEF OwnInv, Goes
-----------------------------------------------------------------------------
(* Reading the artifact, and looking in the cache.                         *)
LEMMA LoadHeapInv == ASSUME IInv, NEW a \in DOMAIN scenario.jobs, LoadHeap(a) PROVE IInv'
  <1>0. a \in Analyzers /\ OwnInv /\ CacheInv /\ RunInv(a)
    BY JobIsAnalyzers DEF IInv
  <1> DEFINE to == IF Job(a).command = "summary" THEN "sha256" ELSE "hash"
  <1>1. /\ pc[a] = "load" /\ pc'[a] = to
        /\ pc' \in [Analyzers -> {"off", "load"} \cup Working \cup Ended]
        /\ \A b \in Analyzers \ {a} : pc'[b] = pc[b]
        /\ scenario' = scenario /\ file' = file
    <2>1. to \in {"off", "load"} \cup Working \cup Ended
      BY DEF Working
    <2>2. Goes(a, "load", to)
      BY DEF LoadHeap
    <2> HIDE DEF to
    <2> QED
      BY <1>0, <2>1, <2>2, GoesStep
  <1>2. /\ HeapThere.accepted
        /\ loaded' = [loaded EXCEPT ![a] = [heap |-> HeapThere, words |-> file.words,
                                            of |-> file.of, complete |-> file.complete]]
        /\ UNCHANGED <<cache, name, numbers, temp, report, moved>>
    BY DEF LoadHeap
  <1>3. file # None /\ HeapThere = HeapRead(file.words)
    BY <1>2 DEF HeapThere, Refused
  <1>4. IsLoaded(loaded'[a]) /\ loaded'[a].words = file.words
    <2>1. loaded'[a] = [heap |-> HeapThere, words |-> file.words, of |-> file.of,
                        complete |-> file.complete]
      BY <1>0, <1>2 DEF OwnInv
    <2> QED
      BY <2>1, <1>2, <1>3 DEF IsLoaded
  <1>5. OwnInv' /\ StepOf(a)
    BY <1>0, <1>1, <1>2 DEF OwnInv, StepOf, Still
  <1>6. CacheInv'
    BY <1>0, <1>2, CacheKeeps
  <1>7. RunInv(a)'
    <2>1. pc'[a] \in {"sha256", "hash"} /\ (pc'[a] = "sha256" => Job(a)'.command = "summary")
      BY <1>1 DEF Job
    <2>2. LoadInv(a)'
      BY <2>1, <1>1, <1>3, <1>4 DEF LoadInv
    <2>3. StoreInv(a)'
      BY <2>1, <1>0, <1>1, <1>2 DEF StoreInv, RunInv
    <2>4. NumbersInv(a)'
      BY <2>1 DEF NumbersInv
    <2>5. IdentityInv(a)'
      BY <2>1, <1>0, <1>1, <1>2 DEF IdentityInv, RunInv
    <2>6. Reported(a)' /\ Excused(a)'
      BY <2>1 DEF Reported, Excused
    <2> QED
      BY <2>2, <2>3, <2>4, <2>5, <2>6 DEF RunInv
  <1> QED
    BY <1>0, <1>5, <1>6, <1>7, StepKeeps

(* An artifact that is missing or refused: nothing was read.               *)
LEMMA LoadFailsInv == ASSUME IInv, NEW a \in DOMAIN scenario.jobs, LoadFails(a) PROVE IInv'
  <1>0. a \in Analyzers /\ OwnInv /\ CacheInv /\ RunInv(a)
    BY JobIsAnalyzers DEF IInv
  <1>1. /\ pc[a] = "load" /\ pc'[a] = "error"
        /\ pc' \in [Analyzers -> {"off", "load"} \cup Working \cup Ended]
        /\ \A b \in Analyzers \ {a} : pc'[b] = pc[b]
        /\ scenario' = scenario /\ file' = file
    BY <1>0, GoesStep DEF LoadFails, Ended
  <1>2. UNCHANGED <<cache, loaded, name, numbers, temp, report, moved>>
    BY DEF LoadFails
  <1>3. OwnInv' /\ StepOf(a)
    BY <1>0, <1>1, <1>2 DEF OwnInv, StepOf, Still
  <1>4. CacheInv'
    BY <1>0, <1>2, CacheKeeps
  <1>5. loaded'[a] = None
    BY <1>0, <1>1, <1>2 DEF RunInv, LoadInv
  <1>6. RunInv(a)'
    <2>1. StoreInv(a)'
      BY <1>0, <1>1, <1>2 DEF StoreInv, RunInv
    <2> QED
      BY <2>1, <1>1, <1>5 DEF RunInv, LoadInv, NumbersInv, IdentityInv, Reported, Excused, Working
  <1> QED
    BY <1>0, <1>3, <1>4, <1>6, StepKeeps

(* The name to look under, of what is there now.                           *)
LEMMA HashForLoadInv == ASSUME IInv, NEW a \in DOMAIN scenario.jobs, HashForLoad(a) PROVE IInv'
  <1>0. a \in Analyzers /\ OwnInv /\ CacheInv /\ RunInv(a)
    BY JobIsAnalyzers DEF IInv
  <1>1. PICK to \in {"lookup", "calculate", "error"} :
            /\ Goes(a, "hash", to)
            /\ to = "lookup" <=> file # None
            /\ to = "calculate" => Job(a).language = "python"
    BY DEF HashForLoad
  <1>2. /\ pc[a] = "hash" /\ pc'[a] = to
        /\ pc' \in [Analyzers -> {"off", "load"} \cup Working \cup Ended]
        /\ \A b \in Analyzers \ {a} : pc'[b] = pc[b]
        /\ scenario' = scenario /\ file' = file
    <2>1. to \in {"off", "load"} \cup Working \cup Ended
      BY DEF Working, Ended
    <2> QED
      BY <1>0, <1>1, <2>1, GoesStep
  <1>3. /\ name' = [name EXCEPT ![a] = IF file = None THEN None ELSE CachePath(file)]
        /\ UNCHANGED <<cache, loaded, numbers, temp, report, moved>>
    BY DEF HashForLoad
  <1>4. file # None => name'[a] = file.words
    BY <1>0, <1>3 DEF OwnInv, CachePath
  <1>5. OwnInv' /\ StepOf(a)
    BY <1>0, <1>2, <1>3 DEF OwnInv, StepOf, Still
  <1>6. CacheInv'
    BY <1>0, <1>3, CacheKeeps
  <1>7. /\ IsLoaded(loaded[a])
        /\ ~moved[a] => file # None /\ loaded[a].words = file.words
    BY <1>0, <1>2 DEF RunInv, LoadInv, Working
  <1>8. RunInv(a)'
    <2>1. LoadInv(a)'
      BY <1>2, <1>3, <1>7 DEF LoadInv, IsLoaded
    <2>2. StoreInv(a)'
      BY <1>0, <1>1, <1>2, <1>3, <1>4, <1>7 DEF StoreInv, RunInv, Job
    <2>3. NumbersInv(a)'
      BY <1>2 DEF NumbersInv
    <2>4. IdentityInv(a)'
      BY <1>0, <1>2, <1>3 DEF IdentityInv, RunInv, Working
    <2>5. Reported(a)'
      BY <1>2 DEF Reported
    <2>6. Excused(a)'
      BY <1>1, <1>2, <1>3, <1>7 DEF Excused
    <2> QED
      BY <2>1, <2>2, <2>3, <2>4, <2>5, <2>6 DEF RunInv
  <1> QED
    BY <1>0, <1>5, <1>6, <1>8, StepKeeps

(* With its numbers an analyzer goes on, or is done.                       *)
LEMMA RetainedStep ==
    ASSUME OwnInv, NEW a \in Analyzers, RunInv(a),
           pc[a] \in {"lookup", "rehash", "store", "replace"}, pc'[a] = AfterRetained(a),
           scenario' = scenario, file' = file,
           loaded'[a] = loaded[a], report'[a] = report[a], moved'[a] = moved[a],
           temp'[a] = None, NumbersFit(a)'
    PROVE  RunInv(a)'
  <1>1. pc'[a] \in {"done", "sha256"}
    BY Places
  <1>2. LoadInv(a)'
    BY <1>1 DEF RunInv, LoadInv, Working, IsLoaded
  <1>3. StoreInv(a)'
    BY <1>1 DEF StoreInv
  <1>4. NumbersInv(a)'
    BY DEF NumbersInv
  <1>5. report'[a] = NoReport
    BY DEF RunInv, IdentityInv, Working
  <1>6. IdentityInv(a)'
    BY <1>1, <1>5 DEF IdentityInv
  <1>7. Reported(a)' /\ Excused(a)'
    BY <1>1, <1>5 DEF Reported, Excused, NoReport
  <1> QED
    BY <1>2, <1>3, <1>4, <1>6, <1>7 DEF RunInv

(* The numbers calculated from what an analyzer has read fit it.           *)
LEMMA OwnNumbersFit ==
    ASSUME NEW a \in Analyzers, scenario' = scenario, loaded'[a] = loaded[a], IsLoaded(loaded[a]),
           numbers'[a] = [from |-> loaded[a], moved |-> FALSE]
    PROVE  NumbersFit(a)'
  BY DEF NumbersFit, IsLoaded, Heap

(* What is taken from the cache fits, by the name it was found under.      *)
LEMMA LoadCacheInv == ASSUME IInv, NEW a \in DOMAIN scenario.jobs, LoadCache(a) PROVE IInv'
  <1>0. a \in Analyzers /\ OwnInv /\ CacheInv /\ RunInv(a)
    BY JobIsAnalyzers DEF IInv
  <1>1. /\ pc[a] = "lookup" /\ pc'[a] = AfterRetained(a)
        /\ pc' \in [Analyzers -> {"off", "load"} \cup Working \cup Ended]
        /\ \A b \in Analyzers \ {a} : pc'[b] = pc[b]
        /\ scenario' = scenario /\ file' = file
    <2>1. AfterRetained(a) \in {"off", "load"} \cup Working \cup Ended
      BY <1>0, Places DEF Working, Ended
    <2>2. Goes(a, "lookup", AfterRetained(a))
      BY DEF LoadCache
    <2> QED
      BY <1>0, <2>1, <2>2, GoesStep
  <1>2. /\ numbers' = [numbers EXCEPT ![a] = cache[name[a]]]
        /\ UNCHANGED <<cache, loaded, name, temp, report, moved>>
        /\ name[a] \in DOMAIN cache /\ Accepts(a, cache[name[a]])
    BY DEF LoadCache, Hit
  <1>3. numbers'[a] = cache[name[a]]
    BY <1>0, <1>2 DEF OwnInv
  <1>4. OwnInv' /\ StepOf(a)
    BY <1>0, <1>1, <1>2 DEF OwnInv, StepOf, Still
  <1>5. CacheInv'
    BY <1>0, <1>2, CacheKeeps
  <1>6. NumbersFit(a)'
    <2> DEFINE entry == cache[name[a]]
    <2>1. /\ IsLoaded(entry.from)
          /\ entry.moved \/ entry.from.words = name[a]
      BY <1>0, <1>2 DEF CacheInv, Accepts
    <2>2. ~moved[a] => name[a] = loaded[a].words
      BY <1>0, <1>1 DEF RunInv, StoreInv
    <2>3. Job(a).language = "go" => Addresses(entry.from.heap) = Addresses(loaded[a].heap)
      BY <1>2 DEF Accepts, Heap
    <2> HIDE DEF entry
    <2>4. numbers'[a] = entry /\ loaded'[a] = loaded[a] /\ moved'[a] = moved[a]
      BY <1>2, <1>3 DEF entry
    <2> QED
      BY <1>1, <2>1, <2>2, <2>3, <2>4 DEF NumbersFit, IsLoaded, Heap, Job
  <1>7. temp'[a] = None
    BY <1>0, <1>1, <1>2 DEF RunInv, StoreInv
  <1>8. RunInv(a)'
    BY <1>0, <1>1, <1>2, <1>6, <1>7, RetainedStep
  <1> QED
    BY <1>0, <1>4, <1>5, <1>8, StepKeeps

(* Nothing was found, or nothing that is accepted.                         *)
LEMMA CacheMissInv == ASSUME IInv, NEW a \in DOMAIN scenario.jobs, CacheMiss(a) PROVE IInv'
  <1>0. a \in Analyzers /\ OwnInv /\ CacheInv /\ RunInv(a)
    BY JobIsAnalyzers DEF IInv
  <1>1. /\ pc[a] = "lookup" /\ pc'[a] = "calculate"
        /\ pc' \in [Analyzers -> {"off", "load"} \cup Working \cup Ended]
        /\ \A b \in Analyzers \ {a} : pc'[b] = pc[b]
        /\ scenario' = scenario /\ file' = file
    BY <1>0, GoesStep DEF CacheMiss, Working
  <1>2. UNCHANGED <<cache, loaded, name, numbers, temp, report, moved>>
    BY DEF CacheMiss
  <1>3. OwnInv' /\ StepOf(a)
    BY <1>0, <1>1, <1>2 DEF OwnInv, StepOf, Still
  <1>4. CacheInv'
    BY <1>0, <1>2, CacheKeeps
  <1>5. RunInv(a)'
    <2>1. LoadInv(a)'
      BY <1>0, <1>1, <1>2 DEF LoadInv, RunInv, Working, IsLoaded
    <2>2. StoreInv(a)'
      BY <1>0, <1>1, <1>2 DEF StoreInv, RunInv
    <2>3. IdentityInv(a)'
      BY <1>0, <1>1, <1>2 DEF IdentityInv, RunInv, Working
    <2> QED
      BY <2>1, <2>2, <2>3, <1>1 DEF RunInv, NumbersInv, Reported, Excused
  <1> QED
    BY <1>0, <1>3, <1>4, <1>5, StepKeeps

(* The numbers are calculated, or Python fails on a dangling local.        *)
LEMMA CalculateInv == ASSUME IInv, NEW a \in DOMAIN scenario.jobs, Calculate(a) PROVE IInv'
  <1>0. a \in Analyzers /\ OwnInv /\ CacheInv /\ RunInv(a)
    BY JobIsAnalyzers DEF IInv
  <1> DEFINE fails == Job(a).language = "python" /\ DanglingLocal(Heap(a))
  <1>1. PICK to \in {"error", "rehash", "store"} :
            /\ Goes(a, "calculate", to)
            /\ to = "error" => fails /\ numbers' = numbers
            /\ to # "error" =>
                  numbers' = [numbers EXCEPT ![a] = [from |-> loaded[a], moved |-> FALSE]]
            /\ to = "store" => Job(a).language # "python"
    BY DEF Calculate
  <1>2. /\ pc[a] = "calculate" /\ pc'[a] = to
        /\ pc' \in [Analyzers -> {"off", "load"} \cup Working \cup Ended]
        /\ \A b \in Analyzers \ {a} : pc'[b] = pc[b]
        /\ scenario' = scenario /\ file' = file
    <2>1. to \in {"off", "load"} \cup Working \cup Ended
      BY DEF Working, Ended
    <2> QED
      BY <1>0, <1>1, <2>1, GoesStep
  <1>3. UNCHANGED <<cache, loaded, name, temp, report, moved>>
    BY DEF Calculate
  <1>4. to # "error" => numbers'[a] = [from |-> loaded[a], moved |-> FALSE]
    BY <1>0, <1>1 DEF OwnInv
  <1>5. OwnInv' /\ StepOf(a)
    <2>1. DOMAIN numbers' = Analyzers /\ \A b \in Analyzers \ {a} : numbers'[b] = numbers[b]
      BY <1>0, <1>1 DEF OwnInv
    <2> QED
      BY <2>1, <1>0, <1>2, <1>3 DEF OwnInv, StepOf, Still
  <1>6. CacheInv'
    BY <1>0, <1>3, CacheKeeps
  <1>7. RunInv(a)'
    <2>1. LoadInv(a)'
      BY <1>0, <1>2, <1>3 DEF LoadInv, RunInv, Working, IsLoaded
    <2>2. StoreInv(a)'
      BY <1>0, <1>1, <1>2, <1>3, <1>4 DEF StoreInv, RunInv
    <2>3. IdentityInv(a)'
      BY <1>0, <1>2, <1>3 DEF IdentityInv, RunInv, Working
    <2>4. Excused(a)'
      BY <1>1, <1>2, <1>3 DEF Excused, Heap, Job
    <2> QED
      BY <2>1, <2>2, <2>3, <2>4, <1>2 DEF RunInv, NumbersInv, Reported
  <1> QED
    BY <1>0, <1>5, <1>6, <1>7, StepKeeps

-----------------------------------------------------------------------------
(* Storing the numbers, which may fail at any point.                       *)
LEMMA HashForStoreInv == ASSUME IInv, NEW a \in DOMAIN scenario.jobs, HashForStore(a) PROVE IInv'
  <1>0. a \in Analyzers /\ OwnInv /\ CacheInv /\ RunInv(a)
    BY JobIsAnalyzers DEF IInv
  <1>1. PICK to \in {"store", AfterRetained(a)} :
            /\ Goes(a, "rehash", to)
            /\ to = "store" => file # None
    <2>1. AfterRetained(a) # "store"
      BY <1>0, Places
    <2> QED
      BY <2>1 DEF HashForStore
  <1>2. /\ pc[a] = "rehash" /\ pc'[a] = to
        /\ pc' \in [Analyzers -> {"off", "load"} \cup Working \cup Ended]
        /\ \A b \in Analyzers \ {a} : pc'[b] = pc[b]
        /\ scenario' = scenario /\ file' = file
    <2>1. to \in {"off", "load"} \cup Working \cup Ended
      BY <1>0, Places DEF Working, Ended
    <2> QED
      BY <1>0, <1>1, <2>1, GoesStep
  <1>3. /\ name' = [name EXCEPT ![a] = IF file = None THEN None ELSE CachePath(file)]
        /\ UNCHANGED <<cache, loaded, numbers, temp, report, moved>>
    BY DEF HashForStore
  <1>4. file # None => name'[a] = file.words
    BY <1>0, <1>3 DEF OwnInv, CachePath
  <1>5. OwnInv' /\ StepOf(a)
    BY <1>0, <1>2, <1>3 DEF OwnInv, StepOf, Still
  <1>6. CacheInv'
    BY <1>0, <1>3, CacheKeeps
  <1>7. /\ IsLoaded(loaded[a]) /\ numbers'[a] = [from |-> loaded[a], moved |-> FALSE]
        /\ ~moved[a] => file # None /\ loaded[a].words = file.words
        /\ temp'[a] = None
    BY <1>0, <1>2, <1>3 DEF RunInv, LoadInv, StoreInv, Working
  <1>8. RunInv(a)'
    <2>1. CASE to = AfterRetained(a)
      <3>1. NumbersFit(a)'
        BY <1>0, <1>2, <1>3, <1>7, OwnNumbersFit
      <3> QED
        BY <2>1, <3>1, <1>0, <1>2, <1>3, <1>7, RetainedStep
    <2>2. CASE to = "store"
      <3>1. LoadInv(a)'
        BY <2>2, <1>2, <1>3, <1>7 DEF LoadInv, IsLoaded
      <3>2. StoreInv(a)'
        BY <2>2, <1>1, <1>2, <1>3, <1>4, <1>7 DEF StoreInv
      <3>3. IdentityInv(a)'
        BY <2>2, <1>0, <1>2, <1>3 DEF IdentityInv, RunInv, Working
      <3> QED
        BY <2>2, <3>1, <3>2, <3>3, <1>2 DEF RunInv, NumbersInv, Reported, Excused
    <2> QED
      BY <2>1, <2>2
  <1> QED
    BY <1>0, <1>5, <1>6, <1>8, StepKeeps

(* The temporary file holds what was calculated.                           *)
LEMMA WriteCacheInv == ASSUME IInv, NEW a \in DOMAIN scenario.jobs, WriteCache(a) PROVE IInv'
  <1>0. a \in Analyzers /\ OwnInv /\ CacheInv /\ RunInv(a)
    BY JobIsAnalyzers DEF IInv
  <1>1. /\ pc[a] = "store" /\ pc'[a] = "replace"
        /\ pc' \in [Analyzers -> {"off", "load"} \cup Working \cup Ended]
        /\ \A b \in Analyzers \ {a} : pc'[b] = pc[b]
        /\ scenario' = scenario /\ file' = file
    BY <1>0, GoesStep DEF WriteCache, Working
  <1>2. /\ temp' = [temp EXCEPT ![a] = [from |-> numbers[a].from, moved |-> moved[a]]]
        /\ UNCHANGED <<cache, loaded, name, numbers, report, moved>>
    BY DEF WriteCache
  <1>3. temp'[a] = [from |-> loaded[a], moved |-> moved[a]] /\ moved[a] \in BOOLEAN
    <2>1. numbers[a] = [from |-> loaded[a], moved |-> FALSE]
      BY <1>0, <1>1 DEF RunInv, StoreInv
    <2> QED
      BY <2>1, <1>0, <1>2 DEF OwnInv
  <1>4. OwnInv' /\ StepOf(a)
    BY <1>0, <1>1, <1>2 DEF OwnInv, StepOf, Still
  <1>5. CacheInv'
    BY <1>0, <1>2, CacheKeeps
  <1>6. RunInv(a)'
    <2>1. LoadInv(a)'
      BY <1>0, <1>1, <1>2 DEF LoadInv, RunInv, Working, IsLoaded
    <2>2. StoreInv(a)'
      BY <1>0, <1>1, <1>2, <1>3 DEF StoreInv, RunInv
    <2>3. IdentityInv(a)'
      BY <1>0, <1>1, <1>2 DEF IdentityInv, RunInv, Working
    <2> QED
      BY <2>1, <2>2, <2>3, <1>1 DEF RunInv, NumbersInv, Reported, Excused
  <1> QED
    BY <1>0, <1>4, <1>5, <1>6, StepKeeps

(* The cache file is what was calculated, under the name it was hashed for.*)
LEMMA ReplaceCacheInv == ASSUME IInv, NEW a \in DOMAIN scenario.jobs, ReplaceCache(a) PROVE IInv'
  <1>0. a \in Analyzers /\ OwnInv /\ CacheInv /\ RunInv(a)
    BY JobIsAnalyzers DEF IInv
  <1>1. /\ pc[a] = "replace" /\ pc'[a] = AfterRetained(a)
        /\ pc' \in [Analyzers -> {"off", "load"} \cup Working \cup Ended]
        /\ \A b \in Analyzers \ {a} : pc'[b] = pc[b]
        /\ scenario' = scenario /\ file' = file
    <2>1. AfterRetained(a) \in {"off", "load"} \cup Working \cup Ended
      BY <1>0, Places DEF Working, Ended
    <2>2. Goes(a, "replace", AfterRetained(a))
      BY DEF ReplaceCache
    <2> QED
      BY <1>0, <2>1, <2>2, GoesStep
  <1>2. /\ cache' = [n \in DOMAIN cache \cup {name[a]} |->
                        IF n = name[a] THEN [temp[a] EXCEPT !.moved = moved[a]] ELSE cache[n]]
        /\ temp' = [temp EXCEPT ![a] = None]
        /\ UNCHANGED <<loaded, name, numbers, report, moved>>
    BY DEF ReplaceCache
  <1>3. /\ IsLoaded(loaded[a]) /\ numbers[a] = [from |-> loaded[a], moved |-> FALSE]
        /\ moved[a] \/ loaded[a].words = name[a]
    BY <1>0, <1>1 DEF RunInv, LoadInv, StoreInv, Working
  <1>4. OwnInv' /\ StepOf(a)
    BY <1>0, <1>1, <1>2 DEF OwnInv, StepOf, Still
  <1>5. CacheInv'
    <2>1. cache'[name[a]] = [from |-> loaded[a], moved |-> moved[a]]
      <3>1. PICK m \in BOOLEAN : temp[a] = [from |-> loaded[a], moved |-> m]
        BY <1>0, <1>1 DEF RunInv, StoreInv
      <3> QED
        BY <1>2, <3>1
    <2>2. ASSUME NEW n \in DOMAIN cache', n # name[a]
          PROVE  n \in DOMAIN cache /\ cache'[n] = cache[n]
      BY <1>2, <2>2
    <2>3. ASSUME NEW n \in DOMAIN cache'
          PROVE  \/ cache'[n] = Junk
                 \/ IsLoaded(cache'[n].from) /\ (cache'[n].moved \/ cache'[n].from.words = n)
      <3>1. CASE n = name[a]
        BY <3>1, <2>1, <1>3
      <3>2. CASE n # name[a]
        BY <3>2, <2>2, <1>0 DEF CacheInv
      <3> QED
        BY <3>1, <3>2
    <2> QED
      BY <2>3 DEF CacheInv, IsLoaded, Junk
  <1>6. NumbersFit(a)'
    BY <1>0, <1>1, <1>2, <1>3, OwnNumbersFit
  <1>7. temp'[a] = None
    BY <1>0, <1>2 DEF OwnInv
  <1>8. RunInv(a)'
    BY <1>0, <1>1, <1>2, <1>6, <1>7, RetainedStep
  <1> QED
    BY <1>0, <1>4, <1>5, <1>8, StepKeeps

(* Storing fails and the analyzer goes on.                                 *)
LEMMA StoreFailsInv == ASSUME IInv, NEW a \in DOMAIN scenario.jobs, StoreFails(a) PROVE IInv'
  <1>0. a \in Analyzers /\ OwnInv /\ CacheInv /\ RunInv(a)
    BY JobIsAnalyzers DEF IInv
  <1>1. PICK from \in {"store", "replace"} : Goes(a, from, AfterRetained(a))
    BY DEF StoreFails
  <1>2. /\ pc[a] \in {"store", "replace"} /\ pc'[a] = AfterRetained(a)
        /\ pc' \in [Analyzers -> {"off", "load"} \cup Working \cup Ended]
        /\ \A b \in Analyzers \ {a} : pc'[b] = pc[b]
        /\ scenario' = scenario /\ file' = file
    <2>1. AfterRetained(a) \in {"off", "load"} \cup Working \cup Ended
      BY <1>0, Places DEF Working, Ended
    <2> QED
      BY <1>0, <1>1, <2>1, GoesStep
  <1>3. /\ temp' = [temp EXCEPT ![a] = None]
        /\ UNCHANGED <<cache, loaded, name, numbers, report, moved>>
    BY DEF StoreFails
  <1>4. IsLoaded(loaded[a]) /\ numbers[a] = [from |-> loaded[a], moved |-> FALSE]
    BY <1>0, <1>2 DEF RunInv, LoadInv, StoreInv, Working
  <1>5. OwnInv' /\ StepOf(a)
    BY <1>0, <1>2, <1>3 DEF OwnInv, StepOf, Still
  <1>6. CacheInv'
    BY <1>0, <1>3, CacheKeeps
  <1>7. NumbersFit(a)'
    BY <1>0, <1>2, <1>3, <1>4, OwnNumbersFit
  <1>8. temp'[a] = None
    BY <1>0, <1>3 DEF OwnInv
  <1>9. RunInv(a)'
    BY <1>0, <1>2, <1>3, <1>7, <1>8, RetainedStep
  <1> QED
    BY <1>0, <1>5, <1>6, <1>9, StepKeeps

-----------------------------------------------------------------------------
(* Building the report.                                                    *)
LEMMA HashForReportInv == ASSUME IInv, NEW a \in DOMAIN scenario.jobs, HashForReport(a) PROVE IInv'
  <1>0. a \in Analyzers /\ OwnInv /\ CacheInv /\ RunInv(a)
    BY JobIsAnalyzers DEF IInv
  <1>1. PICK to \in {"error", "stat"} : Goes(a, "sha256", to) /\ (to = "error" <=> file = None)
    BY DEF HashForReport
  <1>2. /\ pc[a] = "sha256" /\ pc'[a] = to
        /\ pc' \in [Analyzers -> {"off", "load"} \cup Working \cup Ended]
        /\ \A b \in Analyzers \ {a} : pc'[b] = pc[b]
        /\ scenario' = scenario /\ file' = file
    <2>1. to \in {"off", "load"} \cup Working \cup Ended
      BY DEF Working, Ended
    <2> QED
      BY <1>0, <1>1, <2>1, GoesStep
  <1>3. /\ report' = [report EXCEPT ![a].words = IF file = None THEN None ELSE file.words]
        /\ UNCHANGED <<cache, loaded, name, numbers, temp, moved>>
    BY DEF HashForReport
  <1>4. /\ DOMAIN report' = Analyzers /\ \A b \in Analyzers \ {a} : report'[b] = report[b]
        /\ DOMAIN report'[a] = {"words", "size", "sizes"}
        /\ report'[a].sizes = report[a].sizes
        /\ file # None => report'[a].words = file.words
    BY <1>0, <1>3 DEF OwnInv
  <1>5. OwnInv' /\ StepOf(a)
    <2>1. \A b \in Analyzers : DOMAIN report'[b] = {"words", "size", "sizes"}
      BY <1>0, <1>4 DEF OwnInv
    <2> QED
      BY <2>1, <1>0, <1>2, <1>3, <1>4 DEF OwnInv, StepOf, Still
  <1>6. CacheInv'
    BY <1>0, <1>3, CacheKeeps
  <1>7. /\ IsLoaded(loaded[a]) /\ temp[a] = None
        /\ ~moved[a] => file # None /\ loaded[a].words = file.words
        /\ report[a] = NoReport
    BY <1>0, <1>2 DEF RunInv, LoadInv, StoreInv, IdentityInv, Working
  <1>8. RunInv(a)'
    <2>1. LoadInv(a)'
      BY <1>2, <1>3, <1>7 DEF LoadInv, IsLoaded
    <2>2. StoreInv(a)'
      BY <1>2, <1>3, <1>7 DEF StoreInv
    <2>3. NumbersInv(a)'
      BY <1>0, <1>2, <1>3 DEF RunInv, NumbersInv, NumbersFit, IsLoaded, Heap, Job
    <2>4. IdentityInv(a)'
      <3>1. report'[a].sizes = None
        BY <1>4, <1>7 DEF NoReport
      <3> QED
        BY <3>1, <1>2, <1>3, <1>4, <1>7 DEF IdentityInv, Working
    <2>5. Reported(a)' /\ Excused(a)'
      BY <1>1, <1>2, <1>3, <1>7 DEF Reported, Excused
    <2> QED
      BY <2>1, <2>2, <2>3, <2>4, <2>5 DEF RunInv
  <1> QED
    BY <1>0, <1>5, <1>6, <1>8, StepKeeps

(* The size for the report.                                                *)
LEMMA StatForReportInv == ASSUME IInv, NEW a \in DOMAIN scenario.jobs, StatForReport(a) PROVE IInv'
  <1>0. a \in Analyzers /\ OwnInv /\ CacheInv /\ RunInv(a)
    BY JobIsAnalyzers DEF IInv
  <1>1. PICK to \in {"error", "build"} : Goes(a, "stat", to) /\ (to = "error" <=> file = None)
    BY DEF StatForReport
  <1>2. /\ pc[a] = "stat" /\ pc'[a] = to
        /\ pc' \in [Analyzers -> {"off", "load"} \cup Working \cup Ended]
        /\ \A b \in Analyzers \ {a} : pc'[b] = pc[b]
        /\ scenario' = scenario /\ file' = file
    <2>1. to \in {"off", "load"} \cup Working \cup Ended
      BY DEF Working, Ended
    <2> QED
      BY <1>0, <1>1, <2>1, GoesStep
  <1>3. /\ report' = [report EXCEPT ![a].size = IF file = None THEN 0 ELSE Len(file.words)]
        /\ UNCHANGED <<cache, loaded, name, numbers, temp, moved>>
    BY DEF StatForReport
  <1>4. /\ DOMAIN report' = Analyzers /\ \A b \in Analyzers \ {a} : report'[b] = report[b]
        /\ DOMAIN report'[a] = {"words", "size", "sizes"}
        /\ report'[a].sizes = report[a].sizes /\ report'[a].words = report[a].words
        /\ file # None => report'[a].size = Len(file.words)
    BY <1>0, <1>3 DEF OwnInv
  <1>5. OwnInv' /\ StepOf(a)
    <2>1. \A b \in Analyzers : DOMAIN report'[b] = {"words", "size", "sizes"}
      BY <1>0, <1>4 DEF OwnInv
    <2> QED
      BY <2>1, <1>0, <1>2, <1>3, <1>4 DEF OwnInv, StepOf, Still
  <1>6. CacheInv'
    BY <1>0, <1>3, CacheKeeps
  <1>7. /\ IsLoaded(loaded[a]) /\ temp[a] = None
        /\ ~moved[a] => file # None /\ loaded[a].words = file.words
        /\ ~moved[a] => report[a].words = loaded[a].words
        /\ report[a].sizes = None
    BY <1>0, <1>2 DEF RunInv, LoadInv, StoreInv, IdentityInv, Working
  <1>8. RunInv(a)'
    <2>1. LoadInv(a)'
      BY <1>2, <1>3, <1>7 DEF LoadInv, IsLoaded
    <2>2. StoreInv(a)'
      BY <1>2, <1>3, <1>7 DEF StoreInv
    <2>3. NumbersInv(a)'
      BY <1>0, <1>2, <1>3 DEF RunInv, NumbersInv, NumbersFit, IsLoaded, Heap, Job
    <2>4. IdentityInv(a)'
      BY <1>2, <1>3, <1>4, <1>7 DEF IdentityInv, Working
    <2>5. Reported(a)' /\ Excused(a)'
      BY <1>1, <1>2, <1>3, <1>7 DEF Reported, Excused
    <2> QED
      BY <2>1, <2>2, <2>3, <2>4, <2>5 DEF RunInv
  <1> QED
    BY <1>0, <1>5, <1>6, <1>8, StepKeeps

(* The numbers in a report are those of the heap it is about: a document   *)
(* with the same words is the same heap, and one with the same objects has *)
(* a number for each.                                                      *)
LEMMA SizesFit ==
    ASSUME NEW a, IsLoaded(loaded[a]), NumbersFit(a)
    PROVE  /\ ~moved[a] /\ ~numbers[a].moved =>
                 /\ \A o \in DOMAIN Sizes(a) : Sizes(a)[o] = loaded[a].words
                 /\ ThreadNames(Heap(a)) = ThreadNames(numbers[a].from.heap)
           /\ Job(a).language = "go" => \A o \in DOMAIN Sizes(a) : Sizes(a)[o] # <<>>
  <1>1. numbers[a].from.words # <<>>
    BY EmptyRefused DEF NumbersFit, IsLoaded
  <1>2. ~moved[a] /\ ~numbers[a].moved => /\ numbers[a].from.heap = Heap(a)
                                          /\ numbers[a].from.words = loaded[a].words
    BY DEF NumbersFit, IsLoaded, Heap
  <1>3. DOMAIN Sizes(a) = Addresses(Heap(a))
    BY DEF Sizes
  <1>4. ASSUME NEW o \in Addresses(Heap(a)), o \in Addresses(numbers[a].from.heap)
        PROVE  Sizes(a)[o] = numbers[a].from.words
    BY <1>4 DEF Sizes
  <1>5. ASSUME ~moved[a], ~numbers[a].moved, NEW o \in DOMAIN Sizes(a)
        PROVE  Sizes(a)[o] = loaded[a].words
    BY <1>2, <1>3, <1>4, <1>5
  <1>6. ASSUME Job(a).language = "go", NEW o \in DOMAIN Sizes(a)
        PROVE  Sizes(a)[o] # <<>>
    BY <1>1, <1>3, <1>4, <1>6 DEF NumbersFit
  <1> QED
    BY <1>2, <1>5, <1>6

(* The report, or Python's failure on a thread without a number.           *)
LEMMA BuildReportInv == ASSUME IInv, NEW a \in DOMAIN scenario.jobs, BuildReport(a) PROVE IInv'
  <1>0. a \in Analyzers /\ OwnInv /\ CacheInv /\ RunInv(a)
    BY JobIsAnalyzers DEF IInv
  <1> DEFINE computed == Job(a).command # "summary"
             fails == /\ computed /\ Job(a).language = "python"
                      /\ ~(ThreadNames(Heap(a)) \subseteq ThreadNames(numbers[a].from.heap))
             sizes == IF computed /\ ~fails THEN Sizes(a) ELSE None
  <1>1. PICK to \in {"error", "done"} : Goes(a, "build", to) /\ (to = "error" <=> fails)
    BY DEF BuildReport
  <1>2. /\ pc[a] = "build" /\ pc'[a] = to
        /\ pc' \in [Analyzers -> {"off", "load"} \cup Working \cup Ended]
        /\ \A b \in Analyzers \ {a} : pc'[b] = pc[b]
        /\ scenario' = scenario /\ file' = file
    <2>1. to \in {"off", "load"} \cup Working \cup Ended
      BY DEF Ended
    <2>2. Goes(a, "build", to)
      BY <1>1
    <2> QED
      BY <1>0, <2>1, <2>2, GoesStep
  <1>3. /\ report' = [report EXCEPT ![a].sizes = sizes]
        /\ UNCHANGED <<cache, loaded, name, numbers, temp, moved>>
    BY DEF BuildReport
  <1>4. /\ IsLoaded(loaded[a]) /\ temp[a] = None
        /\ ~moved[a] => report[a].words = loaded[a].words /\ report[a].size = Len(loaded[a].words)
        /\ computed => NumbersFit(a)
    BY <1>0, <1>2 DEF RunInv, LoadInv, StoreInv, NumbersInv, IdentityInv, Working
  <1>5. /\ sizes # None => computed /\ sizes = Sizes(a)
        /\ fails => computed /\ ThreadNames(Heap(a)) # ThreadNames(numbers[a].from.heap)
    OBVIOUS
  <1> HIDE DEF computed, fails, sizes
  <1>6. /\ DOMAIN report' = Analyzers /\ \A b \in Analyzers \ {a} : report'[b] = report[b]
        /\ DOMAIN report'[a] = {"words", "size", "sizes"}
        /\ report'[a].words = report[a].words /\ report'[a].size = report[a].size
        /\ report'[a].sizes = sizes
    BY <1>0, <1>3 DEF OwnInv
  <1>7. OwnInv' /\ StepOf(a)
    <2>1. \A b \in Analyzers : DOMAIN report'[b] = {"words", "size", "sizes"}
      BY <1>0, <1>6 DEF OwnInv
    <2> QED
      BY <2>1, <1>0, <1>2, <1>3, <1>6 DEF OwnInv, StepOf, Still
  <1>8. CacheInv'
    BY <1>0, <1>3, CacheKeeps
  <1>9. RunInv(a)'
    <2>1. Reported(a)'
      <3>1. ASSUME sizes # None, ~moved[a], ~numbers[a].moved
            PROVE  \A o \in DOMAIN sizes : sizes[o] = loaded[a].words
        BY <3>1, <1>4, <1>5, SizesFit
      <3>2. ASSUME sizes # None, Job(a).language = "go"
            PROVE  \A o \in DOMAIN sizes : sizes[o] # <<>>
        BY <3>2, <1>4, <1>5, SizesFit
      <3> QED
        BY <3>1, <3>2, <1>2, <1>3, <1>4, <1>6 DEF Reported, Job
    <2>2. Excused(a)'
      BY <1>1, <1>2, <1>3, <1>4, <1>5, SizesFit DEF Excused
    <2>3. LoadInv(a)' /\ StoreInv(a)'
      BY <1>2, <1>3, <1>4 DEF LoadInv, StoreInv, Working
    <2>4. NumbersInv(a)' /\ IdentityInv(a)'
      BY <1>2 DEF NumbersInv, IdentityInv, Working
    <2> QED
      BY <2>1, <2>2, <2>3, <2>4 DEF RunInv
  <1> QED
    BY <1>0, <1>7, <1>8, <1>9, StepKeeps

-----------------------------------------------------------------------------
(* A kill, and a change of the artifact.                                   *)
LEMMA KillInv == ASSUME IInv, NEW a \in DOMAIN scenario.jobs, Kill(a) PROVE IInv'
  <1>0. a \in Analyzers /\ OwnInv /\ CacheInv /\ RunInv(a)
    BY JobIsAnalyzers DEF IInv
  <1>1. /\ pc'[a] = "killed"
        /\ pc' \in [Analyzers -> {"off", "load"} \cup Working \cup Ended]
        /\ \A b \in Analyzers \ {a} : pc'[b] = pc[b]
        /\ scenario' = scenario /\ file' = file
    BY <1>0, GoesStep DEF Kill, Ended
  <1>2. UNCHANGED <<cache, loaded, name, numbers, temp, report, moved>>
    BY DEF Kill
  <1>3. OwnInv' /\ StepOf(a)
    BY <1>0, <1>1, <1>2 DEF OwnInv, StepOf, Still
  <1>4. CacheInv'
    BY <1>0, <1>2, CacheKeeps
  <1>5. RunInv(a)'
    BY <1>1 DEF RunInv, LoadInv, StoreInv, NumbersInv, IdentityInv, Reported, Excused, Working
  <1> QED
    BY <1>0, <1>3, <1>4, <1>5, StepKeeps

(* Every analyzer that has read the artifact and has not ended has moved;  *)
(* for the others nothing has.                                             *)
LEMMA ReplaceArtifactInv == ASSUME IInv, ReplaceArtifact PROVE IInv'
  <1>1. /\ moved' = [a \in Analyzers |-> moved[a] \/ pc[a] \notin Ended \cup {"off", "load"}]
        /\ UNCHANGED <<scenario, cache, pc, loaded, name, numbers, temp, report>>
    BY DEF ReplaceArtifact
  <1>2. OwnInv /\ CacheInv
    BY DEF IInv
  <1>3. OwnInv'
    <2>1. moved' \in [Analyzers -> BOOLEAN]
      BY <1>1, <1>2 DEF OwnInv
    <2> QED
      BY <2>1, <1>1, <1>2 DEF OwnInv
  <1>4. CacheInv'
    BY <1>1, <1>2, CacheKeeps
  <1>5. ASSUME NEW a \in Analyzers PROVE RunInv(a)'
    <2>1. RunInv(a)
      BY DEF IInv
    <2>2. /\ pc[a] \in Working => moved'[a]
          /\ pc[a] \notin Working => moved'[a] = moved[a]
      BY <1>1, <1>2 DEF OwnInv, Working, Ended
    <2>3. moved[a] => moved'[a]
      BY <1>1
    <2>4. LoadInv(a)'
      BY <1>1, <2>1, <2>2 DEF RunInv, LoadInv, IsLoaded
    <2>5. StoreInv(a)'
      BY <1>1, <2>1, <2>3 DEF RunInv, StoreInv, Job
    <2>6. NumbersInv(a)'
      BY <1>1, <2>1, <2>3 DEF RunInv, NumbersInv, NumbersFit, IsLoaded, Heap, Job
    <2>7. IdentityInv(a)'
      BY <1>1, <2>1, <2>3 DEF RunInv, IdentityInv
    <2>8. Reported(a)'
      BY <1>1, <2>1, <2>3 DEF RunInv, Reported, Job
    <2>9. Excused(a)'
      BY <1>1, <2>1, <2>3 DEF RunInv, Excused, Heap, Job
    <2> QED
      BY <2>4, <2>5, <2>6, <2>7, <2>8, <2>9 DEF RunInv
  <1> QED
    BY <1>3, <1>4, <1>5 DEF IInv

(* Nothing happens.                                                        *)
LEMMA StutterInv == ASSUME IInv, UNCHANGED vars PROVE IInv'
  <1>1. OwnInv' /\ CacheInv'
    BY CacheKeeps DEF IInv, OwnInv, vars, own
  <1>2. ASSUME NEW a \in Analyzers PROVE RunInv(a)'
    BY StillKeeps DEF IInv, Still, vars, own
  <1> QED
    BY <1>1, <1>2 DEF IInv

-----------------------------------------------------------------------------
(* The invariant holds at the start, with or without a broken cache file.  *)
LEMMA InitInv == Init => IInv
  <1> SUFFICES ASSUME Init PROVE IInv
    OBVIOUS
  <1> USE DEF Init
  <1>1. OwnInv
    BY DEF OwnInv, NoReport, Working, Ended
  <1>2. CacheInv
    <2>1. CASE cache = <<>>
      BY <2>1 DEF CacheInv
    <2>2. CASE cache = [n \in {CachePath(file)} |-> Junk]
      BY <2>2 DEF CacheInv
    <2> QED
      BY <2>1, <2>2
  <1>3. ASSUME NEW a \in Analyzers PROVE RunInv(a)
    <2>1. /\ pc[a] \in {"load", "off"} /\ loaded[a] = None /\ moved[a] = FALSE
          /\ temp[a] = None /\ report[a] = NoReport
      OBVIOUS
    <2>2. LoadInv(a) /\ StoreInv(a)
      BY <2>1 DEF LoadInv, StoreInv, Working
    <2>3. NumbersInv(a) /\ IdentityInv(a) /\ Reported(a) /\ Excused(a)
      BY <2>1 DEF NumbersInv, IdentityInv, Reported, Excused, Working
    <2> QED
      BY <2>2, <2>3 DEF RunInv
  <1> QED
    BY <1>1, <1>2, <1>3 DEF IInv

(* Every step keeps it.                                                    *)
LEMMA NextInv == IInv /\ [Next]_vars => IInv'
  <1> SUFFICES ASSUME IInv, [Next]_vars PROVE IInv'
    OBVIOUS
  <1>1. ASSUME NEW a \in DOMAIN scenario.jobs,
               LoadHeap(a) \/ LoadFails(a) \/ HashForLoad(a) \/ LoadCache(a) \/ CacheMiss(a)
        PROVE  IInv'
    BY <1>1, LoadHeapInv, LoadFailsInv, HashForLoadInv, LoadCacheInv, CacheMissInv
  <1>2. ASSUME NEW a \in DOMAIN scenario.jobs,
               Calculate(a) \/ HashForStore(a) \/ WriteCache(a) \/ ReplaceCache(a) \/ StoreFails(a)
        PROVE  IInv'
    BY <1>2, CalculateInv, HashForStoreInv, WriteCacheInv, ReplaceCacheInv, StoreFailsInv
  <1>3. ASSUME NEW a \in DOMAIN scenario.jobs,
               HashForReport(a) \/ StatForReport(a) \/ BuildReport(a) \/ Kill(a)
        PROVE  IInv'
    BY <1>3, HashForReportInv, StatForReportInv, BuildReportInv, KillInv
  <1>4. CASE ReplaceArtifact
    BY <1>4, ReplaceArtifactInv
  <1>5. CASE AllEnded \/ UNCHANGED vars
    BY <1>5, StutterInv DEF AllEnded
  <1> QED
    BY <1>1, <1>2, <1>3, <1>4, <1>5 DEF Next

(* So it holds in every reachable state.                                   *)
LEMMA InvHolds == Spec => []IInv
  BY InitInv, NextInv, PTL DEF Spec

-----------------------------------------------------------------------------
(* What the cache holds under the present artifact's name belongs to it,   *)
(* whatever was killed or replaced, unless the artifact changed while the  *)
(* analyzer that stored it was at work (RetainedHeapCache.path and store,  *)
(* retainedCachePath and storeRetainedCache).                              *)
THEOREM CacheIsOfTheArtifact == Spec => []CacheFits
  <1>1. IInv => CacheFits
    BY DEF IInv, CacheInv, CacheFits, CachePath
  <1> QED
    BY <1>1, InvHolds, PTL

(* The hash, the size and the retained sizes of a report belong to the heap*)
(* it was built from, and Go's has a number for every object               *)
(* (build_heap_analysis, BuildReport, loadRetainedCache).                  *)
THEOREM ReportIsTrue == Spec => []ReportTrue
  <1>1. IInv => ReportTrue
    BY DEF IInv, RunInv, Reported, ReportTrue
  <1> QED
    BY <1>1, InvHolds, PTL

(* No content of the cache and no failure to store it costs an analyzer its*)
(* report, and it leaves no temporary file unless it is killed             *)
(* (RetainedHeapCache.store, storeRetainedCache, build_heap_analysis).     *)
THEOREM CacheIsHarmless == Spec => []CacheCostsNothing
  <1>1. IInv => CacheCostsNothing
    BY DEF IInv, RunInv, Excused, StoreInv, CacheCostsNothing
  <1> QED
    BY <1>1, InvHolds, PTL

-----------------------------------------------------------------------------
(* Numbers.                                                                *)

(* A set of natural numbers that is not empty has a least element.         *)
LEMMA LeastNat == ASSUME NEW T \in SUBSET Nat, T # {} PROVE \E m \in T : \A k \in T : m <= k
  <1> DEFINE R == OpToRel(<, Nat)
  <1>1. IsWellFoundedOn(R, Nat)
    BY NatLessThanWellFounded
  <1>2. \A x, y \in Nat : <<x, y>> \in R <=> x < y
    BY DEF OpToRel
  <1> HIDE DEF R
  <1>3. PICK m \in T : \A y \in T : ~(<<y, m>> \in R)
    BY <1>1, WFMin
  <1>4. ASSUME NEW k \in T PROVE m <= k
    <2>1. ~(k < m) /\ k \in Nat /\ m \in Nat
      BY <1>2, <1>3
    <2> QED
      BY <2>1
  <1> QED
    BY <1>4

(* A set of numbers with 0 and every successor is the set of all of them.  *)
LEMMA NatInduct ==
    ASSUME NEW T \in SUBSET Nat, 0 \in T, \A n \in T : n + 1 \in T
    PROVE  T = Nat
  <1> SUFFICES ASSUME Nat \ T # {} PROVE FALSE
    OBVIOUS
  <1> DEFINE U == Nat \ T
  <1>1. PICK m \in U : \A k \in U : m <= k
    <2>1. U \in SUBSET Nat /\ U # {}
      OBVIOUS
    <2> HIDE DEF U
    <2> QED
      BY <2>1, LeastNat
  <1>2. m # 0 /\ m - 1 \in Nat /\ (m - 1) + 1 = m
    OBVIOUS
  <1>3. m - 1 \in T
    BY <1>1, <1>2
  <1> QED
    BY <1>2, <1>3

-----------------------------------------------------------------------------
(* Words at a place of a document, and what is read there.                 *)

(* The words w stand in d from the position at.                            *)
WrittenAt(d, at, w) ==
    /\ at \in Nat /\ at > 0
    /\ at + Len(w) <= Len(d) + 1
    /\ \A i \in 1..Len(w) : d[at + i - 1] = w[i]

(* What is written in two parts: the second stands behind the first.       *)
LEMMA Parts ==
    ASSUME NEW d \in Words, NEW at, NEW u \in Words, NEW v \in Words, WrittenAt(d, at, u \o v)
    PROVE  /\ WrittenAt(d, at, u) /\ WrittenAt(d, at + Len(u), v)
           /\ u \o v \in Words /\ Len(u \o v) = Len(u) + Len(v)
  <1>1. u \o v \in Words /\ Len(u \o v) = Len(u) + Len(v)
    BY DEF Words
  <1>2. Len(u) \in Nat /\ Len(v) \in Nat /\ Len(d) \in Nat
    BY DEF Words
  <1>3. \A i \in 1..Len(u) : (u \o v)[i] = u[i]
    BY DEF Words
  <1>4. \A i \in 1..Len(v) : (u \o v)[Len(u) + i] = v[i]
    BY <1>2 DEF Words
  <1>5. WrittenAt(d, at, u)
    BY <1>1, <1>2, <1>3 DEF WrittenAt
  <1>6. at \in Nat /\ at > 0 /\ at + (Len(u) + Len(v)) <= Len(d) + 1
    BY <1>1 DEF WrittenAt
  <1>7. ASSUME NEW i \in 1..Len(v) PROVE d[(at + Len(u)) + i - 1] = v[i]
    <2>1. Len(u) + i \in 1..Len(u \o v)
      BY <1>1, <1>2
    <2>2. d[at + (Len(u) + i) - 1] = (u \o v)[Len(u) + i]
      BY <2>1 DEF WrittenAt
    <2>3. at + (Len(u) + i) - 1 = (at + Len(u)) + i - 1
      BY <1>2, <1>6
    <2> QED
      BY <1>4, <2>2, <2>3
  <1>8. WrittenAt(d, at + Len(u), v)
    BY <1>2, <1>6, <1>7 DEF WrittenAt
  <1> QED
    BY <1>1, <1>5, <1>8

(* The second part alone, and where it ends.                               *)
LEMMA Behind ==
    ASSUME NEW d \in Words, NEW at, NEW u \in Words, NEW v \in Words, WrittenAt(d, at, u \o v)
    PROVE  WrittenAt(d, at + Len(u), v) /\ at + Len(u \o v) = (at + Len(u)) + Len(v)
  <1>1. WrittenAt(d, at + Len(u), v) /\ Len(u \o v) = Len(u) + Len(v)
    BY Parts
  <1>2. at \in Nat /\ Len(u) \in Nat /\ Len(v) \in Nat
    BY DEF WrittenAt, Words
  <1> QED
    BY <1>1, <1>2

(* Some sequence, and a read that has the first k fields of the record T.  *)
IsSeq(T) == \E S : T \in Seq(S)
Partial(p, T, k) == Read(p, SubSeq(T, 1, k))

(* Field by field.                                                         *)
LEMMA Filled ==
    ASSUME NEW T, IsSeq(T), NEW k \in Nat, k + 1 <= Len(T), NEW p, NEW q
    PROVE  With(Partial(p, T, k), Read(q, T[k + 1])) = Partial(q, T, k + 1)
  <1>1. PICK S : T \in Seq(S)
    BY DEF IsSeq
  <1>2. Len(T) \in Nat
    BY <1>1
  <1> DEFINE s == Append(SubSeq(T, 1, k), T[k + 1])
             t == SubSeq(T, 1, k + 1)
             u == SubSeq(T, 1, k)
  <1>3. u \in Seq(S) /\ Len(u) = k /\ \A i \in 1..k : u[i] = T[i]
    <2>1. \A i \in 1..k : T[i] \in S
      BY <1>1, <1>2
    <2>2. 1 \in 1..Len(T) + 1 /\ k \in 0..Len(T)
      BY <1>2
    <2> QED
      BY <1>1, <1>2, <2>2, SubSeqProperties
  <1>4. t \in Seq(S) /\ Len(t) = k + 1 /\ \A i \in 1..k + 1 : t[i] = T[i]
    <2>2. 1 \in 1..Len(T) + 1 /\ k + 1 \in 0..Len(T)
      BY <1>2
    <2> QED
      BY <1>1, <1>2, <2>2, SubSeqProperties
  <1>5. T[k + 1] \in S
    BY <1>1, <1>2
  <1> HIDE DEF t, u
  <1>6. s = Append(u, T[k + 1])
    BY DEF u
  <1> HIDE DEF s
  <1>7. s \in Seq(S) /\ Len(s) = k + 1 /\ s[k + 1] = T[k + 1] /\ \A i \in 1..k : s[i] = u[i]
    BY <1>3, <1>5, <1>6
  <1>8. \A i \in 1..Len(s) : s[i] = t[i]
    BY <1>3, <1>4, <1>7
  <1>9. s = t
    BY <1>4, <1>7, <1>8, SeqEqual
  <1> QED
    BY <1>9 DEF s, t, With, Partial, Read

(* At the beginning and at the end.                                        *)
LEMMA NothingFilled == ASSUME NEW T, IsSeq(T), NEW p PROVE Start(p) = Partial(p, T, 0)
  <1>1. PICK S : T \in Seq(S)
    BY DEF IsSeq
  <1>2. SubSeq(T, 1, 0) = <<>>
    BY <1>1, SubSeqEmpty
  <1> QED
    BY <1>2 DEF Start, Partial

(* All the fields of the record.                                           *)
LEMMA AllFilled == ASSUME NEW T, IsSeq(T), NEW p PROVE Partial(p, T, Len(T)) = Read(p, T)
  <1>1. PICK S : T \in Seq(S)
    BY DEF IsSeq
  <1>2. SubSeq(T, 1, Len(T)) = T
    BY <1>1, SubSeqFull
  <1> QED
    BY <1>2 DEF Partial

(* A field that has been read.                                             *)
LEMMA FilledVal ==
    ASSUME NEW T, IsSeq(T), NEW k \in Nat, k <= Len(T), NEW p, NEW i \in 1..k
    PROVE  Partial(p, T, k).val[i] = T[i]
  <1>1. PICK S : T \in Seq(S)
    BY DEF IsSeq
  <1>2. 1 \in 1..Len(T) + 1 /\ k \in 0..Len(T) /\ i \in 1..k - 1 + 1 /\ 1 + i - 1 = i
    BY <1>1
  <1>3. SubSeq(T, 1, k)[i] = T[i]
    BY <1>1, <1>2, SubSeqProperties
  <1> QED
    BY <1>3 DEF Partial, Read

(* A record of two fields.                                                 *)
LEMMA Two == ASSUME NEW a, NEW b PROVE IsSeq(<<a, b>>) /\ Len(<<a, b>>) = 2
  <1>1. <<a, b>> \in Seq({a, b})
    OBVIOUS
  <1> QED
    BY <1>1 DEF IsSeq

(* One word.                                                               *)
LEMMA U32IsRead ==
    ASSUME NEW d \in Words, NEW at, NEW n, WrittenAt(d, at, <<n>>)
    PROVE  ReadU32(d, at) = Read(at + 1, n)
  <1>1. Len(<<n>>) = 1 /\ <<n>>[1] = n
    OBVIOUS
  <1>2. at \in DOMAIN d /\ d[at] = n
    BY <1>1 DEF WrittenAt, Words
  <1> QED
    BY <1>2 DEF ReadU32

(* An address.                                                             *)
LEMMA U64IsRead ==
    ASSUME NEW d \in Words, NEW at, NEW a \in U64, WrittenAt(d, at, a)
    PROVE  ReadU64(d, at) = Read(at + Len(a), a)
  <1>1. Len(a) = 2 /\ a = <<a[1], a[2]>>
    BY DEF U64, Words
  <1>2. at \in DOMAIN d /\ at + 1 \in DOMAIN d
    BY <1>1 DEF WrittenAt, Words
  <1>3. d[at + 1 - 1] = a[1] /\ d[at + 2 - 1] = a[2]
    BY <1>1 DEF WrittenAt
  <1>4. at + 1 - 1 = at /\ at + 2 - 1 = at + 1
    BY DEF WrittenAt
  <1> QED
    BY <1>1, <1>2, <1>3, <1>4, Zenon DEF ReadU64

(* The words themselves.                                                   *)
LEMMA WrittenSub ==
    ASSUME NEW d \in Words, NEW at, NEW w \in Words, WrittenAt(d, at, w)
    PROVE  SubSeq(d, at, at + Len(w) - 1) = w
  <1>1. Len(w) \in Nat /\ Len(d) \in Nat /\ at \in Nat /\ at > 0 /\ at + Len(w) <= Len(d) + 1
    BY DEF WrittenAt, Words
  <1> DEFINE e == SubSeq(d, at, at + Len(w) - 1)
  <1>2. e \in Seq(Nat) /\ Len(e) = Len(w)
    BY <1>1 DEF Words
  <1>3. ASSUME NEW i \in 1..Len(w) PROVE e[i] = w[i]
    <2>1. e[i] = d[at + i - 1]
      BY <1>1 DEF Words
    <2> QED
      BY <2>1 DEF WrittenAt
  <1> HIDE DEF e
  <1>4. e = [i \in 1..Len(w) |-> e[i]] /\ w = [i \in 1..Len(w) |-> w[i]]
    BY <1>2 DEF Words
  <1>5. e = w
    BY <1>3, <1>4
  <1> QED
    BY <1>5 DEF e

(* The characters of a string.                                             *)
LEMMA StringIsRead ==
    ASSUME NEW d \in Words, NEW at, NEW w \in Words, WrittenAt(d, at, w)
    PROVE  ReadString(d, at, Len(w)) = Read(at + Len(w), w)
  <1>1. Len(w) \in Nat /\ Len(d) \in Nat /\ at \in Nat /\ at > 0 /\ at + Len(w) <= Len(d) + 1
    BY DEF WrittenAt, Words
  <1>2. ~(at = 0 \/ at + Len(w) > Len(d) + 1)
    BY <1>1
  <1>3. SubSeq(d, at, at + Len(w) - 1) = w
    BY WrittenSub
  <1> QED
    BY <1>2, <1>3, Zenon DEF ReadString

(* What is left of a string that is cut.                                   *)
LEMMA CutType ==
    ASSUME NEW s \in Words, NEW n \in Nat PROVE Cut(s, n) \in Words /\ Len(Cut(s, n)) <= n
  <1>1. Len(s) \in Nat
    BY DEF Words
  <1> QED
    BY <1>1 DEF Cut, Words

(* The limits of strings are numbers.                                      *)
LEMMA StringsNat == MaxString \in Nat /\ MaxString >= 1 /\ MaxShort \in Nat
  BY FormatAssumption

(* A string with its length.                                               *)
LEMMA LongStringIsRead ==
    ASSUME NEW d \in Words, NEW at, NEW s \in Words, WrittenAt(d, at, WriteLongString(s))
    PROVE  ReadLongString(d, at) = Read(at + Len(WriteLongString(s)), Cut(s, MaxString))
  <1> DEFINE c == Cut(s, MaxString)
  <1>1. c \in Words /\ Len(c) \in Nat /\ <<Len(c)>> \in Words /\ Len(<<Len(c)>>) = 1
    BY CutType, StringsNat DEF Words
  <1> HIDE DEF c
  <1>2. WrittenAt(d, at, <<Len(c)>> \o c)
    BY DEF WriteLongString, c
  <1>3. WrittenAt(d, at, <<Len(c)>>) /\ WrittenAt(d, at + 1, c)
    BY <1>1, <1>2, Parts
  <1>4. ReadU32(d, at) = Read(at + 1, Len(c))
    BY <1>3, U32IsRead
  <1>5. ReadString(d, at + 1, Len(c)) = Read((at + 1) + Len(c), c)
    BY <1>1, <1>3, StringIsRead
  <1>6. at + 1 # 0 /\ (at + 1) + Len(c) = at + (1 + Len(c)) /\ Len(<<Len(c)>> \o c) = 1 + Len(c)
    BY <1>1, <1>3 DEF WrittenAt, Words
  <1>7. ReadLongString(d, at) = Read(at + (1 + Len(c)), c)
    BY <1>4, <1>5, <1>6 DEF ReadLongString, ReadCounted, Read
  <1> QED
    BY <1>6, <1>7, Zenon DEF WriteLongString, c

(* A string is written as words.                                           *)
LEMMA LongStringType ==
    ASSUME NEW s \in Words PROVE WriteLongString(s) \in Words
  BY CutType, StringsNat DEF WriteLongString, Words
-----------------------------------------------------------------------------
(* Counted sequences.                                                      *)

(* How FlattenSeq computes: the first i of the word sequences in one.      *)
Flat(ws) == CHOOSE g : g = [i \in 1..Len(ws) |-> IF i = 1 THEN ws[i] ELSE g[i - 1] \o ws[i]]

(* The words of a sequence, joined up to the last.                         *)
LEMMA FlatIs == ASSUME NEW ws, Len(ws) # 0 PROVE FlattenSeq(ws) = Flat(ws)[Len(ws)]
  BY DEF FlattenSeq, Flat

(* There is such a function.                                               *)
LEMMA FlatExists ==
    ASSUME NEW ws \in Seq(Words)
    PROVE  /\ Flat(ws) \in [1..Len(ws) -> Words]
           /\ \A i \in 1..Len(ws) :
                 Flat(ws)[i] = IF i = 1 THEN ws[i] ELSE Flat(ws)[i - 1] \o ws[i]
  <1> DEFINE n == Len(ws)
             Upto(g, k) == g = [i \in 1..k |-> IF i = 1 THEN ws[i] ELSE g[i - 1] \o ws[i]]
             T == {k \in Nat : \E g : Upto(g, k)}
  <1>0. n \in Nat /\ \A i \in 1..n : ws[i] \in Words
    OBVIOUS
  <1>1. 0 \in T
    <2>1. Upto([i \in 1..0 |-> 0], 0)
      OBVIOUS
    <2> QED
      BY <2>1
  <1>2. ASSUME NEW k \in T PROVE k + 1 \in T
    <2>1. PICK g : Upto(g, k)
      OBVIOUS
    <2> DEFINE h == [i \in 1..k + 1 |-> IF i = k + 1
                        THEN (IF i = 1 THEN ws[i] ELSE g[i - 1] \o ws[i]) ELSE g[i]]
    <2>2. k \in Nat
      OBVIOUS
    <2>3. ASSUME NEW i \in 1..k + 1
          PROVE  h[i] = IF i = 1 THEN ws[i] ELSE h[i - 1] \o ws[i]
      <3>1. CASE i = 1
        <4>1. CASE k = 0
          BY <3>1, <4>1
        <4>2. CASE k # 0
          <5>1. i \in 1..k /\ i # k + 1
            BY <2>2, <3>1, <4>2
          <5>2. g[i] = ws[i]
            BY <2>1, <3>1, <5>1
          <5> QED
            BY <3>1, <5>1, <5>2
        <4> QED
          BY <4>1, <4>2
      <3>2. CASE i # 1
        <4>1. i - 1 \in 1..k + 1 /\ i - 1 # k + 1 /\ i - 1 \in 1..k
          BY <2>2, <3>2
        <4>2. h[i - 1] = g[i - 1]
          BY <4>1
        <4>3. CASE i = k + 1
          BY <3>2, <4>2, <4>3
        <4>4. CASE i # k + 1
          <5>1. i \in 1..k
            BY <2>2, <4>4
          <5>2. g[i] = g[i - 1] \o ws[i]
            BY <2>1, <3>2, <5>1
          <5> QED
            BY <3>2, <4>2, <4>4, <5>2
        <4> QED
          BY <4>3, <4>4
      <3> QED
        BY <3>1, <3>2
    <2>4. h = [i \in 1..k + 1 |-> h[i]]
      OBVIOUS
    <2> HIDE DEF h
    <2>5. Upto(h, k + 1)
      BY <2>3, <2>4
    <2>6. k + 1 \in Nat
      BY <2>2
    <2> HIDE DEF Upto
    <2> QED
      BY <2>5, <2>6
  <1>3. n \in T
    <2> HIDE DEF T
    <2>1. T \in SUBSET Nat
      BY DEF T
    <2> QED
      BY <1>0, <1>1, <1>2, <2>1, NatInduct
  <1> DEFINE f == Flat(ws)
  <1>4. f = [i \in 1..n |-> IF i = 1 THEN ws[i] ELSE f[i - 1] \o ws[i]]
    <2>1. PICK g : Upto(g, n)
      BY <1>3
    <2> QED
      BY <2>1 DEF Flat
  <1> HIDE DEF f, T
  <1>5. \A i \in 1..n : f[i] = IF i = 1 THEN ws[i] ELSE f[i - 1] \o ws[i]
    BY <1>4
  <1> DEFINE U == {k \in Nat : k \in 1..n => f[k] \in Words}
  <1>6. 0 \in U
    OBVIOUS
  <1>7. ASSUME NEW k \in U PROVE k + 1 \in U
    <2>1. SUFFICES ASSUME k + 1 \in 1..n PROVE f[k + 1] \in Words
      OBVIOUS
    <2>2. ws[k + 1] \in Words
      BY <1>0, <2>1
    <2>3. CASE k = 0
      BY <1>5, <2>1, <2>2, <2>3
    <2>4. CASE k # 0
      <3>1. k \in 1..n /\ k + 1 # 1 /\ (k + 1) - 1 = k
        BY <1>0, <2>1, <2>4
      <3>2. f[k + 1] = f[k] \o ws[k + 1] /\ f[k] \in Words
        BY <1>5, <2>1, <3>1
      <3> QED
        BY <2>2, <3>2 DEF Words
    <2> QED
      BY <2>3, <2>4
  <1>8. U = Nat
    <2> HIDE DEF U
    <2>1. U \in SUBSET Nat
      BY DEF U
    <2> QED
      BY <1>6, <1>7, <2>1, NatInduct
  <1>9. \A i \in 1..n : f[i] \in Words
    BY <1>0, <1>8
  <1>10. f \in [1..n -> Words]
    BY <1>4, <1>9
  <1> QED
    BY <1>5, <1>10 DEF f

(* The positions in a document of word sequences that stand one behind the *)
(* other.                                                                  *)
Laid(d, ws, pos) ==
    /\ pos \in [0..Len(ws) -> Nat]
    /\ \A i \in 1..Len(ws) :
          WrittenAt(d, pos[i - 1], ws[i]) /\ pos[i] = pos[i - 1] + Len(ws[i])

(* What is joined stands in the document one behind the other.             *)
LEMMA FlatLaid ==
    ASSUME NEW d \in Words, NEW at, NEW ws \in Seq(Words), WrittenAt(d, at, FlattenSeq(ws))
    PROVE  \E pos : /\ Laid(d, ws, pos) /\ pos[0] = at
                    /\ pos[Len(ws)] = at + Len(FlattenSeq(ws))
  <1> DEFINE n == Len(ws)
             f == Flat(ws)
             pos == [i \in 0..n |-> IF i = 0 THEN at ELSE at + Len(f[i])]
  <1>0. n \in Nat /\ at \in Nat /\ at > 0 /\ \A i \in 1..n : ws[i] \in Words
    BY DEF WrittenAt
  <1>1. f \in [1..n -> Words]
    BY FlatExists
  <1>2. \A i \in 1..n : f[i] = IF i = 1 THEN ws[i] ELSE f[i - 1] \o ws[i]
    BY FlatExists
  <1>3. pos \in [0..n -> Nat]
    BY <1>0, <1>1 DEF Words
  <1>4. CASE n = 0
    <2>1. FlattenSeq(ws) = <<>> /\ Len(<<>>) = 0
      BY <1>4 DEF FlattenSeq
    <2>2. Laid(d, ws, pos)
      BY <1>3, <1>4 DEF Laid
    <2>3. pos[0] = at /\ pos[n] = at + Len(FlattenSeq(ws))
      BY <1>0, <1>4, <2>1
    <2> HIDE DEF pos
    <2> QED
      BY <2>2, <2>3
  <1>5. CASE n # 0
    <2>0. FlattenSeq(ws) = f[n]
      BY <1>5, FlatIs
    <2> HIDE DEF f
    <2> DEFINE T == {k \in Nat : k < n => WrittenAt(d, at, f[n - k])}
    <2>1. 0 \in T
      BY <1>0, <2>0
    <2>2. ASSUME NEW k \in T PROVE k + 1 \in T
      <3>1. SUFFICES ASSUME k + 1 < n PROVE WrittenAt(d, at, f[n - (k + 1)])
        BY <2>2
      <3>2. n - k \in 1..n /\ n - k # 1 /\ (n - k) - 1 = n - (k + 1) /\ n - (k + 1) \in 1..n
        BY <1>0, <3>1
      <3>3. WrittenAt(d, at, f[n - k])
        BY <1>0, <3>1
      <3>4. f[n - k] = f[n - (k + 1)] \o ws[n - k]
        BY <1>2, <3>2
      <3>5. f[n - (k + 1)] \in Words /\ ws[n - k] \in Words
        BY <1>0, <1>1, <3>2
      <3> QED
        BY <3>3, <3>4, <3>5, Parts
    <2>3. T = Nat
      <3> HIDE DEF T
      <3>1. T \in SUBSET Nat
        BY DEF T
      <3> QED
        BY <2>1, <2>2, <3>1, NatInduct
    <2>4. ASSUME NEW i \in 1..n PROVE WrittenAt(d, at, f[i])
      <3>1. n - i \in Nat /\ n - i < n /\ n - (n - i) = i
        BY <1>0
      <3>2. n - i \in T
        BY <2>3, <3>1, Zenon
      <3> QED
        BY <3>1, <3>2
    <2>5. ASSUME NEW i \in 1..n
          PROVE  WrittenAt(d, pos[i - 1], ws[i]) /\ pos[i] = pos[i - 1] + Len(ws[i])
      <3>0. i - 1 \in 0..n /\ i \in 0..n /\ i # 0
        BY <1>0
      <3>1. CASE i = 1
        <4>1. f[i] = ws[i]
          BY <1>2, <3>1
        <4>2. pos[i - 1] = at /\ pos[i] = at + Len(f[i])
          BY <3>0, <3>1
        <4> QED
          BY <2>4, <4>1, <4>2
      <3>2. CASE i # 1
        <4>1. i - 1 \in 1..n /\ i - 1 # 0
          BY <1>0, <3>2
        <4>2. f[i] = f[i - 1] \o ws[i]
          BY <1>2, <3>2
        <4>3. f[i - 1] \in Words /\ ws[i] \in Words
          BY <1>0, <1>1, <4>1
        <4> DEFINE u == f[i - 1]
                   v == ws[i]
        <4>4. u \in Words /\ v \in Words /\ f[i] = u \o v
          BY <4>2, <4>3
        <4>5. pos[i - 1] = at + Len(u) /\ pos[i] = at + Len(f[i])
          BY <3>0, <4>1
        <4>6. WrittenAt(d, at, f[i])
          BY <2>4
        <4> HIDE DEF u, v, pos
        <4>7. WrittenAt(d, at + Len(u), v) /\ at + Len(u \o v) = (at + Len(u)) + Len(v)
          BY <4>4, <4>6, Behind
        <4> QED
          BY <4>4, <4>5, <4>7 DEF v
      <3> QED
        BY <3>1, <3>2
    <2>6. pos[0] = at /\ pos[n] = at + Len(FlattenSeq(ws))
      BY <1>0, <1>5, <2>0
    <2> HIDE DEF pos
    <2>7. Laid(d, ws, pos)
      BY <1>3, <2>5 DEF Laid
    <2> QED
      BY <2>6, <2>7
  <1> QED
    BY <1>4, <1>5

(* What is flattened is words.                                             *)
LEMMA FlatType == ASSUME NEW ws \in Seq(Words) PROVE FlattenSeq(ws) \in Words
  <1>0. Len(ws) \in Nat
    OBVIOUS
  <1>1. CASE Len(ws) = 0
    BY <1>1 DEF FlattenSeq, Words
  <1>2. CASE Len(ws) # 0
    <2>1. FlattenSeq(ws) = Flat(ws)[Len(ws)] /\ Len(ws) \in 1..Len(ws)
      BY <1>0, <1>2, FlatIs
    <2>2. Flat(ws) \in [1..Len(ws) -> Words]
      BY FlatExists
    <2> QED
      BY <2>1, <2>2
  <1> QED
    BY <1>1, <1>2
(* How a counted sequence is read: after i items.                          *)
ItemsRead(item, n) ==
    CHOOSE g : g = [i \in 0..n.val |->
                       IF i = 0 THEN Start(n.at) ELSE With(g[i - 1], item[g[i - 1].at])]

(* A counted sequence is read item by item.                                *)
LEMMA ItemsIs ==
    ASSUME NEW item, NEW n, n.at # 0 PROVE Items(item, n) = ItemsRead(item, n)[n.val]
  BY DEF Items, ItemsRead

(* Items that stand one behind the other are read one after the other.     *)
LEMMA ItemsAreRead ==
    ASSUME NEW item, NEW ms, IsSeq(ms), NEW pos \in [0..Len(ms) -> Nat], pos[0] # 0,
           \A i \in 1..Len(ms) : item[pos[i - 1]] = Read(pos[i], ms[i])
    PROVE  Items(item, Read(pos[0], Len(ms))) = Read(pos[Len(ms)], ms)
  <1> DEFINE n == Len(ms)
             from == Read(pos[0], n)
             w == [i \in 0..n |-> Partial(pos[i], ms, i)]
             g == ItemsRead(item, from)
  <1>0. n \in Nat
    BY DEF IsSeq
  <1>1. from.at = pos[0] /\ from.val = n
    BY DEF Read
  <1>2. \A i \in 0..n : w[i].at = pos[i]
    BY DEF Partial, Read
  <1>3. w[0] = Start(from.at)
    <2>1. w[0] = Partial(pos[0], ms, 0)
      BY <1>0
    <2> QED
      BY <1>1, <2>1, NothingFilled, Zenon
  <1>4. ASSUME NEW i \in 1..n PROVE w[i] = With(w[i - 1], item[w[i - 1].at])
    <2>1. i - 1 \in Nat /\ i - 1 \in 0..n /\ i \in 0..n /\ (i - 1) + 1 = i /\ i <= n
      BY <1>0
    <2>2. w[i - 1] = Partial(pos[i - 1], ms, i - 1) /\ w[i] = Partial(pos[i], ms, i)
      BY <2>1
    <2>3. item[w[i - 1].at] = Read(pos[i], ms[i])
      BY <1>2, <2>1
    <2>4. With(Partial(pos[i - 1], ms, i - 1), Read(pos[i], ms[(i - 1) + 1]))
            = Partial(pos[i], ms, (i - 1) + 1)
      BY <2>1, Filled
    <2>5. With(Partial(pos[i - 1], ms, i - 1), Read(pos[i], ms[i])) = Partial(pos[i], ms, i)
      BY <2>1, <2>4, Zenon
    <2> HIDE DEF w
    <2> QED
      BY <2>2, <2>3, <2>5, Zenon
  <1>5. w = [i \in 0..n |-> w[i]]
    OBVIOUS
  <1>6. w = [i \in 0..from.val |->
               IF i = 0 THEN Start(from.at) ELSE With(w[i - 1], item[w[i - 1].at])]
    <2> HIDE DEF w, from
    <2>1. ASSUME NEW i \in 0..n
          PROVE  w[i] = IF i = 0 THEN Start(from.at) ELSE With(w[i - 1], item[w[i - 1].at])
      <3>1. i = 0 \/ i \in 1..n
        BY <1>0
      <3> QED
        BY <1>0, <1>3, <1>4, <3>1
    <2> QED
      BY <1>1, <1>5, <2>1
  <1>7. g = [i \in 0..from.val |->
               IF i = 0 THEN Start(from.at) ELSE With(g[i - 1], item[g[i - 1].at])]
    <2> HIDE DEF w, from
    <2> QED
      BY <1>6 DEF ItemsRead
  <1> HIDE DEF w, from, g
  <1>8. g[0] = w[0]
    BY <1>0, <1>1, <1>3, <1>7
  <1>9. \A i \in 1..n : g[i] = With(g[i - 1], item[g[i - 1].at])
    BY <1>0, <1>1, <1>7
  <1> DEFINE T == {k \in Nat : k <= n => g[k] = w[k]}
  <1>10. 0 \in T
    BY <1>8
  <1>11. ASSUME NEW k \in T PROVE k + 1 \in T
    <2>1. SUFFICES ASSUME k + 1 <= n PROVE g[k + 1] = w[k + 1]
      OBVIOUS
    <2>2. k + 1 \in 1..n /\ (k + 1) - 1 = k /\ k <= n
      BY <1>0, <2>1
    <2>3. g[k] = w[k]
      BY <2>2
    <2> QED
      BY <1>4, <1>9, <2>2, <2>3
  <1>12. T = Nat
    <2> HIDE DEF T
    <2>1. T \in SUBSET Nat
      BY DEF T
    <2> QED
      BY <1>10, <1>11, <2>1, NatInduct
  <1>13. n \in T
    BY <1>0, <1>12, Zenon
  <1>14. g[n] = w[n]
    BY <1>0, <1>13
  <1>15. w[n] = Read(pos[n], ms)
    <2>1. w[n] = Partial(pos[n], ms, n)
      BY <1>0 DEF w
    <2> QED
      BY <2>1, AllFilled, Zenon
  <1>16. Items(item, from) = g[n]
    BY <1>1, ItemsIs, Zenon DEF g
  <1> QED
    BY <1>14, <1>15, <1>16, Zenon DEF from

(* The words of a counted sequence.                                        *)
Counted(ws) == <<Len(ws)>> \o FlattenSeq(ws)

(* A sequence with its count is words.                                     *)
LEMMA CountedType ==
    ASSUME NEW ws \in Seq(Words)
    PROVE  /\ Counted(ws) \in Words /\ FlattenSeq(ws) \in Words
           /\ <<Len(ws)>> \in Words /\ Len(<<Len(ws)>>) = 1
           /\ Len(Counted(ws)) = 1 + Len(FlattenSeq(ws))
  <1>1. FlattenSeq(ws) \in Words
    BY FlatType
  <1>2. <<Len(ws)>> \in Words /\ Len(<<Len(ws)>>) = 1
    BY DEF Words
  <1> QED
    BY <1>1, <1>2 DEF Words, Counted

(* A counted sequence is read right when each of its items is, wherever it *)
(* stands.                                                                 *)
ItemRead(d, item, w, m) ==
    \A p \in Nat : WrittenAt(d, p, w) => item[p] = Read(p + Len(w), m)

(* A sequence is read when each of its items is, wherever it stands.       *)
LEMMA SeqIsRead ==
    ASSUME NEW d \in Words, NEW at, NEW ws \in Seq(Words), WrittenAt(d, at, Counted(ws)),
           NEW ms, IsSeq(ms), Len(ms) = Len(ws), NEW item,
           \A i \in 1..Len(ws) : ItemRead(d, item, ws[i], ms[i])
    PROVE  Items(item, ReadU32(d, at)) = Read(at + Len(Counted(ws)), ms)
  <1>1. FlattenSeq(ws) \in Words /\ <<Len(ws)>> \in Words /\ Len(<<Len(ws)>>) = 1
        /\ Len(Counted(ws)) = 1 + Len(FlattenSeq(ws))
    BY CountedType
  <1>2. WrittenAt(d, at, <<Len(ws)>>) /\ WrittenAt(d, at + 1, FlattenSeq(ws))
    BY <1>1, Parts DEF Counted
  <1>3. ReadU32(d, at) = Read(at + 1, Len(ws))
    BY <1>2, U32IsRead
  <1>4. PICK pos : /\ Laid(d, ws, pos) /\ pos[0] = at + 1
                   /\ pos[Len(ws)] = (at + 1) + Len(FlattenSeq(ws))
    BY <1>2, FlatLaid
  <1>5. pos \in [0..Len(ms) -> Nat] /\ pos[0] # 0 /\ Len(ws) \in Nat
    BY <1>2, <1>4 DEF Laid, WrittenAt
  <1>6. ASSUME NEW i \in 1..Len(ms) PROVE item[pos[i - 1]] = Read(pos[i], ms[i])
    <2>1. i \in 1..Len(ws) /\ i - 1 \in 0..Len(ws)
      BY <1>5
    <2>2. WrittenAt(d, pos[i - 1], ws[i]) /\ pos[i] = pos[i - 1] + Len(ws[i])
      BY <1>4, <2>1 DEF Laid
    <2>3. pos[i - 1] \in Nat
      BY <1>5, <2>1
    <2>4. ItemRead(d, item, ws[i], ms[i])
      BY <2>1
    <2> QED
      BY <2>2, <2>3, <2>4, Zenon DEF ItemRead
  <1>7. Items(item, Read(pos[0], Len(ms))) = Read(pos[Len(ms)], ms)
    BY <1>5, <1>6, ItemsAreRead
  <1>8. Len(FlattenSeq(ws)) \in Nat /\ at \in Nat
    BY <1>1, <1>2 DEF Words, WrittenAt
  <1>9. (at + 1) + Len(FlattenSeq(ws)) = at + Len(Counted(ws))
    BY <1>1, <1>8
  <1> QED
    BY <1>3, <1>4, <1>7, <1>9, Zenon
-----------------------------------------------------------------------------
(* The records, from the smallest to the largest.                          *)

(* A sequence that is given item by item.                                  *)
LEMMA ListedIsSeq ==
    ASSUME NEW n \in Nat, NEW f, f = [i \in 1..n |-> f[i]] PROVE IsSeq(f) /\ Len(f) = n
  <1>1. f \in Seq({f[i] : i \in 1..n})
    OBVIOUS
  <1> QED
    BY <1>1 DEF IsSeq

(* A sequence given item by item, of words.                                *)
LEMMA ListedWords ==
    ASSUME NEW n \in Nat, NEW f, f = [i \in 1..n |-> f[i]], \A i \in 1..n : f[i] \in Words
    PROVE  f \in Seq(Words) /\ Len(f) = n
  <1>1. f \in [1..n -> Words]
    BY Zenon
  <1> QED
    BY <1>1

(* What is written somewhere starts inside the document or right behind it.*)
LEMMA Inside ==
    ASSUME NEW d \in Words, NEW p, NEW w \in Words, WrittenAt(d, p, w)
    PROVE  p \in 0..Len(d) + 1
  <1>1. Len(w) \in Nat /\ Len(d) \in Nat
    BY DEF Words
  <1> QED
    BY <1>1 DEF WrittenAt

(* A read of two fields.                                                   *)
LEMMA PairIs ==
    ASSUME NEW at, NEW p, NEW q, NEW a, NEW b
    PROVE  /\ Start(at).at = at /\ With(Start(at), Read(p, a)).at = p
           /\ With(With(Start(at), Read(p, a)), Read(q, b)) = Read(q, <<a, b>>)
  <1> DEFINE T == <<a, b>>
  <1>1. IsSeq(T) /\ Len(T) = 2 /\ T[1] = a /\ T[2] = b
    BY Two
  <1> HIDE DEF T
  <1>2. Start(at) = Partial(at, T, 0)
    BY <1>1, NothingFilled
  <1>3. With(Partial(at, T, 0), Read(p, T[0 + 1])) = Partial(p, T, 0 + 1)
    BY <1>1, Filled
  <1>5. 0 + 1 = 1 /\ 1 + 1 = 2 /\ 1 + 1 <= Len(T) /\ 1 \in Nat
    BY <1>1
  <1>4. With(Partial(p, T, 1), Read(q, T[1 + 1])) = Partial(q, T, 1 + 1)
    BY <1>1, <1>5, Filled, Zenon
  <1>6. With(Start(at), Read(p, a)) = Partial(p, T, 1)
    BY <1>1, <1>2, <1>3, <1>5
  <1>7. With(Partial(p, T, 1), Read(q, b)) = Partial(q, T, 2)
    BY <1>1, <1>4, <1>5
  <1>8. Partial(q, T, 2) = Read(q, T)
    BY <1>1, AllFilled
  <1>9. With(With(Start(at), Read(p, a)), Read(q, b)) = Read(q, T)
    BY <1>6, <1>7, <1>8, Zenon
  <1>10. Start(at).at = at /\ With(Start(at), Read(p, a)).at = p
    BY DEF Start, With, Read
  <1> QED
    BY <1>9, <1>10 DEF T

(* A name and an address.                                                  *)
NamedMeaning(p) == <<Cut(p[1], MaxString), p[2]>>

(* A name with an address is read as written, but for a long name.         *)
LEMMA NamedIsRead ==
    ASSUME NEW d \in Words, NEW at, NEW p \in Named, WrittenAt(d, at, WriteNamed(p))
    PROVE  ReadNamed(d, at) = Read(at + Len(WriteNamed(p)), NamedMeaning(p))
  <1> DEFINE u == WriteLongString(p[1])
             v == p[2]
             c == Cut(p[1], MaxString)
  <1>1. p[1] \in Words /\ v \in U64 /\ v \in Words /\ u \in Words
    BY LongStringType DEF Named, U64
  <1>2. WriteNamed(p) = u \o v /\ NamedMeaning(p) = <<c, v>>
    BY DEF WriteNamed, NamedMeaning
  <1>3. \A x : WrittenAt(d, x, u) => ReadLongString(d, x) = Read(x + Len(u), c)
    BY <1>1, LongStringIsRead
  <1> HIDE DEF u, v, c
  <1>4. WrittenAt(d, at, u) /\ WrittenAt(d, at + Len(u), v)
    BY <1>1, <1>2, Parts
  <1>5. at + Len(u \o v) = (at + Len(u)) + Len(v)
    BY <1>1, <1>2, Behind
  <1> DEFINE s == at + Len(u)
             e == s + Len(v)
  <1> HIDE DEF s, e
  <1>6. ReadLongString(d, at) = Read(s, c) /\ ReadU64(d, s) = Read(e, v) /\ at + Len(u \o v) = e
    BY <1>1, <1>3, <1>4, <1>5, U64IsRead DEF s, e
  <1>7. /\ Start(at).at = at /\ With(Start(at), Read(s, c)).at = s
        /\ With(With(Start(at), Read(s, c)), Read(e, v)) = Read(e, <<c, v>>)
    BY PairIs
  <1>8. ReadNamed(d, at) = Read(e, <<c, v>>)
    BY <1>6, <1>7, Zenon DEF ReadNamed, ReadPair, Then
  <1> QED
    BY <1>2, <1>6, <1>8, Zenon

(* It is written as words.                                                 *)
LEMMA NamedType == ASSUME NEW p \in Named PROVE WriteNamed(p) \in Words
  <1>1. p[1] \in Words /\ p[2] \in Words
    BY DEF Named, U64
  <1> QED
    BY <1>1, LongStringType DEF WriteNamed, Words

(* Names and addresses.                                                    *)
NamesMeaning(s) == [i \in DOMAIN s |-> NamedMeaning(s[i])]

(* So is a sequence of them (the container types, the locals).             *)
LEMMA NamesAreRead ==
    ASSUME NEW d \in Words, NEW at, NEW s \in Seq(Named), WrittenAt(d, at, WriteSeq(s, WriteNamed))
    PROVE  ReadNames(d, at) = Read(at + Len(WriteSeq(s, WriteNamed)), NamesMeaning(s))
  <1> DEFINE ws == [i \in 1..Len(s) |-> WriteNamed(s[i])]
             ms == NamesMeaning(s)
             item == [p \in 0..Len(d) + 1 |-> ReadNamed(d, p)]
  <1>0. DOMAIN s = 1..Len(s) /\ Len(s) \in Nat /\ \A i \in 1..Len(s) : s[i] \in Named
    OBVIOUS
  <1>1. ws \in Seq(Words) /\ Len(ws) = Len(s)
    BY <1>0, NamedType, ListedWords
  <1>2. ms = [i \in 1..Len(s) |-> ms[i]] /\ \A i \in 1..Len(s) : ms[i] = NamedMeaning(s[i])
    BY <1>0 DEF NamesMeaning
  <1>3. WriteSeq(s, WriteNamed) = Counted(ws)
    BY <1>0, <1>1 DEF WriteSeq, Counted
  <1>4. ASSUME NEW i \in 1..Len(s) PROVE ItemRead(d, item, ws[i], ms[i])
    <2>1. SUFFICES ASSUME NEW p \in Nat, WrittenAt(d, p, WriteNamed(s[i]))
                   PROVE  item[p] = Read(p + Len(WriteNamed(s[i])), NamedMeaning(s[i]))
      BY <1>2 DEF ItemRead
    <2>2. p \in 0..Len(d) + 1
      BY <1>0, <2>1, NamedType, Inside
    <2> QED
      BY <1>0, <2>1, <2>2, NamedIsRead
  <1>5. ReadNames(d, at) = Items(item, ReadU32(d, at))
    BY DEF ReadNames, ReadSeq, ReadItems
  <1> HIDE DEF ws, ms, item
  <1>6. IsSeq(ms) /\ Len(ms) = Len(ws)
    BY <1>0, <1>1, <1>2, ListedIsSeq
  <1>7. Items(item, ReadU32(d, at)) = Read(at + Len(Counted(ws)), ms)
    BY <1>1, <1>3, <1>4, <1>6, SeqIsRead
  <1> QED
    BY <1>3, <1>5, <1>7 DEF ms

(* A sequence of names is written as words.                                *)
LEMMA NamesType == ASSUME NEW s \in Seq(Named) PROVE WriteSeq(s, WriteNamed) \in Words
  <1> DEFINE ws == [i \in 1..Len(s) |-> WriteNamed(s[i])]
  <1>0. DOMAIN s = 1..Len(s) /\ Len(s) \in Nat /\ \A i \in 1..Len(s) : s[i] \in Named
    OBVIOUS
  <1>1. ws \in Seq(Words) /\ Len(ws) = Len(s)
    BY <1>0, NamedType, ListedWords
  <1>2. WriteSeq(s, WriteNamed) = Counted(ws)
    BY <1>0, <1>1 DEF WriteSeq, Counted
  <1> QED
    BY <1>1, <1>2, CountedType
(* A type, an entry of a dictionary.                                       *)
TypedMeaning(p) == <<p[1], Cut(p[2], MaxString)>>

(* A type of the type table is read as written, but for a long name.       *)
LEMMA TypedIsRead ==
    ASSUME NEW d \in Words, NEW at, NEW p \in Typed, WrittenAt(d, at, WriteType(p))
    PROVE  ReadType(d, at) = Read(at + Len(WriteType(p)), TypedMeaning(p))
  <1> DEFINE u == p[1]
             v == WriteLongString(p[2])
             b == p[1]
             c == Cut(p[2], MaxString)
  <1>1. p[1] \in U64 /\ p[2] \in Words /\ u \in Words /\ v \in Words
    BY LongStringType DEF Typed, U64
  <1>2. WriteType(p) = u \o v /\ TypedMeaning(p) = <<b, c>>
    BY DEF WriteType, TypedMeaning
  <1>3. \A x : WrittenAt(d, x, u) => ReadU64(d, x) = Read(x + Len(u), b)
    BY <1>1, U64IsRead
  <1>4. \A x : WrittenAt(d, x, v) => ReadLongString(d, x) = Read(x + Len(v), c)
    BY <1>1, LongStringIsRead
  <1> HIDE DEF u, v, b, c
  <1>5. WrittenAt(d, at, u) /\ WrittenAt(d, at + Len(u), v)
    BY <1>1, <1>2, Parts
  <1>6. at + Len(u \o v) = (at + Len(u)) + Len(v)
    BY <1>1, <1>2, Behind
  <1> DEFINE s == at + Len(u)
             e == s + Len(v)
  <1> HIDE DEF s, e
  <1>7. ReadU64(d, at) = Read(s, b) /\ ReadLongString(d, s) = Read(e, c) /\ at + Len(u \o v) = e
    BY <1>3, <1>4, <1>5, <1>6 DEF s, e
  <1>8. /\ Start(at).at = at /\ With(Start(at), Read(s, b)).at = s
        /\ With(With(Start(at), Read(s, b)), Read(e, c)) = Read(e, <<b, c>>)
    BY PairIs
  <1>9. ReadType(d, at) = Read(e, <<b, c>>)
    BY <1>7, <1>8, Zenon DEF ReadType, ReadPair, Then
  <1> QED
    BY <1>2, <1>7, <1>9, Zenon

(* It is written as words.                                                 *)
LEMMA TypedType == ASSUME NEW p \in Typed PROVE WriteType(p) \in Words
  <1>1. p[1] \in Words /\ p[2] \in Words
    BY DEF Typed, U64
  <1> QED
    BY <1>1, LongStringType DEF WriteType, Words

(* An entry of a dictionary.                                               *)
EntryMeaning(p) == <<p[1], p[2]>>

(* An entry of a dictionary is read as written.                            *)
LEMMA EntryIsRead ==
    ASSUME NEW d \in Words, NEW at, NEW p \in Entry, WrittenAt(d, at, WriteEntry(p))
    PROVE  ReadEntry(d, at) = Read(at + Len(WriteEntry(p)), EntryMeaning(p))
  <1> DEFINE u == p[1]
             v == p[2]
             b == p[1]
             c == p[2]
  <1>1. p[1] \in U64 /\ p[2] \in U64 /\ u \in Words /\ v \in Words
    BY Zenon DEF Entry, U64
  <1>2. WriteEntry(p) = u \o v /\ EntryMeaning(p) = <<b, c>>
    BY DEF WriteEntry, EntryMeaning
  <1>3. \A x : WrittenAt(d, x, u) => ReadU64(d, x) = Read(x + Len(u), b)
    BY <1>1, U64IsRead
  <1>4. \A x : WrittenAt(d, x, v) => ReadU64(d, x) = Read(x + Len(v), c)
    BY <1>1, U64IsRead
  <1> HIDE DEF u, v, b, c
  <1>5. WrittenAt(d, at, u) /\ WrittenAt(d, at + Len(u), v)
    BY <1>1, <1>2, Parts
  <1>6. at + Len(u \o v) = (at + Len(u)) + Len(v)
    BY <1>1, <1>2, Behind
  <1> DEFINE s == at + Len(u)
             e == s + Len(v)
  <1> HIDE DEF s, e
  <1>7. ReadU64(d, at) = Read(s, b) /\ ReadU64(d, s) = Read(e, c) /\ at + Len(u \o v) = e
    BY <1>3, <1>4, <1>5, <1>6 DEF s, e
  <1>8. /\ Start(at).at = at /\ With(Start(at), Read(s, b)).at = s
        /\ With(With(Start(at), Read(s, b)), Read(e, c)) = Read(e, <<b, c>>)
    BY PairIs
  <1>9. ReadEntry(d, at) = Read(e, <<b, c>>)
    BY <1>7, <1>8, Zenon DEF ReadEntry, ReadPair, Then
  <1> QED
    BY <1>2, <1>7, <1>9, Zenon

(* It is written as words.                                                 *)
LEMMA EntryType == ASSUME NEW p \in Entry PROVE WriteEntry(p) \in Words
  <1>1. p[1] \in Words /\ p[2] \in Words
    BY DEF Entry, U64
  <1> QED
    BY <1>1 DEF WriteEntry, Words

(* The name of an attribute is a length and characters, however many       *)
(* frequent attributes there are.                                          *)
LEMMA AttributeNameIsRead ==
    ASSUME NEW d \in Words, NEW at, NEW s \in Words, WrittenAt(d, at, WriteShortString(s)),
           NEW frequent
    PROVE  ReadAttributeName(d, at, frequent)
             = Read(at + Len(WriteShortString(s)), Cut(s, MaxShort))
  <1> DEFINE c == Cut(s, MaxShort)
  <1>1. /\ c \in Words /\ Len(c) \in Nat /\ Len(c) <= MaxShort
        /\ <<Len(c)>> \in Words /\ Len(<<Len(c)>>) = 1
    BY CutType, StringsNat DEF Words
  <1> HIDE DEF c
  <1>2. WrittenAt(d, at, <<Len(c)>> \o c)
    BY DEF WriteShortString, c
  <1>3. WrittenAt(d, at, <<Len(c)>>) /\ WrittenAt(d, at + 1, c)
    BY <1>1, <1>2, Parts
  <1>4. ReadU32(d, at) = Read(at + 1, Len(c))
    BY <1>3, U32IsRead
  <1>5. ReadString(d, at + 1, Len(c)) = Read((at + 1) + Len(c), c)
    BY <1>1, <1>3, StringIsRead
  <1>6. at + 1 # 0 /\ (at + 1) + Len(c) = at + (1 + Len(c)) /\ Len(<<Len(c)>> \o c) = 1 + Len(c)
    BY <1>1, <1>3 DEF WrittenAt, Words
  <1>7. ReadU32(d, at).at = at + 1 /\ ReadU32(d, at).val = Len(c)
    BY <1>4 DEF Read
  <1>8. ReadAttributeName(d, at, frequent) = Read(at + (1 + Len(c)), c)
    BY <1>1, <1>5, <1>6, <1>7 DEF ReadAttributeName
  <1> QED
    BY <1>6, <1>8, Zenon DEF WriteShortString, c

(* The name of an attribute is written as words.                           *)
LEMMA ShortStringType ==
    ASSUME NEW s \in Words PROVE WriteShortString(s) \in Words
  BY CutType, StringsNat DEF WriteShortString, Words

(* An attribute.                                                           *)
AttributeMeaning(p) == <<Cut(p[1], MaxShort), p[2]>>
ReadAttribute(d, at) ==
    LET short(e, i) == ReadAttributeName(e, i, <<>>) IN ReadPair(d, at, short, ReadU64)

(* An attribute is read as written, but for a long name.                   *)
LEMMA AttributeIsRead ==
    ASSUME NEW d \in Words, NEW at, NEW p \in Named, WrittenAt(d, at, WriteAttribute(p))
    PROVE  ReadAttribute(d, at) = Read(at + Len(WriteAttribute(p)), AttributeMeaning(p))
  <1> DEFINE u == WriteShortString(p[1])
             v == p[2]
             b == Cut(p[1], MaxShort)
             c == p[2]
  <1>1. p[1] \in Words /\ p[2] \in U64 /\ u \in Words /\ v \in Words
    BY ShortStringType DEF Named, U64
  <1>2. WriteAttribute(p) = u \o v /\ AttributeMeaning(p) = <<b, c>>
    BY DEF WriteAttribute, AttributeMeaning
  <1>3. \A x : WrittenAt(d, x, u) => ReadAttributeName(d, x, <<>>) = Read(x + Len(u), b)
    BY <1>1, AttributeNameIsRead
  <1>4. \A x : WrittenAt(d, x, v) => ReadU64(d, x) = Read(x + Len(v), c)
    BY <1>1, U64IsRead
  <1> HIDE DEF u, v, b, c
  <1>5. WrittenAt(d, at, u) /\ WrittenAt(d, at + Len(u), v)
    BY <1>1, <1>2, Parts
  <1>6. at + Len(u \o v) = (at + Len(u)) + Len(v)
    BY <1>1, <1>2, Behind
  <1> DEFINE s == at + Len(u)
             e == s + Len(v)
  <1> HIDE DEF s, e
  <1>7. /\ ReadAttributeName(d, at, <<>>) = Read(s, b) /\ ReadU64(d, s) = Read(e, c)
        /\ at + Len(u \o v) = e
    BY <1>3, <1>4, <1>5, <1>6 DEF s, e
  <1>8. /\ Start(at).at = at /\ With(Start(at), Read(s, b)).at = s
        /\ With(With(Start(at), Read(s, b)), Read(e, c)) = Read(e, <<b, c>>)
    BY PairIs
  <1>9. ReadAttribute(d, at) = Read(e, <<b, c>>)
    BY <1>7, <1>8, Zenon DEF ReadAttribute, ReadPair, Then
  <1> QED
    BY <1>2, <1>7, <1>9, Zenon

(* It is written as words.                                                 *)
LEMMA AttributeType == ASSUME NEW p \in Named PROVE WriteAttribute(p) \in Words
  <1>1. p[1] \in Words /\ p[2] \in Words
    BY DEF Named, U64
  <1> QED
    BY <1>1, ShortStringType DEF WriteAttribute, Words

(* An address alone.                                                       *)
LEMMA AddressIsRead ==
    ASSUME NEW d \in Words, NEW at, NEW a \in U64, WrittenAt(d, at, WriteU64(a))
    PROVE  ReadU64(d, at) = Read(at + Len(WriteU64(a)), a)
  BY U64IsRead DEF WriteU64

(* An address is written as words.                                         *)
LEMMA AddressType == ASSUME NEW a \in U64 PROVE WriteU64(a) \in Words
  BY DEF WriteU64, U64

(* Types, entries, attributes, addresses.                                  *)
TypesMeaning(s) == [i \in DOMAIN s |-> TypedMeaning(s[i])]

(* The type table is read as written.                                      *)
LEMMA TypesAreRead ==
    ASSUME NEW d \in Words, NEW at, NEW s \in Seq(Typed), WrittenAt(d, at, WriteSeq(s, WriteType))
    PROVE  ReadTypes(d, at) = Read(at + Len(WriteSeq(s, WriteType)), TypesMeaning(s))
  <1> DEFINE ws == [i \in 1..Len(s) |-> WriteType(s[i])]
             ms == TypesMeaning(s)
             item == [p \in 0..Len(d) + 1 |-> ReadType(d, p)]
  <1>0. DOMAIN s = 1..Len(s) /\ Len(s) \in Nat /\ \A i \in 1..Len(s) : s[i] \in Typed
    OBVIOUS
  <1>1. ws \in Seq(Words) /\ Len(ws) = Len(s)
    BY <1>0, TypedType, ListedWords
  <1>2. ms = [i \in 1..Len(s) |-> ms[i]] /\ \A i \in 1..Len(s) : ms[i] = TypedMeaning(s[i])
    BY <1>0 DEF TypesMeaning
  <1>3. WriteSeq(s, WriteType) = Counted(ws)
    BY <1>0, <1>1 DEF WriteSeq, Counted
  <1>4. ASSUME NEW i \in 1..Len(s) PROVE ItemRead(d, item, ws[i], ms[i])
    <2>1. SUFFICES ASSUME NEW p \in Nat, WrittenAt(d, p, WriteType(s[i]))
                   PROVE  item[p] = Read(p + Len(WriteType(s[i])), TypedMeaning(s[i]))
      BY <1>2 DEF ItemRead
    <2>2. p \in 0..Len(d) + 1
      BY <1>0, <2>1, TypedType, Inside
    <2> QED
      BY <1>0, <2>1, <2>2, TypedIsRead
  <1>5. ReadTypes(d, at) = Items(item, ReadU32(d, at))
    BY DEF ReadTypes, ReadSeq, ReadItems
  <1> HIDE DEF ws, ms, item
  <1>6. IsSeq(ms) /\ Len(ms) = Len(ws)
    BY <1>0, <1>1, <1>2, ListedIsSeq
  <1>7. Items(item, ReadU32(d, at)) = Read(at + Len(Counted(ws)), ms)
    BY <1>1, <1>3, <1>4, <1>6, SeqIsRead
  <1> QED
    BY <1>3, <1>5, <1>7 DEF ms

(* The type table is written as words.                                     *)
LEMMA TypesType == ASSUME NEW s \in Seq(Typed) PROVE WriteSeq(s, WriteType) \in Words
  <1> DEFINE ws == [i \in 1..Len(s) |-> WriteType(s[i])]
  <1>0. DOMAIN s = 1..Len(s) /\ Len(s) \in Nat /\ \A i \in 1..Len(s) : s[i] \in Typed
    OBVIOUS
  <1>1. ws \in Seq(Words) /\ Len(ws) = Len(s)
    BY <1>0, TypedType, ListedWords
  <1>2. WriteSeq(s, WriteType) = Counted(ws)
    BY <1>0, <1>1 DEF WriteSeq, Counted
  <1> QED
    BY <1>1, <1>2, CountedType

(* The entries of a dictionary.                                            *)
EntriesMeaning(s) == [i \in DOMAIN s |-> EntryMeaning(s[i])]

(* The content of a dictionary is read as written.                         *)
LEMMA EntriesAreRead ==
    ASSUME NEW d \in Words, NEW at, NEW s \in Seq(Entry), WrittenAt(d, at, WriteSeq(s, WriteEntry))
    PROVE  ReadSeq(d, at, ReadEntry) = Read(at + Len(WriteSeq(s, WriteEntry)), EntriesMeaning(s))
  <1> DEFINE ws == [i \in 1..Len(s) |-> WriteEntry(s[i])]
             ms == EntriesMeaning(s)
             item == [p \in 0..Len(d) + 1 |-> ReadEntry(d, p)]
  <1>0. DOMAIN s = 1..Len(s) /\ Len(s) \in Nat /\ \A i \in 1..Len(s) : s[i] \in Entry
    OBVIOUS
  <1>1. ws \in Seq(Words) /\ Len(ws) = Len(s)
    BY <1>0, EntryType, ListedWords
  <1>2. ms = [i \in 1..Len(s) |-> ms[i]] /\ \A i \in 1..Len(s) : ms[i] = EntryMeaning(s[i])
    BY <1>0 DEF EntriesMeaning
  <1>3. WriteSeq(s, WriteEntry) = Counted(ws)
    BY <1>0, <1>1 DEF WriteSeq, Counted
  <1>4. ASSUME NEW i \in 1..Len(s) PROVE ItemRead(d, item, ws[i], ms[i])
    <2>1. SUFFICES ASSUME NEW p \in Nat, WrittenAt(d, p, WriteEntry(s[i]))
                   PROVE  item[p] = Read(p + Len(WriteEntry(s[i])), EntryMeaning(s[i]))
      BY <1>2 DEF ItemRead
    <2>2. p \in 0..Len(d) + 1
      BY <1>0, <2>1, EntryType, Inside
    <2> QED
      BY <1>0, <2>1, <2>2, EntryIsRead
  <1>5. ReadSeq(d, at, ReadEntry) = Items(item, ReadU32(d, at))
    BY DEF ReadSeq, ReadItems
  <1> HIDE DEF ws, ms, item
  <1>6. IsSeq(ms) /\ Len(ms) = Len(ws)
    BY <1>0, <1>1, <1>2, ListedIsSeq
  <1>7. Items(item, ReadU32(d, at)) = Read(at + Len(Counted(ws)), ms)
    BY <1>1, <1>3, <1>4, <1>6, SeqIsRead
  <1> QED
    BY <1>3, <1>5, <1>7 DEF ms

(* The content of a dictionary is written as words.                        *)
LEMMA EntriesType == ASSUME NEW s \in Seq(Entry) PROVE WriteSeq(s, WriteEntry) \in Words
  <1> DEFINE ws == [i \in 1..Len(s) |-> WriteEntry(s[i])]
  <1>0. DOMAIN s = 1..Len(s) /\ Len(s) \in Nat /\ \A i \in 1..Len(s) : s[i] \in Entry
    OBVIOUS
  <1>1. ws \in Seq(Words) /\ Len(ws) = Len(s)
    BY <1>0, EntryType, ListedWords
  <1>2. WriteSeq(s, WriteEntry) = Counted(ws)
    BY <1>0, <1>1 DEF WriteSeq, Counted
  <1> QED
    BY <1>1, <1>2, CountedType

(* The attributes of an object.                                            *)
AttributesMeaning(s) == [i \in DOMAIN s |-> AttributeMeaning(s[i])]

(* The attributes of an object are read as written.                        *)
LEMMA AttributesAreRead ==
    ASSUME NEW d \in Words, NEW at, NEW s \in Seq(Named),
           WrittenAt(d, at, WriteSeq(s, WriteAttribute))
    PROVE  ReadAttributes(d, at, <<>>)
             = Read(at + Len(WriteSeq(s, WriteAttribute)), AttributesMeaning(s))
  <1> DEFINE ws == [i \in 1..Len(s) |-> WriteAttribute(s[i])]
             ms == AttributesMeaning(s)
             item == [p \in 0..Len(d) + 1 |-> ReadAttribute(d, p)]
  <1>0. DOMAIN s = 1..Len(s) /\ Len(s) \in Nat /\ \A i \in 1..Len(s) : s[i] \in Named
    OBVIOUS
  <1>1. ws \in Seq(Words) /\ Len(ws) = Len(s)
    BY <1>0, AttributeType, ListedWords
  <1>2. ms = [i \in 1..Len(s) |-> ms[i]] /\ \A i \in 1..Len(s) : ms[i] = AttributeMeaning(s[i])
    BY <1>0 DEF AttributesMeaning
  <1>3. WriteSeq(s, WriteAttribute) = Counted(ws)
    BY <1>0, <1>1 DEF WriteSeq, Counted
  <1>4. ASSUME NEW i \in 1..Len(s) PROVE ItemRead(d, item, ws[i], ms[i])
    <2>1. SUFFICES ASSUME NEW p \in Nat, WrittenAt(d, p, WriteAttribute(s[i]))
                   PROVE  item[p] = Read(p + Len(WriteAttribute(s[i])), AttributeMeaning(s[i]))
      BY <1>2 DEF ItemRead
    <2>2. p \in 0..Len(d) + 1
      BY <1>0, <2>1, AttributeType, Inside
    <2> QED
      BY <1>0, <2>1, <2>2, AttributeIsRead
  <1>5. ReadAttributes(d, at, <<>>) = Items(item, ReadU32(d, at))
    BY DEF ReadAttributes, ReadAttribute, ReadSeq, ReadItems
  <1> HIDE DEF ws, ms, item
  <1>6. IsSeq(ms) /\ Len(ms) = Len(ws)
    BY <1>0, <1>1, <1>2, ListedIsSeq
  <1>7. Items(item, ReadU32(d, at)) = Read(at + Len(Counted(ws)), ms)
    BY <1>1, <1>3, <1>4, <1>6, SeqIsRead
  <1> QED
    BY <1>3, <1>5, <1>7 DEF ms

(* The attributes of an object are written as words.                       *)
LEMMA AttributesType == ASSUME NEW s \in Seq(Named) PROVE WriteSeq(s, WriteAttribute) \in Words
  <1> DEFINE ws == [i \in 1..Len(s) |-> WriteAttribute(s[i])]
  <1>0. DOMAIN s = 1..Len(s) /\ Len(s) \in Nat /\ \A i \in 1..Len(s) : s[i] \in Named
    OBVIOUS
  <1>1. ws \in Seq(Words) /\ Len(ws) = Len(s)
    BY <1>0, AttributeType, ListedWords
  <1>2. WriteSeq(s, WriteAttribute) = Counted(ws)
    BY <1>0, <1>1 DEF WriteSeq, Counted
  <1> QED
    BY <1>1, <1>2, CountedType

(* The items of a list, the other referents.                               *)
AddressesMeaning(s) == [i \in DOMAIN s |-> s[i]]

(* A sequence of addresses is read as written.                             *)
LEMMA AddressesAreRead ==
    ASSUME NEW d \in Words, NEW at, NEW s \in Seq(U64), WrittenAt(d, at, WriteSeq(s, WriteU64))
    PROVE  ReadAddresses(d, at) = Read(at + Len(WriteSeq(s, WriteU64)), AddressesMeaning(s))
  <1> DEFINE ws == [i \in 1..Len(s) |-> WriteU64(s[i])]
             ms == AddressesMeaning(s)
             item == [p \in 0..Len(d) + 1 |-> ReadU64(d, p)]
  <1>0. DOMAIN s = 1..Len(s) /\ Len(s) \in Nat /\ \A i \in 1..Len(s) : s[i] \in U64
    OBVIOUS
  <1>1. ws \in Seq(Words) /\ Len(ws) = Len(s)
    BY <1>0, AddressType, ListedWords
  <1>2. ms = [i \in 1..Len(s) |-> ms[i]] /\ \A i \in 1..Len(s) : ms[i] = s[i]
    BY <1>0 DEF AddressesMeaning
  <1>3. WriteSeq(s, WriteU64) = Counted(ws)
    BY <1>0, <1>1 DEF WriteSeq, Counted
  <1>4. ASSUME NEW i \in 1..Len(s) PROVE ItemRead(d, item, ws[i], ms[i])
    <2>1. SUFFICES ASSUME NEW p \in Nat, WrittenAt(d, p, WriteU64(s[i]))
                   PROVE  item[p] = Read(p + Len(WriteU64(s[i])), s[i])
      BY <1>2 DEF ItemRead
    <2>2. p \in 0..Len(d) + 1
      BY <1>0, <2>1, AddressType, Inside
    <2> QED
      BY <1>0, <2>1, <2>2, AddressIsRead
  <1>5. ReadAddresses(d, at) = Items(item, ReadU32(d, at))
    BY DEF ReadAddresses, ReadSeq, ReadItems
  <1> HIDE DEF ws, ms, item
  <1>6. IsSeq(ms) /\ Len(ms) = Len(ws)
    BY <1>0, <1>1, <1>2, ListedIsSeq
  <1>7. Items(item, ReadU32(d, at)) = Read(at + Len(Counted(ws)), ms)
    BY <1>1, <1>3, <1>4, <1>6, SeqIsRead
  <1> QED
    BY <1>3, <1>5, <1>7 DEF ms

(* A sequence of addresses is written as words.                            *)
LEMMA AddressesType == ASSUME NEW s \in Seq(U64) PROVE WriteSeq(s, WriteU64) \in Words
  <1> DEFINE ws == [i \in 1..Len(s) |-> WriteU64(s[i])]
  <1>0. DOMAIN s = 1..Len(s) /\ Len(s) \in Nat /\ \A i \in 1..Len(s) : s[i] \in U64
    OBVIOUS
  <1>1. ws \in Seq(Words) /\ Len(ws) = Len(s)
    BY <1>0, AddressType, ListedWords
  <1>2. WriteSeq(s, WriteU64) = Counted(ws)
    BY <1>0, <1>1 DEF WriteSeq, Counted
  <1> QED
    BY <1>1, <1>2, CountedType

-----------------------------------------------------------------------------
(* Records of several fields.                                              *)

(* The parts of what is written, from the last to the first.               *)
LEMMA Joint ==
    ASSUME NEW d \in Words, NEW at, NEW u \in Words, NEW v \in Words, WrittenAt(d, at, u \o v)
    PROVE  /\ WrittenAt(d, at, u) /\ WrittenAt(d, at + Len(u), v)
           /\ at + Len(u \o v) = (at + Len(u)) + Len(v)
  BY Parts, Behind

(* One field more of the record T.                                         *)
LEMMA FirstFill ==
    ASSUME NEW T, IsSeq(T), Len(T) >= 1, NEW at, NEW p
    PROVE  Start(at).at = at /\ With(Start(at), Read(p, T[1])) = Partial(p, T, 1)
  <1>1. 0 \in Nat /\ 0 + 1 <= Len(T) /\ 0 + 1 = 1
    BY DEF IsSeq
  <1>2. With(Partial(at, T, 0), Read(p, T[0 + 1])) = Partial(p, T, 0 + 1)
    BY <1>1, Filled, Zenon
  <1>3. Start(at) = Partial(at, T, 0)
    BY NothingFilled
  <1>4. Start(at).at = at
    BY DEF Start, Read
  <1> QED
    BY <1>1, <1>2, <1>3, <1>4

(* Where the fields that have been read end.                               *)
LEMMA PartialAt == ASSUME NEW T, NEW k, NEW p PROVE Partial(p, T, k).at = p
  BY DEF Partial, Read

(* A frame and a thread.                                                   *)
FrameMeaning(f) == MapOf(NamesMeaning(f.locals))

(* One number is one word.                                                 *)
LEMMA OneWord == ASSUME NEW n \in Nat PROVE <<n>> \in Words /\ Len(<<n>>) = 1
  BY DEF Words

(* A frame is read as its locals.                                          *)
LEMMA FrameIsRead ==
    ASSUME NEW d \in Words, NEW at, NEW f \in Frames, WrittenAt(d, at, WriteFrame(f))
    PROVE  ReadFrame(d, at) = Read(at + Len(WriteFrame(f)), FrameMeaning(f))
  <1> DEFINE w1 == WriteLongString(f.file)
             w2 == <<f.line>>
             w3 == WriteLongString(f.function)
             w4 == WriteSeq(f.locals, WriteNamed)
             m1 == Cut(f.file, MaxString)
             m2 == f.line
             m3 == Cut(f.function, MaxString)
             m4 == NamesMeaning(f.locals)
             c2 == w1 \o w2
             c3 == c2 \o w3
             c4 == c3 \o w4
             T == <<m1, m2, m3, m4>>
  <1>1. f.file \in Words /\ f.line \in Nat /\ f.function \in Words /\ f.locals \in Seq(Named)
    BY DEF Frames
  <1>2. w1 \in Words /\ w2 \in Words /\ w3 \in Words /\ w4 \in Words
    BY <1>1, LongStringType, OneWord, NamesType DEF Words
  <1>3. WriteFrame(f) = c4
    BY DEF WriteFrame
  <1>4. \A x : WrittenAt(d, x, w1) => ReadLongString(d, x) = Read(x + Len(w1), m1)
    BY <1>1, LongStringIsRead
  <1>5. \A x : WrittenAt(d, x, w2) => ReadU32(d, x) = Read(x + Len(w2), m2)
    BY <1>1, U32IsRead, OneWord
  <1>6. \A x : WrittenAt(d, x, w3) => ReadLongString(d, x) = Read(x + Len(w3), m3)
    BY <1>1, LongStringIsRead
  <1>7. \A x : WrittenAt(d, x, w4) => ReadNames(d, x) = Read(x + Len(w4), m4)
    BY <1>1, NamesAreRead
  <1>8. IsSeq(T) /\ Len(T) = 4
    <2>1. T \in Seq({m1, m2, m3, m4})
      OBVIOUS
    <2> QED
      BY <2>1 DEF IsSeq
  <1>9. T[1] = m1 /\ T[2] = m2 /\ T[3] = m3 /\ T[4] = m4
    OBVIOUS
  <1> HIDE DEF w1, w2, w3, w4, m1, m2, m3, m4, T
  <1>10. w1 \in Words /\ c2 \in Words /\ c3 \in Words /\ c4 \in Words
    BY <1>2 DEF Words
  <1> DEFINE p1 == at + Len(w1)
             p2 == at + Len(c2)
             p3 == at + Len(c3)
             p4 == at + Len(c4)
  <1> HIDE DEF c2, c3, c4
  <1>11. WrittenAt(d, at, c4)
    BY <1>3
  <1>12. WrittenAt(d, at, c3) /\ WrittenAt(d, p3, w4) /\ p4 = p3 + Len(w4)
    BY <1>2, <1>10, <1>11, Joint DEF c4
  <1>13. WrittenAt(d, at, c2) /\ WrittenAt(d, p2, w3) /\ p3 = p2 + Len(w3)
    BY <1>2, <1>10, <1>12, Joint DEF c3
  <1>14. WrittenAt(d, at, w1) /\ WrittenAt(d, p1, w2) /\ p2 = p1 + Len(w2)
    BY <1>2, <1>10, <1>13, Joint DEF c2
  <1> HIDE DEF p1, p2, p3, p4
  <1>15. ReadLongString(d, at) = Read(p1, m1)
    BY <1>4, <1>14 DEF p1
  <1>16. ReadU32(d, p1) = Read(p2, m2)
    BY <1>5, <1>14, Zenon
  <1>17. ReadLongString(d, p2) = Read(p3, m3)
    BY <1>6, <1>13, Zenon
  <1>18. ReadNames(d, p3) = Read(p4, m4)
    BY <1>7, <1>12, Zenon
  <1>19. Start(at).at = at /\ With(Start(at), Read(p1, m1)) = Partial(p1, T, 1)
    BY <1>8, <1>9, FirstFill
  <1>20. /\ Partial(p1, T, 1).at = p1
         /\ With(Partial(p1, T, 1), Read(p2, m2)) = Partial(p2, T, 2)
    <2>1. 1 \in Nat /\ 1 + 1 <= Len(T) /\ 1 + 1 = 2
      BY <1>8
    <2>2. With(Partial(p1, T, 1), Read(p2, T[1 + 1])) = Partial(p2, T, 1 + 1)
      BY <1>8, <2>1, Filled, Zenon
    <2>3. Partial(p1, T, 1).at = p1
      BY PartialAt
    <2> QED
      BY <1>9, <2>1, <2>2, <2>3, Zenon
  <1>21. /\ Partial(p2, T, 2).at = p2
         /\ With(Partial(p2, T, 2), Read(p3, m3)) = Partial(p3, T, 3)
    <2>1. 2 \in Nat /\ 2 + 1 <= Len(T) /\ 2 + 1 = 3
      BY <1>8
    <2>2. With(Partial(p2, T, 2), Read(p3, T[2 + 1])) = Partial(p3, T, 2 + 1)
      BY <1>8, <2>1, Filled, Zenon
    <2>3. Partial(p2, T, 2).at = p2
      BY PartialAt
    <2> QED
      BY <1>9, <2>1, <2>2, <2>3, Zenon
  <1>22. /\ Partial(p3, T, 3).at = p3
         /\ With(Partial(p3, T, 3), Read(p4, m4)) = Partial(p4, T, 4)
    <2>1. 3 \in Nat /\ 3 + 1 <= Len(T) /\ 3 + 1 = 4
      BY <1>8
    <2>2. With(Partial(p3, T, 3), Read(p4, T[3 + 1])) = Partial(p4, T, 3 + 1)
      BY <1>8, <2>1, Filled, Zenon
    <2>3. Partial(p3, T, 3).at = p3
      BY PartialAt
    <2> QED
      BY <1>9, <2>1, <2>2, <2>3, Zenon
  <1>23. Partial(p4, T, 4) = Read(p4, T)
    BY <1>8, AllFilled
  <1>24. With(With(With(With(Start(at), ReadLongString(d, at)), ReadU32(d, p1)),
                  ReadLongString(d, p2)), ReadNames(d, p3)) = Read(p4, T)
    BY <1>15, <1>16, <1>17, <1>18, <1>19, <1>20, <1>21, <1>22, <1>23, Zenon
  <1>25. /\ With(Start(at), ReadLongString(d, at)).at = p1
        /\ With(With(Start(at), ReadLongString(d, at)), ReadU32(d, p1)).at = p2
        /\ With(With(With(Start(at), ReadLongString(d, at)), ReadU32(d, p1)),
                ReadLongString(d, p2)).at = p3
    BY <1>15, <1>16, <1>17, <1>19, <1>20, <1>21, <1>22, Zenon
  <1>26. Read(p4, T).at = p4 /\ Read(p4, T).val[4] = m4
    BY <1>9 DEF Read
  <1>27. ReadFrame(d, at) = Read(p4, MapOf(m4))
    BY <1>19, <1>24, <1>25, <1>26, Zenon DEF ReadFrame, ReadPair, Then
  <1> QED
    BY <1>3, <1>27 DEF p4, m4, FrameMeaning

(* A frame is written as words.                                            *)
LEMMA FrameType == ASSUME NEW f \in Frames PROVE WriteFrame(f) \in Words
  <1>1. f.file \in Words /\ f.line \in Nat /\ f.function \in Words /\ f.locals \in Seq(Named)
    BY DEF Frames
  <1>2. /\ WriteLongString(f.file) \in Words /\ WriteLongString(f.function) \in Words
        /\ <<f.line>> \in Words /\ WriteSeq(f.locals, WriteNamed) \in Words
    BY <1>1, LongStringType, NamesType, OneWord
  <1> QED
    BY <1>2 DEF WriteFrame, Words

(* The frames of a thread.                                                 *)
FramesMeaning(s) == [i \in DOMAIN s |-> FrameMeaning(s[i])]

(* The frames of a thread are read as written.                             *)
LEMMA FramesAreRead ==
    ASSUME NEW d \in Words, NEW at, NEW s \in Seq(Frames), WrittenAt(d, at, WriteSeq(s, WriteFrame))
    PROVE  ReadFrames(d, at) = Read(at + Len(WriteSeq(s, WriteFrame)), FramesMeaning(s))
  <1> DEFINE ws == [i \in 1..Len(s) |-> WriteFrame(s[i])]
             ms == FramesMeaning(s)
             item == [p \in 0..Len(d) + 1 |-> ReadFrame(d, p)]
  <1>0. DOMAIN s = 1..Len(s) /\ Len(s) \in Nat /\ \A i \in 1..Len(s) : s[i] \in Frames
    OBVIOUS
  <1>1. ws \in Seq(Words) /\ Len(ws) = Len(s)
    BY <1>0, FrameType, ListedWords
  <1>2. ms = [i \in 1..Len(s) |-> ms[i]] /\ \A i \in 1..Len(s) : ms[i] = FrameMeaning(s[i])
    BY <1>0 DEF FramesMeaning
  <1>3. WriteSeq(s, WriteFrame) = Counted(ws)
    BY <1>0, <1>1 DEF WriteSeq, Counted
  <1>4. ASSUME NEW i \in 1..Len(s) PROVE ItemRead(d, item, ws[i], ms[i])
    <2>1. SUFFICES ASSUME NEW p \in Nat, WrittenAt(d, p, WriteFrame(s[i]))
                   PROVE  item[p] = Read(p + Len(WriteFrame(s[i])), FrameMeaning(s[i]))
      BY <1>2 DEF ItemRead
    <2>2. p \in 0..Len(d) + 1
      BY <1>0, <2>1, FrameType, Inside
    <2> QED
      BY <1>0, <2>1, <2>2, FrameIsRead
  <1>5. ReadFrames(d, at) = Items(item, ReadU32(d, at))
    BY DEF ReadFrames, ReadSeq, ReadItems
  <1> HIDE DEF ws, ms, item
  <1>6. IsSeq(ms) /\ Len(ms) = Len(ws)
    BY <1>0, <1>1, <1>2, ListedIsSeq
  <1>7. Items(item, ReadU32(d, at)) = Read(at + Len(Counted(ws)), ms)
    BY <1>1, <1>3, <1>4, <1>6, SeqIsRead
  <1> QED
    BY <1>3, <1>5, <1>7 DEF ms

(* The frames of a thread are written as words.                            *)
LEMMA FramesType == ASSUME NEW s \in Seq(Frames) PROVE WriteSeq(s, WriteFrame) \in Words
  <1> DEFINE ws == [i \in 1..Len(s) |-> WriteFrame(s[i])]
  <1>0. DOMAIN s = 1..Len(s) /\ Len(s) \in Nat /\ \A i \in 1..Len(s) : s[i] \in Frames
    OBVIOUS
  <1>1. ws \in Seq(Words) /\ Len(ws) = Len(s)
    BY <1>0, FrameType, ListedWords
  <1>2. WriteSeq(s, WriteFrame) = Counted(ws)
    BY <1>0, <1>1 DEF WriteSeq, Counted
  <1> QED
    BY <1>1, <1>2, CountedType

(* A thread.                                                               *)
ThreadMeaning(t) == [name |-> Cut(t.name, MaxString), frames |-> FramesMeaning(t.frames)]

(* Two flags are two words.                                                *)
LEMMA TwoWords ==
    ASSUME NEW w \in Words, NEW a, NEW b, <<a>> \in Words, <<b>> \in Words
    PROVE  w \o <<a, b>> = (w \o <<a>>) \o <<b>>
  <1>1. a \in Nat /\ b \in Nat
    BY DEF Words
  <1> DEFINE s == <<a, b>>
             t == <<a>> \o <<b>>
  <1>2. s \in Seq(Nat) /\ Len(s) = 2 /\ s[1] = a /\ s[2] = b
    BY <1>1
  <1>3. t \in Seq(Nat) /\ Len(t) = 2 /\ t[1] = a /\ t[2] = b
    BY <1>1
  <1> HIDE DEF s, t
  <1>4. \A i \in 1..Len(s) : s[i] = t[i]
    BY <1>2, <1>3
  <1>5. s = t
    BY <1>2, <1>3, <1>4, SeqEqual
  <1>6. (w \o <<a>>) \o <<b>> = w \o (<<a>> \o <<b>>)
    <2>1. w \in Seq(Nat) /\ <<a>> \in Seq(Nat) /\ <<b>> \in Seq(Nat)
      BY <1>1 DEF Words
    <2> QED
      BY <2>1, ConcatAssociative
  <1> QED
    BY <1>5, <1>6, Zenon DEF s, t

(* A thread is read as its name and its frames.                            *)
LEMMA ThreadIsRead ==
    ASSUME NEW d \in Words, NEW at, NEW t \in Threads, WrittenAt(d, at, WriteThread(t))
    PROVE  ReadThread(d, at) = Read(at + Len(WriteThread(t)), ThreadMeaning(t))
  <1> DEFINE w1 == WriteLongString(t.name)
             w2 == <<t.alive>>
             w3 == <<t.daemon>>
             w4 == WriteSeq(t.frames, WriteFrame)
             m1 == Cut(t.name, MaxString)
             m2 == t.alive
             m3 == t.daemon
             m4 == FramesMeaning(t.frames)
             c2 == w1 \o w2
             c3 == c2 \o w3
             c4 == c3 \o w4
             T == <<m1, m2, m3, m4>>
  <1>1. t.name \in Words /\ t.alive \in Nat /\ t.daemon \in Nat /\ t.frames \in Seq(Frames)
    BY DEF Threads
  <1>2. w1 \in Words /\ w2 \in Words /\ w3 \in Words /\ w4 \in Words
    BY <1>1, LongStringType, OneWord, FramesType DEF Words
  <1>3. WriteThread(t) = c4
    <2>1. w1 \o <<t.alive, t.daemon>> = (w1 \o w2) \o w3
      BY <1>2, TwoWords
    <2> QED
      BY <2>1 DEF WriteThread
  <1>4. \A x : WrittenAt(d, x, w1) => ReadLongString(d, x) = Read(x + Len(w1), m1)
    BY <1>1, LongStringIsRead
  <1>5. \A x : WrittenAt(d, x, w2) => ReadU32(d, x) = Read(x + Len(w2), m2)
    BY <1>1, U32IsRead, OneWord
  <1>6. \A x : WrittenAt(d, x, w3) => ReadU32(d, x) = Read(x + Len(w3), m3)
    BY <1>1, U32IsRead, OneWord
  <1>7. \A x : WrittenAt(d, x, w4) => ReadFrames(d, x) = Read(x + Len(w4), m4)
    BY <1>1, FramesAreRead
  <1>8. IsSeq(T) /\ Len(T) = 4
    <2>1. T \in Seq({m1, m2, m3, m4})
      OBVIOUS
    <2> QED
      BY <2>1 DEF IsSeq
  <1>9. T[1] = m1 /\ T[2] = m2 /\ T[3] = m3 /\ T[4] = m4
    OBVIOUS
  <1> HIDE DEF w1, w2, w3, w4, m1, m2, m3, m4, T
  <1>10. w1 \in Words /\ c2 \in Words /\ c3 \in Words /\ c4 \in Words
    BY <1>2 DEF Words
  <1> DEFINE p1 == at + Len(w1)
             p2 == at + Len(c2)
             p3 == at + Len(c3)
             p4 == at + Len(c4)
  <1> HIDE DEF c2, c3, c4
  <1>11. WrittenAt(d, at, c4)
    BY <1>3
  <1>12. WrittenAt(d, at, c3) /\ WrittenAt(d, p3, w4) /\ p4 = p3 + Len(w4)
    BY <1>2, <1>10, <1>11, Joint DEF c4
  <1>13. WrittenAt(d, at, c2) /\ WrittenAt(d, p2, w3) /\ p3 = p2 + Len(w3)
    BY <1>2, <1>10, <1>12, Joint DEF c3
  <1>14. WrittenAt(d, at, w1) /\ WrittenAt(d, p1, w2) /\ p2 = p1 + Len(w2)
    BY <1>2, <1>10, <1>13, Joint DEF c2
  <1> HIDE DEF p1, p2, p3, p4
  <1>15. ReadLongString(d, at) = Read(p1, m1)
    BY <1>4, <1>14 DEF p1
  <1>16. ReadU32(d, p1) = Read(p2, m2)
    BY <1>5, <1>14, Zenon
  <1>17. ReadU32(d, p2) = Read(p3, m3)
    BY <1>6, <1>13, Zenon
  <1>18. ReadFrames(d, p3) = Read(p4, m4)
    BY <1>7, <1>12, Zenon
  <1>19. Start(at).at = at /\ With(Start(at), Read(p1, m1)) = Partial(p1, T, 1)
    BY <1>8, <1>9, FirstFill
  <1>20. /\ Partial(p1, T, 1).at = p1
         /\ With(Partial(p1, T, 1), Read(p2, m2)) = Partial(p2, T, 2)
    <2>1. 1 \in Nat /\ 1 + 1 <= Len(T) /\ 1 + 1 = 2
      BY <1>8
    <2>2. With(Partial(p1, T, 1), Read(p2, T[1 + 1])) = Partial(p2, T, 1 + 1)
      BY <1>8, <2>1, Filled, Zenon
    <2>3. Partial(p1, T, 1).at = p1
      BY PartialAt
    <2> QED
      BY <1>9, <2>1, <2>2, <2>3, Zenon
  <1>21. /\ Partial(p2, T, 2).at = p2
         /\ With(Partial(p2, T, 2), Read(p3, m3)) = Partial(p3, T, 3)
    <2>1. 2 \in Nat /\ 2 + 1 <= Len(T) /\ 2 + 1 = 3
      BY <1>8
    <2>2. With(Partial(p2, T, 2), Read(p3, T[2 + 1])) = Partial(p3, T, 2 + 1)
      BY <1>8, <2>1, Filled, Zenon
    <2>3. Partial(p2, T, 2).at = p2
      BY PartialAt
    <2> QED
      BY <1>9, <2>1, <2>2, <2>3, Zenon
  <1>22. /\ Partial(p3, T, 3).at = p3
         /\ With(Partial(p3, T, 3), Read(p4, m4)) = Partial(p4, T, 4)
    <2>1. 3 \in Nat /\ 3 + 1 <= Len(T) /\ 3 + 1 = 4
      BY <1>8
    <2>2. With(Partial(p3, T, 3), Read(p4, T[3 + 1])) = Partial(p4, T, 3 + 1)
      BY <1>8, <2>1, Filled, Zenon
    <2>3. Partial(p3, T, 3).at = p3
      BY PartialAt
    <2> QED
      BY <1>9, <2>1, <2>2, <2>3, Zenon
  <1>23. Partial(p4, T, 4) = Read(p4, T)
    BY <1>8, AllFilled
  <1>24. With(With(With(With(Start(at), ReadLongString(d, at)), ReadU32(d, p1)),
                  ReadU32(d, p2)), ReadFrames(d, p3)) = Read(p4, T)
    BY <1>15, <1>16, <1>17, <1>18, <1>19, <1>20, <1>21, <1>22, <1>23, Zenon
  <1>25. /\ With(Start(at), ReadLongString(d, at)).at = p1
        /\ With(With(Start(at), ReadLongString(d, at)), ReadU32(d, p1)).at = p2
        /\ With(With(With(Start(at), ReadLongString(d, at)), ReadU32(d, p1)),
                ReadU32(d, p2)).at = p3
    BY <1>15, <1>16, <1>17, <1>19, <1>20, <1>21, <1>22, Zenon
  <1>26. Read(p4, T).at = p4 /\ Read(p4, T).val[1] = m1 /\ Read(p4, T).val[4] = m4
    BY <1>9 DEF Read
  <1>27. ReadThread(d, at) = Read(p4, [name |-> m1, frames |-> m4])
    BY <1>19, <1>24, <1>25, <1>26, Zenon DEF ReadThread, ReadPair, Then
  <1> QED
    BY <1>3, <1>27 DEF p4, m1, m4, ThreadMeaning

(* A thread is written as words.                                           *)
LEMMA ThreadType == ASSUME NEW t \in Threads PROVE WriteThread(t) \in Words
  <1>1. t.name \in Words /\ t.alive \in Nat /\ t.daemon \in Nat /\ t.frames \in Seq(Frames)
    BY DEF Threads
  <1>2. /\ WriteLongString(t.name) \in Words /\ <<t.alive, t.daemon>> \in Words
        /\ WriteSeq(t.frames, WriteFrame) \in Words
    BY <1>1, LongStringType, FramesType DEF Words
  <1> QED
    BY <1>2 DEF WriteThread, Words

(* The threads.                                                            *)
ThreadsMeaning(s) == [i \in DOMAIN s |-> ThreadMeaning(s[i])]

(* The threads are read as written.                                        *)
LEMMA ThreadsAreRead ==
    ASSUME NEW d \in Words, NEW at, NEW s \in Seq(Threads),
           WrittenAt(d, at, WriteSeq(s, WriteThread))
    PROVE  ReadThreads(d, at) = Read(at + Len(WriteSeq(s, WriteThread)), ThreadsMeaning(s))
  <1> DEFINE ws == [i \in 1..Len(s) |-> WriteThread(s[i])]
             ms == ThreadsMeaning(s)
             item == [p \in 0..Len(d) + 1 |-> ReadThread(d, p)]
  <1>0. DOMAIN s = 1..Len(s) /\ Len(s) \in Nat /\ \A i \in 1..Len(s) : s[i] \in Threads
    OBVIOUS
  <1>1. ws \in Seq(Words) /\ Len(ws) = Len(s)
    BY <1>0, ThreadType, ListedWords
  <1>2. ms = [i \in 1..Len(s) |-> ms[i]] /\ \A i \in 1..Len(s) : ms[i] = ThreadMeaning(s[i])
    BY <1>0 DEF ThreadsMeaning
  <1>3. WriteSeq(s, WriteThread) = Counted(ws)
    BY <1>0, <1>1 DEF WriteSeq, Counted
  <1>4. ASSUME NEW i \in 1..Len(s) PROVE ItemRead(d, item, ws[i], ms[i])
    <2>1. SUFFICES ASSUME NEW p \in Nat, WrittenAt(d, p, WriteThread(s[i]))
                   PROVE  item[p] = Read(p + Len(WriteThread(s[i])), ThreadMeaning(s[i]))
      BY <1>2 DEF ItemRead
    <2>2. p \in 0..Len(d) + 1
      BY <1>0, <2>1, ThreadType, Inside
    <2> QED
      BY <1>0, <2>1, <2>2, ThreadIsRead
  <1>5. ReadThreads(d, at) = Items(item, ReadU32(d, at))
    BY DEF ReadThreads, ReadSeq, ReadItems
  <1> HIDE DEF ws, ms, item
  <1>6. IsSeq(ms) /\ Len(ms) = Len(ws)
    BY <1>0, <1>1, <1>2, ListedIsSeq
  <1>7. Items(item, ReadU32(d, at)) = Read(at + Len(Counted(ws)), ms)
    BY <1>1, <1>3, <1>4, <1>6, SeqIsRead
  <1> QED
    BY <1>3, <1>5, <1>7 DEF ms

(* The threads are written as words.                                       *)
LEMMA ThreadsType == ASSUME NEW s \in Seq(Threads) PROVE WriteSeq(s, WriteThread) \in Words
  <1> DEFINE ws == [i \in 1..Len(s) |-> WriteThread(s[i])]
  <1>0. DOMAIN s = 1..Len(s) /\ Len(s) \in Nat /\ \A i \in 1..Len(s) : s[i] \in Threads
    OBVIOUS
  <1>1. ws \in Seq(Words) /\ Len(ws) = Len(s)
    BY <1>0, ThreadType, ListedWords
  <1>2. WriteSeq(s, WriteThread) = Counted(ws)
    BY <1>0, <1>1 DEF WriteSeq, Counted
  <1> QED
    BY <1>1, <1>2, CountedType

-----------------------------------------------------------------------------
(* The referents are written in the order of their addresses.              *)

(* Any two addresses can be compared.                                      *)
LEMMA LessOrder ==
    /\ \A a, b \in U64 : a = b \/ Less(a, b) \/ Less(b, a)
    /\ \A a, b, c \in U64 : Less(a, b) /\ Less(b, c) => Less(a, c)
  <1>1. ASSUME NEW a \in U64 PROVE a[1] \in Nat /\ a[2] \in Nat /\ a \in Seq(Nat) /\ Len(a) = 2
    <2>1. a \in Seq(Nat) /\ Len(a) = 2
      BY DEF U64, Words
    <2>2. 1 \in 1..Len(a) /\ 2 \in 1..Len(a)
      BY <2>1
    <2> QED
      BY <2>1, <2>2
  <1>2. ASSUME NEW a \in U64, NEW b \in U64, a[1] = b[1], a[2] = b[2] PROVE a = b
    <2>1. a \in Seq(Nat) /\ b \in Seq(Nat) /\ Len(a) = Len(b) /\ \A i \in 1..Len(a) : a[i] = b[i]
      BY <1>1, <1>2
    <2> QED
      BY <2>1, SeqEqual
  <1>3. ASSUME NEW a \in U64, NEW b \in U64 PROVE a = b \/ Less(a, b) \/ Less(b, a)
    <2>1. (a[1] = b[1] /\ a[2] = b[2]) \/ Less(a, b) \/ Less(b, a)
      BY <1>1 DEF Less
    <2> QED
      BY <1>2, <2>1
  <1>4. ASSUME NEW a \in U64, NEW b \in U64, NEW c \in U64, Less(a, b), Less(b, c)
        PROVE  Less(a, c)
    BY <1>1, <1>4 DEF Less
  <1> QED
    BY <1>3, <1>4

(* Some addresses without one of them.                                     *)
LEMMA OneLess ==
    ASSUME NEW S \in SUBSET U64, IsFiniteSet(S), NEW n \in Nat, Cardinality(S) = n + 1, NEW x \in S
    PROVE  /\ S \ {x} \in SUBSET U64 /\ IsFiniteSet(S \ {x}) /\ Cardinality(S \ {x}) = n
  <1>1. IsFiniteSet(S \ {x}) /\ Cardinality(S \ {x}) = Cardinality(S) - 1
    BY FS_RemoveElement
  <1> QED
    BY <1>1

(* One of them is the largest.                                             *)
Largest(S, m) == m \in S /\ \A x \in S : x = m \/ Less(x, m)

(* A finite set of addresses has a largest.                                *)
LEMMA LargestExists ==
    ASSUME NEW S \in SUBSET U64, IsFiniteSet(S), S # {} PROVE \E m : Largest(S, m)
  <1> DEFINE P(n) == \A R \in SUBSET U64 :
                        IsFiniteSet(R) /\ Cardinality(R) = n /\ R # {} => \E m : Largest(R, m)
             T == {n \in Nat : P(n)}
  <1>1. 0 \in T
    BY FS_EmptySet
  <1>2. ASSUME NEW n \in T PROVE n + 1 \in T
    <2>0. n \in Nat /\ n + 1 \in Nat /\ P(n)
      OBVIOUS
    <2>1. SUFFICES ASSUME NEW R \in SUBSET U64, IsFiniteSet(R), Cardinality(R) = n + 1, R # {}
                   PROVE  \E m : Largest(R, m)
      BY <2>0
    <2>2. PICK x \in R : TRUE
      BY <2>1
    <2>3. R \ {x} \in SUBSET U64 /\ IsFiniteSet(R \ {x}) /\ Cardinality(R \ {x}) = n
      BY <2>0, <2>1, OneLess
    <2>4. CASE R \ {x} = {}
      <3>1. Largest(R, x)
        BY <2>4 DEF Largest
      <3> QED
        BY <3>1
    <2>5. CASE R \ {x} # {}
      <3>1. PICK m : Largest(R \ {x}, m)
        BY <2>0, <2>3, <2>5
      <3>2. m \in R /\ m \in U64 /\ x \in U64 /\ m # x
        BY <3>1 DEF Largest
      <3>3. \A y \in R : y = x \/ y = m \/ Less(y, m)
        BY <3>1 DEF Largest
      <3>4. CASE Less(m, x)
        <4>1. \A y \in R : Less(y, m) => Less(y, x)
          BY <3>2, <3>4, LessOrder
        <4>2. Largest(R, x)
          BY <3>3, <3>4, <4>1 DEF Largest
        <4> QED
          BY <4>2
      <3>5. CASE Less(x, m)
        <4>1. Largest(R, m)
          BY <3>2, <3>3, <3>5 DEF Largest
        <4> QED
          BY <4>1
      <3> QED
        BY <3>2, <3>4, <3>5, LessOrder
    <2> QED
      BY <2>4, <2>5
  <1>3. T = Nat
    <2> HIDE DEF T
    <2>1. T \in SUBSET Nat
      BY DEF T
    <2> QED
      BY <1>1, <1>2, <2>1, NatInduct
  <1>4. Cardinality(S) \in Nat
    BY FS_CardinalityType
  <1>5. Cardinality(S) \in T
    BY <1>3, <1>4, Zenon
  <1> QED
    BY <1>5

(* They can be put in order.                                               *)
InOrder(q, S) ==
    /\ q \in [1..Cardinality(S) -> S]
    /\ ToSet(q) = S /\ \A i, j \in DOMAIN q : i < j => Less(q[i], q[j])

(* A finite set of addresses can be put in order.                          *)
LEMMA OrderExists ==
    ASSUME NEW S \in SUBSET U64, IsFiniteSet(S) PROVE \E q : InOrder(q, S)
  <1> DEFINE P(n) == \A R \in SUBSET U64 :
                        IsFiniteSet(R) /\ Cardinality(R) = n => \E q : InOrder(q, R)
             T == {n \in Nat : P(n)}
  <1>1. 0 \in T
    <2>1. ASSUME NEW R \in SUBSET U64, IsFiniteSet(R), Cardinality(R) = 0
          PROVE  \E q : InOrder(q, R)
      <3>1. R = {}
        BY <2>1, FS_EmptySet
      <3> DEFINE q == [i \in 1..0 |-> {}]
      <3>2. q \in [1..Cardinality(R) -> R] /\ ToSet(q) = R /\ DOMAIN q = {}
        BY <2>1, <3>1 DEF ToSet
      <3> HIDE DEF q
      <3>3. InOrder(q, R)
        BY <3>2 DEF InOrder
      <3> QED
        BY <3>3
    <2> QED
      BY <2>1
  <1>2. ASSUME NEW n \in T PROVE n + 1 \in T
    <2>0. n \in Nat /\ n + 1 \in Nat /\ P(n)
      OBVIOUS
    <2>1. SUFFICES ASSUME NEW R \in SUBSET U64, IsFiniteSet(R), Cardinality(R) = n + 1
                   PROVE  \E q : InOrder(q, R)
      BY <2>0
    <2>2. R # {}
      BY <2>0, <2>1, FS_EmptySet
    <2>3. PICK m : Largest(R, m)
      BY <2>1, <2>2, LargestExists
    <2>4. m \in R /\ \A x \in R \ {m} : Less(x, m)
      BY <2>3 DEF Largest
    <2>5. R \ {m} \in SUBSET U64 /\ IsFiniteSet(R \ {m}) /\ Cardinality(R \ {m}) = n
      BY <2>0, <2>1, <2>4, OneLess
    <2>6. PICK p : InOrder(p, R \ {m})
      BY <2>0, <2>5
    <2>7. /\ p \in [1..n -> R \ {m}] /\ {p[i] : i \in 1..n} = R \ {m}
          /\ \A i, j \in 1..n : i < j => Less(p[i], p[j])
      BY <2>5, <2>6 DEF InOrder, ToSet
    <2> DEFINE q == [i \in 1..n + 1 |-> IF i = n + 1 THEN m ELSE p[i]]
    <2>8. \A i \in 1..n : q[i] = p[i] /\ i \in 1..n + 1
      BY <2>0
    <2>9. q[n + 1] = m /\ n + 1 \in 1..n + 1 /\ DOMAIN q = 1..n + 1
      BY <2>0
    <2>10. \A i \in 1..n + 1 : i = n + 1 \/ i \in 1..n
      BY <2>0
    <2>11. q \in [1..n + 1 -> R]
      BY <2>4, <2>7, <2>10
    <2> HIDE DEF q
    <2>12. {q[i] : i \in 1..n + 1} = R
      <3>1. ASSUME NEW x \in R PROVE \E i \in 1..n + 1 : q[i] = x
        <4>1. CASE x = m
          BY <2>9, <4>1
        <4>2. CASE x # m
          <5>1. PICK i \in 1..n : p[i] = x
            BY <2>7, <4>2
          <5> QED
            BY <2>8, <5>1
        <4> QED
          BY <4>1, <4>2
      <3>2. \A i \in 1..n + 1 : q[i] \in R
        BY <2>11
      <3> QED
        BY <3>1, <3>2
    <2>13. ASSUME NEW i \in 1..n + 1, NEW j \in 1..n + 1, i < j PROVE Less(q[i], q[j])
      <3>1. i \in 1..n
        BY <2>0, <2>13
      <3>2. CASE j = n + 1
        <4>1. p[i] \in R \ {m}
          BY <2>7, <3>1
        <4> QED
          BY <2>4, <2>8, <2>9, <3>1, <3>2, <4>1
      <3>3. CASE j \in 1..n
        BY <2>7, <2>8, <2>13, <3>1, <3>3
      <3> QED
        BY <2>10, <3>2, <3>3
    <2>14. InOrder(q, R)
      BY <2>1, <2>9, <2>11, <2>12, <2>13 DEF InOrder, ToSet
    <2> QED
      BY <2>14
  <1>3. T = Nat
    <2> HIDE DEF T
    <2>1. T \in SUBSET Nat
      BY DEF T
    <2> QED
      BY <1>1, <1>2, <2>1, NatInduct
  <1>4. Cardinality(S) \in Nat
    BY FS_CardinalityType
  <1>5. Cardinality(S) \in T
    BY <1>3, <1>4, Zenon
  <1> QED
    BY <1>5

(* So all of them are written, and nothing else.                           *)
LEMMA SortedAll ==
    ASSUME NEW S \in SUBSET U64, IsFiniteSet(S)
    PROVE  Sorted(S) \in Seq(U64) /\ ToSet(Sorted(S)) = S
  <1>1. PICK q : InOrder(q, S)
    BY OrderExists
  <1>2. InOrder(Sorted(S), S)
    BY <1>1, Zenon DEF InOrder, Sorted
  <1>3. Cardinality(S) \in Nat
    BY FS_CardinalityType
  <1>4. Sorted(S) \in [1..Cardinality(S) -> U64]
    BY <1>2 DEF InOrder
  <1>5. Sorted(S) \in Seq(U64)
    <2> DEFINE s == Sorted(S)
    <2> HIDE DEF s
    <2>1. s \in [1..Cardinality(S) -> U64]
      BY <1>4 DEF s
    <2>2. s \in Seq(U64)
      BY <1>3, <2>1
    <2> QED
      BY <2>2 DEF s
  <1> QED
    BY <1>2, <1>5 DEF InOrder
-----------------------------------------------------------------------------
(* Objects.                                                                *)

HasRepr(h, o) == h.strRepr /\ o.type \notin Containers(h.known)
ObjectMeaning(h, o) ==
    [addr |-> o.addr, type |-> o.type, size |-> Clamp(o.size),
     refs |-> o.refs \cup ContentOf(o),
     repr |-> IF HasRepr(h, o) THEN Cut(o.repr, MaxString) ELSE <<>>]

(* The content of an object, and what is read of it.                       *)
ContentWords(o) ==
    CASE o.kind = "dict"     -> WriteSeq(o.content, WriteEntry)
      [] o.kind = "sequence" -> WriteSeq(o.content, WriteU64)
      [] OTHER               -> <<>>
ContentMeaning(o) ==
    CASE o.kind = "dict"     -> EntriesMeaning(o.content)
      [] o.kind = "sequence" -> AddressesMeaning(o.content)
      [] OTHER               -> <<>>
ReprWords(h, o) == IF HasRepr(h, o) THEN WriteLongString(o.repr) ELSE <<>>
ReprMeaning(h, o) == IF HasRepr(h, o) THEN Cut(o.repr, MaxString) ELSE <<>>
ReadRepr(d, at, type, known, strRepr) ==
    IF strRepr /\ type \notin Containers(known) THEN ReadLongString(d, at) ELSE Start(at)

(* Nothing is written for an empty field.                                  *)
LEMMA NoWords == <<>> \in Words /\ Len(<<>>) = 0
  BY DEF Words

(* And nothing is read of it.                                              *)
LEMMA NothingIsRead ==
    ASSUME NEW d, NEW at, WrittenAt(d, at, <<>>) PROVE Start(at) = Read(at + Len(<<>>), <<>>)
  <1>1. at + Len(<<>>) = at
    BY NoWords DEF WrittenAt
  <1> QED
    BY <1>1 DEF Start

(* The reader finds by the type what the writer wrote by the kind.         *)
LEMMA ContentIsRead ==
    ASSUME NEW d \in Words, NEW at, NEW o, NEW k, IsObject(o, k), WrittenAt(d, at, ContentWords(o))
    PROVE  ReadContent(d, at, o.type, k) = Read(at + Len(ContentWords(o)), ContentMeaning(o))
  <1>0. o.kind \in {"dict", "sequence", "none"} /\ KindOfType(o, k)
    BY DEF IsObject
  <1>1. CASE o.kind = "dict"
    <2>1. ContentWords(o) = WriteSeq(o.content, WriteEntry)
          /\ ContentMeaning(o) = EntriesMeaning(o.content)
      BY <1>1 DEF ContentWords, ContentMeaning
    <2>2. o.content \in Seq(Entry) /\ ReadContent(d, at, o.type, k) = ReadSeq(d, at, ReadEntry)
      BY <1>0, <1>1 DEF ReadContent, KindOfType
    <2> QED
      BY <2>1, <2>2, EntriesAreRead
  <1>2. CASE o.kind = "sequence"
    <2>1. ContentWords(o) = WriteSeq(o.content, WriteU64)
          /\ ContentMeaning(o) = AddressesMeaning(o.content)
      BY <1>2 DEF ContentWords, ContentMeaning
    <2>2. o.type \in Containers(k)
      BY <1>0, <1>2 DEF Containers, KindOfType
    <2>3. o.content \in Seq(U64) /\ ReadContent(d, at, o.type, k) = ReadAddresses(d, at)
      BY <1>0, <1>2, <2>2 DEF ReadContent, KindOfType
    <2> QED
      BY <2>1, <2>3, AddressesAreRead
  <1>3. CASE o.kind = "none"
    <2>1. ContentWords(o) = <<>> /\ ContentMeaning(o) = <<>>
      BY <1>3 DEF ContentWords, ContentMeaning
    <2>2. o.type \notin Containers(k) /\ k[DictName] \in Containers(k)
      BY <1>0, <1>3 DEF Containers, KindOfType
    <2>3. ReadContent(d, at, o.type, k) = Start(at)
      BY <2>2 DEF ReadContent
    <2> QED
      BY <2>1, <2>3, NothingIsRead
  <1> QED
    BY <1>0, <1>1, <1>2, <1>3

(* The objects it refers to through its content.                           *)
LEMMA ContentIsAll ==
    ASSUME NEW o, NEW k, IsObject(o, k)
    PROVE  ContentOf(o) = IF o.type = k[DictName]
                          THEN UNION {{p[1], p[2]} : p \in ToSet(ContentMeaning(o))}
                          ELSE ToSet(ContentMeaning(o))
  <1>0. o.kind \in {"dict", "sequence", "none"} /\ KindOfType(o, k)
    BY DEF IsObject
  <1>1. CASE o.kind = "dict"
    <2> DEFINE c == o.content
               M == {<<c[i][1], c[i][2]>> : i \in DOMAIN c}
    <2>1. ContentMeaning(o) = EntriesMeaning(c) /\ o.type = k[DictName]
      BY <1>0, <1>1 DEF ContentMeaning, KindOfType
    <2>2. ContentOf(o) = {c[i][j] : i \in DOMAIN c, j \in {1, 2}}
      BY <1>1 DEF ContentOf
    <2> HIDE DEF c
    <2>3. ToSet(EntriesMeaning(c)) = M
      BY DEF ToSet, EntriesMeaning, EntryMeaning
    <2> DEFINE A == UNION {{p[1], p[2]} : p \in M}
               B == {c[i][j] : i \in DOMAIN c, j \in {1, 2}}
    <2>4. A = B
      <3>1. \A i : <<c[i][1], c[i][2]>>[1] = c[i][1] /\ <<c[i][1], c[i][2]>>[2] = c[i][2]
        OBVIOUS
      <3>2. ASSUME NEW x PROVE (\E p \in M : x = p[1] \/ x = p[2])
                                 <=> (\E i \in DOMAIN c : x = c[i][1] \/ x = c[i][2])
        BY <3>1
      <3> HIDE DEF M
      <3>3. ASSUME NEW x PROVE x \in A <=> \E p \in M : x = p[1] \/ x = p[2]
        BY Zenon
      <3>4. ASSUME NEW x PROVE x \in B <=> \E i \in DOMAIN c : x = c[i][1] \/ x = c[i][2]
        OBVIOUS
      <3> HIDE DEF A, B
      <3>5. ASSUME NEW x PROVE x \in A <=> x \in B
        BY <3>2, <3>3, <3>4
      <3> QED
        BY <3>5
    <2> QED
      BY <2>1, <2>2, <2>3, <2>4
  <1>2. CASE o.kind = "sequence"
    <2>1. ContentMeaning(o) = AddressesMeaning(o.content) /\ o.type # k[DictName]
      BY <1>0, <1>2 DEF ContentMeaning, KindOfType
    <2>2. ContentOf(o) = {o.content[i] : i \in DOMAIN o.content}
      BY <1>2 DEF ContentOf
    <2>3. ToSet(AddressesMeaning(o.content)) = {o.content[i] : i \in DOMAIN o.content}
      BY DEF ToSet, AddressesMeaning
    <2> QED
      BY <2>1, <2>2, <2>3
  <1>3. CASE o.kind = "none"
    <2>1. ContentMeaning(o) = <<>> /\ o.type # k[DictName]
      BY <1>0, <1>3 DEF ContentMeaning, KindOfType, Containers
    <2>2. ContentOf(o) = {} /\ ToSet(<<>>) = {}
      BY <1>3 DEF ContentOf, ToSet
    <2> QED
      BY <2>1, <2>2
  <1> QED
    BY <1>0, <1>1, <1>2, <1>3

(* The representation is there for the reader when it was for the writer.  *)
LEMMA ReprIsRead ==
    ASSUME NEW d \in Words, NEW at, NEW h, NEW o, o.repr \in Words, NEW k,
           Containers(k) = Containers(h.known), WrittenAt(d, at, ReprWords(h, o))
    PROVE  ReadRepr(d, at, o.type, k, h.strRepr)
             = Read(at + Len(ReprWords(h, o)), ReprMeaning(h, o))
  <1>1. CASE HasRepr(h, o)
    BY <1>1, LongStringIsRead DEF ReprWords, ReprMeaning, ReadRepr, HasRepr
  <1>2. CASE ~HasRepr(h, o)
    BY <1>2, NothingIsRead DEF ReprWords, ReprMeaning, ReadRepr, HasRepr
  <1> QED
    BY <1>1, <1>2

(* The parts of an object are words.                                       *)
LEMMA ObjectParts ==
    ASSUME NEW h, NEW o, IsObject(o, h.known)
    PROVE  /\ o.addr \in U64 /\ o.type \in U64 /\ Clamp(o.size) \in Nat
           /\ o.attributes \in Seq(Named) /\ o.repr \in Words
           /\ Sorted(o.refs \ ContentOf(o)) \in Seq(U64)
           /\ ToSet(Sorted(o.refs \ ContentOf(o))) = o.refs \ ContentOf(o)
           /\ ContentWords(o) \in Words /\ ReprWords(h, o) \in Words
  <1>1. /\ o.addr \in U64 /\ o.type \in U64 /\ o.size \in Int /\ o.refs \in SUBSET U64
        /\ o.attributes \in Seq(Named) /\ o.repr \in Words
        /\ o.kind \in {"dict", "sequence", "none"} /\ KindOfType(o, h.known) /\ IsFiniteSet(o.refs)
    BY DEF IsObject
  <1>2. Clamp(o.size) \in Nat
    BY <1>1, FormatAssumption DEF Clamp
  <1> DEFINE rest == o.refs \ ContentOf(o)
  <1>3. rest \in SUBSET U64 /\ IsFiniteSet(rest)
    BY <1>1, FS_Difference
  <1> HIDE DEF rest
  <1>4. Sorted(rest) \in Seq(U64) /\ ToSet(Sorted(rest)) = rest
    BY <1>3, SortedAll
  <1>5. ContentWords(o) \in Words
    BY <1>1, EntriesType, AddressesType, NoWords DEF ContentWords, KindOfType
  <1>6. ReprWords(h, o) \in Words
    BY <1>1, LongStringType, NoWords DEF ReprWords
  <1> QED
    BY <1>1, <1>2, <1>4, <1>5, <1>6 DEF rest

(* An object is read as it was written, whichever dictionary k of the      *)
(* container types the reader has.                                         *)
ReadTail(d, head, type, k, strRepr) ==
    LET content == With(head, ReadContent(d, head.at, type, k))
        refs == With(content, ReadAddresses(d, content.at))
        attributes == With(refs, ReadAttributes(d, refs.at, <<>>))
    IN  With(attributes, ReadRepr(d, attributes.at, type, k, strRepr))

(* An object is read as what the writer was given, field by field.         *)
LEMMA ObjectIsRead ==
    ASSUME NEW d \in Words, NEW at, NEW h, NEW o, IsObject(o, h.known), NEW k, IsObject(o, k),
           Containers(k) = Containers(h.known), WrittenAt(d, at, WriteObject(h, o))
    PROVE  ReadObject(d, at, k, h.strRepr, <<>>, {}) = Read(at + Len(WriteObject(h, o)),
    ObjectMeaning(h, o))
  <1> DEFINE w1 == o.addr
             w2 == o.type
             w3 == <<Clamp(o.size)>>
             w4 == ContentWords(o)
             w5 == WriteSeq(Sorted(o.refs \ ContentOf(o)), WriteU64)
             w6 == WriteSeq(o.attributes, WriteAttribute)
             w7 == ReprWords(h, o)
             m1 == o.addr
             m2 == o.type
             m3 == Clamp(o.size)
             m4 == ContentMeaning(o)
             m5 == AddressesMeaning(Sorted(o.refs \ ContentOf(o)))
             m6 == AttributesMeaning(o.attributes)
             m7 == ReprMeaning(h, o)
             c2 == w1 \o w2
             c3 == c2 \o w3
             c4 == c3 \o w4
             c5 == c4 \o w5
             c6 == c5 \o w6
             c7 == c6 \o w7
             T == <<m1, m2, m3, m4, m5, m6, m7>>
  <1>1. /\ o.addr \in U64 /\ o.type \in U64 /\ Clamp(o.size) \in Nat
        /\ o.attributes \in Seq(Named) /\ o.repr \in Words
        /\ Sorted(o.refs \ ContentOf(o)) \in Seq(U64)
        /\ ToSet(Sorted(o.refs \ ContentOf(o))) = o.refs \ ContentOf(o)
        /\ ContentWords(o) \in Words /\ ReprWords(h, o) \in Words
    BY ObjectParts
  <1>2. w1 \in Words /\ w2 \in Words /\ w3 \in Words /\ w4 \in Words /\ w5 \in Words
        /\ w6 \in Words /\ w7 \in Words
    BY <1>1, OneWord, AddressesType, AttributesType DEF U64
  <1>3. WriteObject(h, o) = c7
    BY DEF WriteObject, ContentWords, ReprWords, HasRepr
  <1>4. \A x : WrittenAt(d, x, w1) => ReadU64(d, x) = Read(x + Len(w1), m1)
    BY <1>1, U64IsRead
  <1>5. \A x : WrittenAt(d, x, w2) => ReadU64(d, x) = Read(x + Len(w2), m2)
    BY <1>1, U64IsRead
  <1>6. \A x : WrittenAt(d, x, w3) => ReadU32(d, x) = Read(x + Len(w3), m3)
    BY <1>1, U32IsRead, OneWord
  <1>7. \A x : WrittenAt(d, x, w4) => ReadContent(d, x, o.type, k) = Read(x + Len(w4), m4)
    BY ContentIsRead
  <1>8. \A x : WrittenAt(d, x, w5) => ReadAddresses(d, x) = Read(x + Len(w5), m5)
    BY <1>1, AddressesAreRead
  <1>9. \A x : WrittenAt(d, x, w6) => ReadAttributes(d, x, <<>>) = Read(x + Len(w6), m6)
    BY <1>1, AttributesAreRead
  <1>10. \A x : WrittenAt(d, x, w7) => ReadRepr(d, x, o.type, k, h.strRepr) = Read(x + Len(w7),
         m7)
    BY <1>1, ReprIsRead
  <1>11. IsSeq(T) /\ Len(T) = 7
    <2>1. T \in Seq({m1, m2, m3, m4, m5, m6, m7})
      OBVIOUS
    <2> QED
      BY <2>1 DEF IsSeq
  <1>12. T[1] = m1 /\ T[2] = m2 /\ T[3] = m3 /\ T[4] = m4 /\ T[5] = m5 /\ T[6] = m6 /\ T[7] = m7
    OBVIOUS
  <1> HIDE DEF w1, w2, w3, w4, w5, w6, w7, m1, m2, m3, m4, m5, m6, m7, T
  <1>13. w1 \in Words /\ c2 \in Words /\ c3 \in Words /\ c4 \in Words /\ c5 \in Words
         /\ c6 \in Words /\ c7 \in Words
    BY <1>2 DEF Words
  <1> DEFINE p1 == at + Len(w1)
             p2 == at + Len(c2)
             p3 == at + Len(c3)
             p4 == at + Len(c4)
             p5 == at + Len(c5)
             p6 == at + Len(c6)
             p7 == at + Len(c7)
  <1> HIDE DEF c2, c3, c4, c5, c6, c7
  <1>14. WrittenAt(d, at, c7)
    BY <1>3
  <1>15. WrittenAt(d, at, c6) /\ WrittenAt(d, p6, w7) /\ p7 = p6 + Len(w7)
    BY <1>2, <1>13, <1>14, Joint DEF c7
  <1>16. WrittenAt(d, at, c5) /\ WrittenAt(d, p5, w6) /\ p6 = p5 + Len(w6)
    BY <1>2, <1>13, <1>15, Joint DEF c6
  <1>17. WrittenAt(d, at, c4) /\ WrittenAt(d, p4, w5) /\ p5 = p4 + Len(w5)
    BY <1>2, <1>13, <1>16, Joint DEF c5
  <1>18. WrittenAt(d, at, c3) /\ WrittenAt(d, p3, w4) /\ p4 = p3 + Len(w4)
    BY <1>2, <1>13, <1>17, Joint DEF c4
  <1>19. WrittenAt(d, at, c2) /\ WrittenAt(d, p2, w3) /\ p3 = p2 + Len(w3)
    BY <1>2, <1>13, <1>18, Joint DEF c3
  <1>20. WrittenAt(d, at, w1) /\ WrittenAt(d, p1, w2) /\ p2 = p1 + Len(w2)
    BY <1>2, <1>13, <1>19, Joint DEF c2
  <1> HIDE DEF p1, p2, p3, p4, p5, p6, p7
  <1>21. ReadU64(d, at) = Read(p1, m1)
    BY <1>4, <1>20 DEF p1
  <1>22. ReadU64(d, p1) = Read(p2, m2)
    BY <1>5, <1>20, Zenon
  <1>23. ReadU32(d, p2) = Read(p3, m3)
    BY <1>6, <1>19, Zenon
  <1>24. ReadContent(d, p3, o.type, k) = Read(p4, m4)
    BY <1>7, <1>18, Zenon
  <1>25. ReadAddresses(d, p4) = Read(p5, m5)
    BY <1>8, <1>17, Zenon
  <1>26. ReadAttributes(d, p5, <<>>) = Read(p6, m6)
    BY <1>9, <1>16, Zenon
  <1>27. ReadRepr(d, p6, o.type, k, h.strRepr) = Read(p7, m7)
    BY <1>10, <1>15, Zenon
  <1>28. Start(at).at = at /\ With(Start(at), Read(p1, m1)) = Partial(p1, T, 1)
    BY <1>11, <1>12, FirstFill
  <1>29. /\ Partial(p1, T, 1).at = p1
         /\ With(Partial(p1, T, 1), Read(p2, m2)) = Partial(p2, T, 2)
    <2>1. 1 \in Nat /\ 1 + 1 <= Len(T) /\ 1 + 1 = 2
      BY <1>11
    <2>2. With(Partial(p1, T, 1), Read(p2, T[1 + 1])) = Partial(p2, T, 1 + 1)
      BY <1>11, <2>1, Filled, Zenon
    <2>3. Partial(p1, T, 1).at = p1
      BY PartialAt
    <2> QED
      BY <1>12, <2>1, <2>2, <2>3, Zenon
  <1>30. /\ Partial(p2, T, 2).at = p2
         /\ With(Partial(p2, T, 2), Read(p3, m3)) = Partial(p3, T, 3)
    <2>1. 2 \in Nat /\ 2 + 1 <= Len(T) /\ 2 + 1 = 3
      BY <1>11
    <2>2. With(Partial(p2, T, 2), Read(p3, T[2 + 1])) = Partial(p3, T, 2 + 1)
      BY <1>11, <2>1, Filled, Zenon
    <2>3. Partial(p2, T, 2).at = p2
      BY PartialAt
    <2> QED
      BY <1>12, <2>1, <2>2, <2>3, Zenon
  <1>31. /\ Partial(p3, T, 3).at = p3
         /\ With(Partial(p3, T, 3), Read(p4, m4)) = Partial(p4, T, 4)
    <2>1. 3 \in Nat /\ 3 + 1 <= Len(T) /\ 3 + 1 = 4
      BY <1>11
    <2>2. With(Partial(p3, T, 3), Read(p4, T[3 + 1])) = Partial(p4, T, 3 + 1)
      BY <1>11, <2>1, Filled, Zenon
    <2>3. Partial(p3, T, 3).at = p3
      BY PartialAt
    <2> QED
      BY <1>12, <2>1, <2>2, <2>3, Zenon
  <1>32. /\ Partial(p4, T, 4).at = p4
         /\ With(Partial(p4, T, 4), Read(p5, m5)) = Partial(p5, T, 5)
    <2>1. 4 \in Nat /\ 4 + 1 <= Len(T) /\ 4 + 1 = 5
      BY <1>11
    <2>2. With(Partial(p4, T, 4), Read(p5, T[4 + 1])) = Partial(p5, T, 4 + 1)
      BY <1>11, <2>1, Filled, Zenon
    <2>3. Partial(p4, T, 4).at = p4
      BY PartialAt
    <2> QED
      BY <1>12, <2>1, <2>2, <2>3, Zenon
  <1>33. /\ Partial(p5, T, 5).at = p5
         /\ With(Partial(p5, T, 5), Read(p6, m6)) = Partial(p6, T, 6)
    <2>1. 5 \in Nat /\ 5 + 1 <= Len(T) /\ 5 + 1 = 6
      BY <1>11
    <2>2. With(Partial(p5, T, 5), Read(p6, T[5 + 1])) = Partial(p6, T, 5 + 1)
      BY <1>11, <2>1, Filled, Zenon
    <2>3. Partial(p5, T, 5).at = p5
      BY PartialAt
    <2> QED
      BY <1>12, <2>1, <2>2, <2>3, Zenon
  <1>34. /\ Partial(p6, T, 6).at = p6
         /\ With(Partial(p6, T, 6), Read(p7, m7)) = Partial(p7, T, 7)
    <2>1. 6 \in Nat /\ 6 + 1 <= Len(T) /\ 6 + 1 = 7
      BY <1>11
    <2>2. With(Partial(p6, T, 6), Read(p7, T[6 + 1])) = Partial(p7, T, 6 + 1)
      BY <1>11, <2>1, Filled, Zenon
    <2>3. Partial(p6, T, 6).at = p6
      BY PartialAt
    <2> QED
      BY <1>12, <2>1, <2>2, <2>3, Zenon
  <1>35. Partial(p7, T, 7) = Read(p7, T)
    BY <1>11, AllFilled
  <1>36. With(With(With(Start(at), ReadU64(d, at)), ReadU64(d, p1)), ReadU32(d, p2))
          = Partial(p3, T, 3)
    BY <1>21, <1>22, <1>23, <1>28, <1>29, <1>30, Zenon
  <1>37. With(Start(at), ReadU64(d, at)).at = p1
         /\ With(With(Start(at), ReadU64(d, at)), ReadU64(d, p1)).at = p2
    BY <1>21, <1>22, <1>28, <1>29, <1>30, Zenon
  <1>38. Then(d, ReadPair(d, at, ReadU64, ReadU64), ReadU32) = Partial(p3, T, 3)
    BY <1>28, <1>36, <1>37, Zenon DEF Then, ReadPair
  <1>39. Partial(p3, T, 3).val[2] = o.type
    <2>1. 3 \in Nat /\ 3 <= Len(T) /\ 2 \in 1..3
      BY <1>11
    <2>2. Partial(p3, T, 3).val[2] = T[2]
      BY <1>11, <2>1, FilledVal
    <2> QED
      BY <1>12, <2>2 DEF m2
  <1>40. ReadObject(d, at, k, h.strRepr, <<>>, {})
           = LET all == ReadTail(d, Partial(p3, T, 3), o.type, k, h.strRepr)
             IN  ObjectRead(all.at, all.val, k)
    BY <1>38, <1>39, Zenon DEF ReadObject, ReadTail, Then, ReadRepr
  <1>41. ReadTail(d, Partial(p3, T, 3), o.type, k, h.strRepr) = Read(p7, T)
    <2>1. With(Partial(p3, T, 3), ReadContent(d, Partial(p3, T, 3).at, o.type, k))
            = Partial(p4, T, 4)
      BY <1>24, <1>31, Zenon
    <2>2. With(Partial(p4, T, 4), ReadAddresses(d, Partial(p4, T, 4).at)) = Partial(p5, T, 5)
      BY <1>25, <1>32, Zenon
    <2>3. With(Partial(p5, T, 5), ReadAttributes(d, Partial(p5, T, 5).at, <<>>))
            = Partial(p6, T, 6)
      BY <1>26, <1>33, Zenon
    <2>4. With(Partial(p6, T, 6), ReadRepr(d, Partial(p6, T, 6).at, o.type, k, h.strRepr))
            = Read(p7, T)
      BY <1>27, <1>34, <1>35, Zenon
    <2> QED
      BY <2>1, <2>2, <2>3, <2>4, Zenon DEF ReadTail
  <1>42. ReadObject(d, at, k, h.strRepr, <<>>, {}) = ObjectRead(p7, T, k)
    <2>1. Read(p7, T).at = p7 /\ Read(p7, T).val = T
      BY DEF Read
    <2> QED
      BY <1>40, <1>41, <2>1, Zenon
  <1>43. ObjectRead(p7, T, k) = Read(p7, ObjectMeaning(h, o))
    <2>1. ToSet(m5) = o.refs \ ContentOf(o)
      BY <1>1 DEF m5, ToSet, AddressesMeaning
    <2>2. ToSet(m5) \cup ContentOf(o) = o.refs \cup ContentOf(o)
      BY <2>1
    <2>3. ContentOf(o) = IF T[2] = k[DictName] THEN UNION {{p[1], p[2]} : p \in ToSet(T[4])}
                         ELSE ToSet(T[4])
      BY <1>12, ContentIsAll DEF m2, m4
    <2>4. ObjectRead(p7, T, k) = Read(p7, [addr |-> T[1], type |-> T[2], size |-> T[3],
                                          refs |-> ToSet(T[5]) \cup ContentOf(o), repr |-> T[7]])
      BY <2>3, Zenon DEF ObjectRead
    <2> QED
      BY <1>12, <2>2, <2>4 DEF m1, m2, m3, m7, ObjectMeaning, ReprMeaning
  <1> QED
    BY <1>3, <1>42, <1>43 DEF p7

(* An object is written as words.                                          *)
LEMMA ObjectType == ASSUME NEW h, NEW o, IsObject(o, h.known) PROVE WriteObject(h, o) \in Words
  <1> DEFINE w1 == o.addr
             w2 == o.type
             w3 == <<Clamp(o.size)>>
             w4 == ContentWords(o)
             w5 == WriteSeq(Sorted(o.refs \ ContentOf(o)), WriteU64)
             w6 == WriteSeq(o.attributes, WriteAttribute)
             w7 == ReprWords(h, o)
  <1>1. /\ w1 \in U64 /\ w2 \in U64 /\ Clamp(o.size) \in Nat /\ w4 \in Words /\ w7 \in Words
        /\ o.attributes \in Seq(Named) /\ Sorted(o.refs \ ContentOf(o)) \in Seq(U64)
    BY ObjectParts
  <1>2. w1 \in Words /\ w2 \in Words /\ w3 \in Words /\ w5 \in Words /\ w6 \in Words
    BY <1>1, OneWord, AddressesType, AttributesType DEF U64
  <1>3. WriteObject(h, o) = w1 \o w2 \o w3 \o w4 \o w5 \o w6 \o w7
    BY DEF WriteObject, ContentWords, ReprWords, HasRepr
  <1> HIDE DEF w1, w2, w3, w4, w5, w6, w7
  <1>4. w1 \o w2 \o w3 \o w4 \o w5 \o w6 \o w7 \in Words
    BY <1>1, <1>2 DEF Words
  <1> QED
    BY <1>3, <1>4

-----------------------------------------------------------------------------
(* The whole document.                                                     *)

KnownNames(h) == [i \in DOMAIN WellKnownTypeNames |->
                    <<WellKnownTypeNames[i], h.known[WellKnownTypeNames[i]]>>]

(* All the objects.                                                        *)
ObjectWords(h) == [i \in DOMAIN h.objects |-> WriteObject(h, h.objects[i])]
ObjectsMeaning(h) == [i \in DOMAIN h.objects |-> ObjectMeaning(h, h.objects[i])]
ReadsObjects(d, k, strRepr) == [p \in 0..Len(d) + 1 |-> ReadObject(d, p, k, strRepr, <<>>, {})]

(* The objects are written as words, one sequence for each.                *)
LEMMA ObjectWordsType ==
    ASSUME NEW h, IsHeap(h)
    PROVE  ObjectWords(h) \in Seq(Words) /\ Len(ObjectWords(h)) = Len(h.objects)
  <1>0. DOMAIN h.objects = 1..Len(h.objects) /\ Len(h.objects) \in Nat
    BY DEF IsHeap
  <1> DEFINE ws == ObjectWords(h)
  <1>1. ws = [i \in 1..Len(h.objects) |-> ws[i]]
        /\ \A i \in 1..Len(h.objects) : ws[i] = WriteObject(h, h.objects[i])
    BY <1>0 DEF ObjectWords
  <1>2. ASSUME NEW i \in 1..Len(h.objects) PROVE ws[i] \in Words
    <2>1. IsObject(h.objects[i], h.known)
      BY <1>0 DEF IsHeap
    <2>2. WriteObject(h, h.objects[i]) \in Words
      BY <2>1, ObjectType
    <2> QED
      BY <1>1, <2>2
  <1> HIDE DEF ws
  <1>3. ws \in Seq(Words) /\ Len(ws) = Len(h.objects)
    BY <1>0, <1>1, <1>2, ListedWords
  <1> QED
    BY <1>3 DEF ws

(* The objects are read as what the writer was given.                      *)
LEMMA ObjectsAreRead ==
    ASSUME NEW d \in Words, NEW at, NEW h, IsHeap(h), NEW k,
           k[ListName] = h.known[ListName], k[DictName] = h.known[DictName],
           WrittenAt(d, at, Counted(ObjectWords(h)))
    PROVE  Items(ReadsObjects(d, k, h.strRepr), ReadU32(d, at))
             = Read(at + Len(Counted(ObjectWords(h))), ObjectsMeaning(h))
  <1> DEFINE ws == ObjectWords(h)
             ms == ObjectsMeaning(h)
             item == ReadsObjects(d, k, h.strRepr)
             n == Len(h.objects)
  <1>0. DOMAIN h.objects = 1..n /\ n \in Nat
    BY DEF IsHeap
  <1>1. ws \in Seq(Words) /\ Len(ws) = n
    BY ObjectWordsType
  <1>2. ms = [i \in 1..n |-> ms[i]] /\ \A i \in 1..n : ms[i] = ObjectMeaning(h, h.objects[i])
    BY <1>0 DEF ObjectsMeaning
  <1>3. Containers(k) = Containers(h.known)
    BY DEF Containers
  <1>4. ASSUME NEW i \in 1..n PROVE ItemRead(d, item, ws[i], ms[i])
    <2> DEFINE o == h.objects[i]
    <2>1. IsObject(o, h.known)
      BY <1>0 DEF IsHeap
    <2>2. IsObject(o, k)
      BY <1>3, <2>1 DEF IsObject, KindOfType
    <2>3. ws[i] = WriteObject(h, o) /\ ms[i] = ObjectMeaning(h, o) /\ WriteObject(h, o) \in Words
      BY <1>0, <1>2, <2>1, ObjectType DEF ObjectWords
    <2> HIDE DEF o, ws, ms
    <2>4. ASSUME NEW p \in Nat, WrittenAt(d, p, WriteObject(h, o))
          PROVE  item[p] = Read(p + Len(WriteObject(h, o)), ObjectMeaning(h, o))
      <3>1. p \in 0..Len(d) + 1
        BY <2>3, <2>4, Inside
      <3>2. item[p] = ReadObject(d, p, k, h.strRepr, <<>>, {})
        BY <3>1 DEF ReadsObjects
      <3> QED
        BY <1>3, <2>1, <2>2, <2>4, <3>2, ObjectIsRead
    <2> QED
      BY <2>3, <2>4 DEF ItemRead
  <1> HIDE DEF ws, ms, item
  <1>6. IsSeq(ms) /\ Len(ms) = Len(ws)
    BY <1>0, <1>1, <1>2, ListedIsSeq
  <1>7. Items(item, ReadU32(d, at)) = Read(at + Len(Counted(ws)), ms)
    <2>1. WrittenAt(d, at, Counted(ws))
      BY DEF ws
    <2> QED
      BY <1>1, <1>4, <1>6, <2>1, SeqIsRead
  <1> QED
    BY <1>7 DEF ws, ms, item

(* The frequent attributes and the common types, of which there are none.  *)
LEMMA EmptyIsRead ==
    ASSUME NEW d \in Words, NEW at, WrittenAt(d, at, << 0 >>), NEW item
    PROVE  Items(item, ReadU32(d, at)) = Read(at + Len(<< 0 >>), <<>>)
  <1>1. Counted(<<>>) = << 0 >>
    BY DEF Counted, FlattenSeq
  <1>2. <<>> \in Seq(Words) /\ IsSeq(<<>>) /\ Len(<<>>) = 0
    BY DEF IsSeq
  <1> DEFINE ws == <<>>
             ms == <<>>
  <1>3. WrittenAt(d, at, Counted(ws)) /\ ws \in Seq(Words) /\ IsSeq(ms)
    BY <1>1, <1>2
  <1>7. Len(ws) = 0 /\ Len(ms) = 0
    BY <1>2
  <1> HIDE DEF ws, ms
  <1>4. \A i \in 1..Len(ws) : ItemRead(d, item, ws[i], ms[i])
    BY <1>7
  <1>5. Len(ms) = Len(ws)
    BY <1>7
  <1>6. Items(item, ReadU32(d, at)) = Read(at + Len(Counted(ws)), ms)
    BY <1>3, <1>4, <1>5, SeqIsRead
  <1> QED
    BY <1>1, <1>6 DEF ws, ms

(* The dictionary of the container types.                                  *)
LEMMA KnownAreNamed == ASSUME NEW h, IsHeap(h) PROVE KnownNames(h) \in Seq(Named)
  <1>1. DOMAIN WellKnownTypeNames = 1..3
    BY DEF WellKnownTypeNames
  <1>2. /\ WellKnownTypeNames[1] = ListName /\ WellKnownTypeNames[2] = DictName
        /\ WellKnownTypeNames[3] = OtherName
    BY DEF WellKnownTypeNames
  <1>3. ListName \in Words /\ DictName \in Words /\ OtherName \in Words
    BY DEF ListName, DictName, OtherName, Words
  <1>4. \A i \in 1..3 : WellKnownTypeNames[i] \in {ListName, DictName, OtherName}
    BY <1>2
  <1>5. \A i \in 1..3 : <<WellKnownTypeNames[i], h.known[WellKnownTypeNames[i]]>> \in Named
    BY <1>3, <1>4 DEF IsHeap, Named
  <1>6. KnownNames(h) \in [1..3 -> Named]
    BY <1>1, <1>5 DEF KnownNames
  <1>7. ASSUME NEW n \in Nat, NEW f \in [1..n -> Named] PROVE f \in Seq(Named)
    OBVIOUS
  <1>8. 3 \in Nat
    OBVIOUS
  <1> QED
    BY <1>6, <1>7, <1>8

(* The names of the well-known types are not cut.                          *)
LEMMA ShortNames ==
    /\ Cut(ListName, MaxString) = ListName /\ Cut(DictName, MaxString) = DictName
    /\ Cut(OtherName, MaxString) = OtherName
  <1>1. ASSUME NEW a \in Nat PROVE Cut(<<a>>, MaxString) = <<a>>
    <2>1. Len(<<a>>) = 1 /\ ~(Len(<<a>>) > MaxString) /\ <<a>> \in Seq(Nat)
      BY StringsNat
    <2> QED
      BY <2>1, SubSeqFull DEF Cut
  <1> QED
    BY <1>1 DEF ListName, DictName, OtherName

(* The reader knows the container types by the addresses the writer had.   *)
LEMMA KnownIsRead ==
    ASSUME NEW h, IsHeap(h), NEW k, k = MapOf(NamesMeaning(KnownNames(h)))
    PROVE  /\ k[ListName] = h.known[ListName] /\ k[DictName] = h.known[DictName]
           /\ {ListName, DictName} \subseteq DOMAIN k
  <1> DEFINE s == NamesMeaning(KnownNames(h))
  <1>1. DOMAIN WellKnownTypeNames = 1..3
    BY DEF WellKnownTypeNames
  <1>2. /\ WellKnownTypeNames[1] = ListName /\ WellKnownTypeNames[2] = DictName
        /\ WellKnownTypeNames[3] = OtherName
    BY DEF WellKnownTypeNames
  <1>3. DOMAIN s = 1..3
    BY <1>1 DEF NamesMeaning, KnownNames
  <1>4. /\ s[1] = <<ListName, h.known[ListName]>> /\ s[2] = <<DictName, h.known[DictName]>>
        /\ s[3] = <<OtherName, h.known[OtherName]>>
    BY <1>1, <1>2, ShortNames DEF NamesMeaning, KnownNames, NamedMeaning
  <1> HIDE DEF s
  <1>5. ListName # DictName /\ ListName # OtherName /\ DictName # OtherName
    BY DEF ListName, DictName, OtherName
  <1>6. {i \in DOMAIN s : s[i][1] = ListName} = {1} /\ {i \in DOMAIN s : s[i][1] = DictName} = {2}
    BY <1>3, <1>4, <1>5
  <1>7. Max({1}) = 1 /\ Max({2}) = 2
    BY DEF Max
  <1>8. ListName \in {s[i][1] : i \in DOMAIN s} /\ DictName \in {s[i][1] : i \in DOMAIN s}
    BY <1>3, <1>4
  <1>9. k = [n \in {s[i][1] : i \in DOMAIN s} |-> s[Max({i \in DOMAIN s : s[i][1] = n})][2]]
    BY DEF s, MapOf
  <1>10. k[ListName] = s[1][2] /\ k[DictName] = s[2][2]
    BY <1>6, <1>7, <1>8, <1>9
  <1>11. {ListName, DictName} \subseteq DOMAIN k
    BY <1>8, <1>9
  <1> QED
    BY <1>4, <1>10, <1>11

(* What comes before the number of objects, and what is read of it.        *)
Flags(h) == <<0, IF h.strRepr THEN 1 ELSE 0>>
HeadWords(h) == WriteHeader(h) \o WriteSeq(h.threads, WriteThread) \o << 0 >> \o << 0 >>
HeadFields(h, T) ==
    /\ T[1] = MagicU64 /\ T[2] = FormatVersion /\ T[3] = Cut(h.created, MaxString)
    /\ T[4] = Flags(h) /\ T[5] = NamesMeaning(KnownNames(h))
    /\ T[6] = ThreadsMeaning(h.threads) /\ T[7] = <<>> /\ T[8] = <<>>

HeaderFrom(d, at) ==
    LET start == Then(d, Then(d, ReadPair(d, at, ReadU64, ReadU32), ReadLongString), ReadU64)
    IN  Then(d, Then(d, Then(d, start, ReadNames), ReadThreads), ReadStrings)

(* The magic value is an address.                                          *)
LEMMA MagicType == MagicU64 \in U64 /\ MagicU64 \in Words /\ Len(MagicU64) = 2
  BY FormatAssumption DEF MagicU64, U64, Words

(* The flags are two words.                                                *)
LEMMA FlagsType == ASSUME NEW h PROVE Flags(h) \in U64
  BY DEF Flags, U64, Words

(* The header and the threads are read field by field, up to the objects.  *)
LEMMA HeadFromIsRead ==
    ASSUME NEW d \in Words, NEW at, NEW h, IsHeap(h), WrittenAt(d, at, HeadWords(h)),
           NEW T, IsSeq(T), Len(T) >= 8, HeadFields(h, T)
    PROVE  /\ ReadCommonTypes(d, HeaderFrom(d, at)) = Partial(at + Len(HeadWords(h)), T, 8)
           /\ at + Len(HeadWords(h)) = HeaderFrom(d, at).at + 1
  <1> DEFINE w1 == MagicU64
             w2 == <<FormatVersion>>
             w3 == WriteLongString(h.created)
             w4 == Flags(h)
             w5 == WriteSeq(KnownNames(h), WriteNamed)
             w6 == WriteSeq(h.threads, WriteThread)
             w7 == << 0 >>
             w8 == << 0 >>
             m1 == MagicU64
             m2 == FormatVersion
             m3 == Cut(h.created, MaxString)
             m4 == Flags(h)
             m5 == NamesMeaning(KnownNames(h))
             m6 == ThreadsMeaning(h.threads)
             m7 == <<>>
             m8 == <<>>
             c2 == w1 \o w2
             c3 == c2 \o w3
             c4 == c3 \o w4
             c5 == c4 \o w5
             c6 == c5 \o w6
             c7 == c6 \o w7
             c8 == c7 \o w8
  <1>1. /\ MagicU64 \in U64 /\ FormatVersion \in Nat /\ h.created \in Words /\ Flags(h) \in U64
        /\ KnownNames(h) \in Seq(Named) /\ h.threads \in Seq(Threads)
    BY KnownAreNamed, MagicType, FlagsType DEF IsHeap, FormatVersion
  <1>2. w1 \in Words /\ w2 \in Words /\ w3 \in Words /\ w4 \in Words /\ w5 \in Words
        /\ w6 \in Words /\ w7 \in Words /\ w8 \in Words
    BY <1>1, OneWord, LongStringType, NamesType, ThreadsType DEF U64
  <1>3. HeadWords(h) = c8
    BY DEF HeadWords, WriteHeader, KnownNames, Flags
  <1>4. \A x : WrittenAt(d, x, w1) => ReadU64(d, x) = Read(x + Len(w1), m1)
    BY <1>1, U64IsRead
  <1>5. \A x : WrittenAt(d, x, w2) => ReadU32(d, x) = Read(x + Len(w2), m2)
    BY <1>1, U32IsRead, OneWord
  <1>6. \A x : WrittenAt(d, x, w3) => ReadLongString(d, x) = Read(x + Len(w3), m3)
    BY <1>1, LongStringIsRead
  <1>7. \A x : WrittenAt(d, x, w4) => ReadU64(d, x) = Read(x + Len(w4), m4)
    BY <1>1, U64IsRead
  <1>8. \A x : WrittenAt(d, x, w5) => ReadNames(d, x) = Read(x + Len(w5), m5)
    BY <1>1, NamesAreRead
  <1>9. \A x : WrittenAt(d, x, w6) => ReadThreads(d, x) = Read(x + Len(w6), m6)
    BY <1>1, ThreadsAreRead
  <1>10. \A x : WrittenAt(d, x, w7) => ReadStrings(d, x) = Read(x + Len(w7), m7)
    BY EmptyIsRead DEF ReadStrings, ReadSeq, ReadItems
  <1>11. \A x, item : WrittenAt(d, x, w8) => Items(item, ReadU32(d, x)) = Read(x + Len(w8), m8)
    BY EmptyIsRead
  <1>12. IsSeq(T) /\ Len(T) >= 8 /\ Len(T) \in Nat
    BY DEF IsSeq
  <1>13. T[1] = m1 /\ T[2] = m2 /\ T[3] = m3 /\ T[4] = m4 /\ T[5] = m5 /\ T[6] = m6
         /\ T[7] = m7 /\ T[8] = m8
    BY DEF HeadFields
  <1> HIDE DEF w1, w2, w3, w4, w5, w6, w7, w8, m1, m2, m3, m4, m5, m6, m7, m8
  <1>14. w1 \in Words /\ c2 \in Words /\ c3 \in Words /\ c4 \in Words /\ c5 \in Words
         /\ c6 \in Words /\ c7 \in Words /\ c8 \in Words
    BY <1>2 DEF Words
  <1> DEFINE p1 == at + Len(w1)
             p2 == at + Len(c2)
             p3 == at + Len(c3)
             p4 == at + Len(c4)
             p5 == at + Len(c5)
             p6 == at + Len(c6)
             p7 == at + Len(c7)
             p8 == at + Len(c8)
  <1> HIDE DEF c2, c3, c4, c5, c6, c7, c8
  <1>15. WrittenAt(d, at, c8)
    BY <1>3
  <1>16. WrittenAt(d, at, c7) /\ WrittenAt(d, p7, w8) /\ p8 = p7 + Len(w8)
    BY <1>2, <1>14, <1>15, Joint DEF c8
  <1>17. WrittenAt(d, at, c6) /\ WrittenAt(d, p6, w7) /\ p7 = p6 + Len(w7)
    BY <1>2, <1>14, <1>16, Joint DEF c7
  <1>18. WrittenAt(d, at, c5) /\ WrittenAt(d, p5, w6) /\ p6 = p5 + Len(w6)
    BY <1>2, <1>14, <1>17, Joint DEF c6
  <1>19. WrittenAt(d, at, c4) /\ WrittenAt(d, p4, w5) /\ p5 = p4 + Len(w5)
    BY <1>2, <1>14, <1>18, Joint DEF c5
  <1>20. WrittenAt(d, at, c3) /\ WrittenAt(d, p3, w4) /\ p4 = p3 + Len(w4)
    BY <1>2, <1>14, <1>19, Joint DEF c4
  <1>21. WrittenAt(d, at, c2) /\ WrittenAt(d, p2, w3) /\ p3 = p2 + Len(w3)
    BY <1>2, <1>14, <1>20, Joint DEF c3
  <1>22. WrittenAt(d, at, w1) /\ WrittenAt(d, p1, w2) /\ p2 = p1 + Len(w2)
    BY <1>2, <1>14, <1>21, Joint DEF c2
  <1> HIDE DEF p1, p2, p3, p4, p5, p6, p7, p8
  <1>23. ReadU64(d, at) = Read(p1, m1)
    BY <1>4, <1>22 DEF p1
  <1>24. ReadU32(d, p1) = Read(p2, m2)
    BY <1>5, <1>22, Zenon
  <1>25. ReadLongString(d, p2) = Read(p3, m3)
    BY <1>6, <1>21, Zenon
  <1>26. ReadU64(d, p3) = Read(p4, m4)
    BY <1>7, <1>20, Zenon
  <1>27. ReadNames(d, p4) = Read(p5, m5)
    BY <1>8, <1>19, Zenon
  <1>28. ReadThreads(d, p5) = Read(p6, m6)
    BY <1>9, <1>18, Zenon
  <1>29. ReadStrings(d, p6) = Read(p7, m7)
    BY <1>10, <1>17, Zenon
  <1>30. \A item : Items(item, ReadU32(d, p7)) = Read(p8, m8)
    BY <1>11, <1>16, Zenon
  <1>31. Start(at).at = at /\ With(Start(at), Read(p1, m1)) = Partial(p1, T, 1)
    BY <1>12, <1>13, FirstFill
  <1>32. /\ Partial(p1, T, 1).at = p1
         /\ With(Partial(p1, T, 1), Read(p2, m2)) = Partial(p2, T, 2)
    <2>1. 1 \in Nat /\ 1 + 1 <= Len(T) /\ 1 + 1 = 2
      BY <1>12
    <2>2. With(Partial(p1, T, 1), Read(p2, T[1 + 1])) = Partial(p2, T, 1 + 1)
      BY <1>12, <2>1, Filled, Zenon
    <2>3. Partial(p1, T, 1).at = p1
      BY PartialAt
    <2> QED
      BY <1>13, <2>1, <2>2, <2>3, Zenon
  <1>33. /\ Partial(p2, T, 2).at = p2
         /\ With(Partial(p2, T, 2), Read(p3, m3)) = Partial(p3, T, 3)
    <2>1. 2 \in Nat /\ 2 + 1 <= Len(T) /\ 2 + 1 = 3
      BY <1>12
    <2>2. With(Partial(p2, T, 2), Read(p3, T[2 + 1])) = Partial(p3, T, 2 + 1)
      BY <1>12, <2>1, Filled, Zenon
    <2>3. Partial(p2, T, 2).at = p2
      BY PartialAt
    <2> QED
      BY <1>13, <2>1, <2>2, <2>3, Zenon
  <1>34. /\ Partial(p3, T, 3).at = p3
         /\ With(Partial(p3, T, 3), Read(p4, m4)) = Partial(p4, T, 4)
    <2>1. 3 \in Nat /\ 3 + 1 <= Len(T) /\ 3 + 1 = 4
      BY <1>12
    <2>2. With(Partial(p3, T, 3), Read(p4, T[3 + 1])) = Partial(p4, T, 3 + 1)
      BY <1>12, <2>1, Filled, Zenon
    <2>3. Partial(p3, T, 3).at = p3
      BY PartialAt
    <2> QED
      BY <1>13, <2>1, <2>2, <2>3, Zenon
  <1>35. /\ Partial(p4, T, 4).at = p4
         /\ With(Partial(p4, T, 4), Read(p5, m5)) = Partial(p5, T, 5)
    <2>1. 4 \in Nat /\ 4 + 1 <= Len(T) /\ 4 + 1 = 5
      BY <1>12
    <2>2. With(Partial(p4, T, 4), Read(p5, T[4 + 1])) = Partial(p5, T, 4 + 1)
      BY <1>12, <2>1, Filled, Zenon
    <2>3. Partial(p4, T, 4).at = p4
      BY PartialAt
    <2> QED
      BY <1>13, <2>1, <2>2, <2>3, Zenon
  <1>36. /\ Partial(p5, T, 5).at = p5
         /\ With(Partial(p5, T, 5), Read(p6, m6)) = Partial(p6, T, 6)
    <2>1. 5 \in Nat /\ 5 + 1 <= Len(T) /\ 5 + 1 = 6
      BY <1>12
    <2>2. With(Partial(p5, T, 5), Read(p6, T[5 + 1])) = Partial(p6, T, 5 + 1)
      BY <1>12, <2>1, Filled, Zenon
    <2>3. Partial(p5, T, 5).at = p5
      BY PartialAt
    <2> QED
      BY <1>13, <2>1, <2>2, <2>3, Zenon
  <1>37. /\ Partial(p6, T, 6).at = p6
         /\ With(Partial(p6, T, 6), Read(p7, m7)) = Partial(p7, T, 7)
    <2>1. 6 \in Nat /\ 6 + 1 <= Len(T) /\ 6 + 1 = 7
      BY <1>12
    <2>2. With(Partial(p6, T, 6), Read(p7, T[6 + 1])) = Partial(p7, T, 6 + 1)
      BY <1>12, <2>1, Filled, Zenon
    <2>3. Partial(p6, T, 6).at = p6
      BY PartialAt
    <2> QED
      BY <1>13, <2>1, <2>2, <2>3, Zenon
  <1>38. /\ Partial(p7, T, 7).at = p7
         /\ With(Partial(p7, T, 7), Read(p8, m8)) = Partial(p8, T, 8)
    <2>1. 7 \in Nat /\ 7 + 1 <= Len(T) /\ 7 + 1 = 8
      BY <1>12
    <2>2. With(Partial(p7, T, 7), Read(p8, T[7 + 1])) = Partial(p8, T, 7 + 1)
      BY <1>12, <2>1, Filled, Zenon
    <2>3. Partial(p7, T, 7).at = p7
      BY PartialAt
    <2> QED
      BY <1>13, <2>1, <2>2, <2>3, Zenon
  <1>39. With(With(With(With(Start(at), ReadU64(d, at)), ReadU32(d, p1)), ReadLongString(d, p2)),
             ReadU64(d, p3)) = Partial(p4, T, 4)
    BY <1>23, <1>24, <1>25, <1>26, <1>31, <1>32, <1>33, <1>34, Zenon
  <1>40. /\ With(Start(at), ReadU64(d, at)).at = p1
         /\ With(With(Start(at), ReadU64(d, at)), ReadU32(d, p1)).at = p2
         /\ With(With(With(Start(at), ReadU64(d, at)), ReadU32(d, p1)), ReadLongString(d, p2)).at
              = p3
    BY <1>23, <1>24, <1>25, <1>31, <1>32, <1>33, <1>34, Zenon
  <1>41. Then(d, Then(d, ReadPair(d, at, ReadU64, ReadU32), ReadLongString), ReadU64)
           = Partial(p4, T, 4)
    BY <1>31, <1>39, <1>40, Zenon DEF Then, ReadPair
  <1>42. /\ Then(d, Partial(p4, T, 4), ReadNames) = Partial(p5, T, 5)
         /\ Then(d, Partial(p5, T, 5), ReadThreads) = Partial(p6, T, 6)
         /\ Then(d, Partial(p6, T, 6), ReadStrings) = Partial(p7, T, 7)
    BY <1>27, <1>28, <1>29, <1>35, <1>36, <1>37, Zenon DEF Then
  <1>43. HeaderFrom(d, at) = Partial(p7, T, 7)
    BY <1>41, <1>42, Zenon DEF HeaderFrom
  <1>44. ReadCommonTypes(d, Partial(p7, T, 7)) = Partial(p8, T, 8)
    BY <1>30, <1>38 DEF ReadCommonTypes, Then, ReadSeq, ReadItems
  <1>45. Len(w8) = 1 /\ Partial(p7, T, 7).at = p7
    BY PartialAt DEF w8
  <1> QED
    BY <1>3, <1>16, <1>43, <1>44, <1>45, Zenon DEF p8

(* From the beginning of the document.                                     *)
LEMMA HeadIsRead ==
    ASSUME NEW d \in Words, NEW h, IsHeap(h), WrittenAt(d, 1, HeadWords(h)),
           NEW T, IsSeq(T), Len(T) >= 8, HeadFields(h, T)
    PROVE  ReadCommonTypes(d, ReadHeader(d)) = Partial(1 + Len(HeadWords(h)), T, 8)
  <1>1. ReadHeader(d) = HeaderFrom(d, 1)
    BY DEF ReadHeader, HeaderFrom
  <1> QED
    BY <1>1, HeadFromIsRead

(* The parts of a document.                                                *)
TypeWords(h) == WriteSeq(h.types, WriteType)
UpToObjects(h) == HeadWords(h) \o Counted(ObjectWords(h))

(* Each part is words.                                                     *)
LEMMA HeadParts ==
    ASSUME NEW h, IsHeap(h)
    PROVE  /\ HeadWords(h) \in Words /\ Counted(ObjectWords(h)) \in Words
           /\ Body(h) \in Words /\ TypeWords(h) \in Words /\ UpToObjects(h) \in Words
  <1> DEFINE w1 == MagicU64
             w2 == <<FormatVersion>>
             w3 == WriteLongString(h.created)
             w4 == Flags(h)
             w5 == WriteSeq(KnownNames(h), WriteNamed)
             w6 == WriteSeq(h.threads, WriteThread)
             w7 == << 0 >>
  <1>1. /\ h.created \in Words /\ KnownNames(h) \in Seq(Named) /\ h.threads \in Seq(Threads)
        /\ h.types \in Seq(Typed) /\ FormatVersion \in Nat
    BY KnownAreNamed DEF IsHeap, FormatVersion
  <1>2. /\ w1 \in Words /\ w2 \in Words /\ w3 \in Words /\ w4 \in Words /\ w5 \in Words
        /\ w6 \in Words /\ w7 \in Words
    BY <1>1, MagicType, OneWord, LongStringType, FlagsType, NamesType, ThreadsType DEF U64
  <1>3. HeadWords(h) = w1 \o w2 \o w3 \o w4 \o w5 \o w6 \o w7 \o w7
    BY DEF HeadWords, WriteHeader, Flags, KnownNames
  <1> HIDE DEF w1, w2, w3, w4, w5, w6, w7
  <1>4. w1 \o w2 \o w3 \o w4 \o w5 \o w6 \o w7 \o w7 \in Words
    BY <1>2 DEF Words
  <1>5. HeadWords(h) \in Words
    BY <1>3, <1>4
  <1>6. Counted(ObjectWords(h)) \in Words /\ FlattenSeq(ObjectWords(h)) \in Words
    BY ObjectWordsType, CountedType
  <1>7. Body(h) = FlattenSeq(ObjectWords(h))
    BY DEF Body, ObjectWords
  <1>8. TypeWords(h) \in Words
    BY <1>1, TypesType DEF TypeWords
  <1>9. UpToObjects(h) \in Words
    BY <1>5, <1>6 DEF UpToObjects, Words
  <1> QED
    BY <1>5, <1>6, <1>7, <1>8, <1>9

(* Three words at the end, one by one.                                     *)
LEMMA ThreeWords ==
    ASSUME NEW w \in Words, NEW n \in Nat
    PROVE  w \o <<0, 0, n>> = ((w \o << 0 >>) \o << 0 >>) \o <<n>>
  <1> DEFINE s == <<0, 0, n>>
             t == <<0, 0>> \o <<n>>
  <1>1. s \in Seq(Nat) /\ Len(s) = 3 /\ s[1] = 0 /\ s[2] = 0 /\ s[3] = n
    OBVIOUS
  <1>2. t \in Seq(Nat) /\ Len(t) = 3 /\ t[1] = 0 /\ t[2] = 0 /\ t[3] = n
    OBVIOUS
  <1> HIDE DEF s, t
  <1>3. \A i \in 1..Len(s) : s[i] = t[i]
    BY <1>1, <1>2
  <1>4. s = t
    BY <1>1, <1>2, <1>3, SeqEqual
  <1>5. << 0 >> \in Words /\ <<0, 0>> \in Seq(Nat) /\ <<n>> \in Seq(Nat) /\ w \in Seq(Nat)
    BY DEF Words
  <1>6. (w \o <<0, 0>>) \o <<n>> = w \o (<<0, 0>> \o <<n>>)
    BY <1>5, ConcatAssociative
  <1>7. w \o <<0, 0>> = (w \o << 0 >>) \o << 0 >>
    BY <1>5, TwoWords
  <1> QED
    BY <1>4, <1>6, <1>7, Zenon DEF s, t

(* What stands before the objects: the header, the threads and the counts. *)
LEMMA PreambleIs ==
    ASSUME NEW h, IsHeap(h), NEW n \in Nat PROVE Preamble(h, n) = HeadWords(h) \o <<n>>
  <1> DEFINE w == WriteHeader(h) \o WriteSeq(h.threads, WriteThread)
  <1>1. w \in Words
    <2> DEFINE w1 == MagicU64
               w2 == <<FormatVersion>>
               w3 == WriteLongString(h.created)
               w4 == Flags(h)
               w5 == WriteSeq(KnownNames(h), WriteNamed)
               w6 == WriteSeq(h.threads, WriteThread)
    <2>1. /\ h.created \in Words /\ KnownNames(h) \in Seq(Named) /\ h.threads \in Seq(Threads)
          /\ FormatVersion \in Nat
      BY KnownAreNamed DEF IsHeap, FormatVersion
    <2>2. /\ w1 \in Words /\ w2 \in Words /\ w3 \in Words /\ w4 \in Words /\ w5 \in Words
          /\ w6 \in Words
      BY <2>1, MagicType, OneWord, LongStringType, FlagsType, NamesType, ThreadsType DEF U64
    <2>3. w = w1 \o w2 \o w3 \o w4 \o w5 \o w6
      BY DEF WriteHeader, Flags, KnownNames
    <2> HIDE DEF w1, w2, w3, w4, w5, w6, w
    <2>4. w1 \o w2 \o w3 \o w4 \o w5 \o w6 \in Words
      BY <2>2 DEF Words
    <2> QED
      BY <2>3, <2>4
  <1>2. Preamble(h, n) = w \o <<0, 0, n>> /\ HeadWords(h) = (w \o << 0 >>) \o << 0 >>
    BY DEF Preamble, BeginObjects, HeadWords
  <1> HIDE DEF w
  <1> QED
    BY <1>1, <1>2, ThreeWords

(* A finished document is its parts: objects, type table and footer.       *)
LEMMA FinishedIs ==
    ASSUME NEW h, IsHeap(h)
    PROVE  /\ Preamble(h, Len(h.objects)) \o Body(h) = UpToObjects(h)
           /\ Finished(h) = (UpToObjects(h) \o TypeWords(h)) \o MagicU64
           /\ Finished(h) \in Words
           /\ Len(Finished(h)) = (Len(UpToObjects(h)) + Len(TypeWords(h))) + 2
  <1> DEFINE H == HeadWords(h)
             n == Len(h.objects)
             B == Body(h)
             U == UpToObjects(h)
             W == TypeWords(h)
             M == MagicU64
  <1>1. H \in Words /\ B \in Words /\ n \in Nat /\ <<n>> \in Words /\ U \in Words /\ W \in Words
    BY HeadParts, OneWord DEF IsHeap
  <1>2. Preamble(h, n) = H \o <<n>>
    BY <1>1, PreambleIs
  <1>3. U = H \o (<<n>> \o B)
    BY ObjectWordsType DEF UpToObjects, Counted, Body, ObjectWords
  <1>4. Finished(h) = (Preamble(h, n) \o B) \o (W \o M)
    BY DEF Finished, WriteTypes, TypeWords
  <1>5. M \in Words /\ Len(M) = 2
    BY MagicType
  <1> HIDE DEF H, n, B, U, W, M
  <1>6. (H \o <<n>>) \o B = H \o (<<n>> \o B)
    BY <1>1, ConcatAssociative DEF Words
  <1>7. (U \o W) \o M = U \o (W \o M)
    <2>1. U \in Seq(Nat) /\ W \in Seq(Nat) /\ M \in Seq(Nat)
      BY <1>1, <1>5 DEF Words
    <2> QED
      BY <2>1, ConcatAssociative
  <1>8. (U \o W) \o M \in Words /\ Len((U \o W) \o M) = (Len(U) + Len(W)) + 2
    <2>1. \A u, v \in Words : u \o v \in Words /\ Len(u \o v) = Len(u) + Len(v)
      BY DEF Words
    <2>2. U \o W \in Words /\ Len(U \o W) = Len(U) + Len(W)
      BY <1>1, <2>1
    <2>3. (U \o W) \o M \in Words /\ Len((U \o W) \o M) = Len(U \o W) + Len(M)
      BY <1>5, <2>1, <2>2
    <2> QED
      BY <1>5, <2>2, <2>3
  <1>9. Preamble(h, n) \o B = U
    BY <1>2, <1>3, <1>6
  <1>10. Finished(h) = (U \o W) \o M
    BY <1>4, <1>7, <1>9
  <1> QED
    BY <1>8, <1>9, <1>10 DEF n, B, U, W, M

(* Up to the objects, any document that holds them is read the same way.   *)
LEMMA BodyIsRead ==
    ASSUME NEW d \in Words, NEW h, IsHeap(h), WrittenAt(d, 1, UpToObjects(h)),
           NEW T, IsSeq(T), Len(T) >= 9, HeadFields(h, T), T[9] = ObjectsMeaning(h),
           NEW p, p = 1 + Len(UpToObjects(h)), NEW r, r = Partial(p, T, 9)
    PROVE  HeapRead(d) = LET s == With(With(r, ReadTypes(d, p)),
                                       ReadU64(d, With(r, ReadTypes(d, p)).at))
                         IN  Accepted(d, s.at, s.val)
  <1> DEFINE H == HeadWords(h)
             C == Counted(ObjectWords(h))
             q == 1 + Len(H)
             k == MapOf(NamesMeaning(KnownNames(h)))
             head == Partial(q, T, 8)
  <1>0. Len(T) \in Nat
    BY DEF IsSeq
  <1>1. H \in Words /\ C \in Words
    BY HeadParts
  <1>2. WrittenAt(d, 1, H \o C) /\ p = 1 + Len(H \o C)
    BY DEF UpToObjects
  <1>3. WrittenAt(d, 1, H) /\ WrittenAt(d, q, C) /\ p = q + Len(C)
    <2> HIDE DEF H, C
    <2> QED
      BY <1>1, <1>2, Joint
  <1>4. ReadCommonTypes(d, ReadHeader(d)) = head
    <2>1. Len(T) >= 8
      BY <1>0
    <2> QED
      BY <1>3, <2>1, HeadIsRead
  <1>5. /\ k[ListName] = h.known[ListName] /\ k[DictName] = h.known[DictName]
        /\ {ListName, DictName} \subseteq DOMAIN k
    BY KnownIsRead
  <1>6. Items(ReadsObjects(d, k, h.strRepr), ReadU32(d, q)) = Read(p, ObjectsMeaning(h))
    <2> HIDE DEF k, q
    <2> QED
      BY <1>3, <1>5, ObjectsAreRead
  <1>7. head.at = q /\ q > 0
    <2>1. head.at = q
      BY PartialAt
    <2>2. q > 0
      BY <1>1 DEF Words
    <2> QED
      BY <2>1, <2>2
  <1>8. \A i \in 1..8 : head.val[i] = T[i]
    <2>1. 8 \in Nat /\ 8 <= Len(T)
      BY <1>0
    <2> QED
      BY <2>1, FilledVal
  <1>9. /\ head.val[1] = MagicU64 /\ head.val[2] = FormatVersion /\ head.val[4] = Flags(h)
        /\ head.val[5] = NamesMeaning(KnownNames(h)) /\ head.val[7] = <<>> /\ head.val[8] = <<>>
    BY <1>8 DEF HeadFields
  <1> HIDE DEF head, q
  <1>10. (head.val[4][2] % 2 = 1) = h.strRepr
    <2>1. h.strRepr \in BOOLEAN
      BY DEF IsHeap
    <2>2. CASE h.strRepr
      <3>1. head.val[4][2] = 1
        BY <1>9, <2>2 DEF Flags
      <3>2. head.val[4][2] % 2 = 1
        BY <3>1
      <3> QED
        BY <2>2, <3>2
    <2>3. CASE ~h.strRepr
      <3>1. head.val[4][2] = 0
        BY <1>9, <2>3 DEF Flags
      <3>2. ~(head.val[4][2] % 2 = 1)
        BY <3>1
      <3> QED
        BY <2>1, <2>3, <3>2
    <2> QED
      BY <2>1, <2>2, <2>3
  <1>11. {x[1] : x \in ToSet(head.val[8])} = {}
    BY <1>9 DEF ToSet
  <1>12. MapOf(head.val[5]) = k
    BY <1>9
  <1> HIDE DEF k
  <1>13. With(head, Read(p, ObjectsMeaning(h))) = r
    <2>1. 8 \in Nat /\ 8 + 1 <= Len(T) /\ 8 + 1 = 9
      BY <1>0
    <2>2. With(Partial(q, T, 8), Read(p, T[8 + 1])) = Partial(p, T, 8 + 1)
      BY <2>1, Filled, Zenon
    <2> QED
      BY <2>1, <2>2, Zenon DEF head
  <1>14. r.at = p
    BY PartialAt
  <1>15. ReadObjects(d, head)
           = With(With(r, ReadTypes(d, p)), ReadU64(d, With(r, ReadTypes(d, p)).at))
    <2>1. ReadObjects(d, head)
            = LET s == With(head, Items([x \in 0..Len(d) + 1 |->
                                ReadObject(d, x, MapOf(head.val[5]), head.val[4][2] % 2 = 1,
                                           head.val[7], {x1[1] : x1 \in ToSet(head.val[8])})],
                                ReadU32(d, head.at)))
              IN  With(With(s, ReadTypes(d, s.at)), ReadU64(d, With(s, ReadTypes(d, s.at)).at))
      BY DEF ReadObjects, Then, ReadSeq, ReadItems
    <2>2. [x \in 0..Len(d) + 1 |->
               ReadObject(d, x, MapOf(head.val[5]), head.val[4][2] % 2 = 1,
                          head.val[7], {x1[1] : x1 \in ToSet(head.val[8])})]
            = ReadsObjects(d, k, h.strRepr)
      BY <1>9, <1>10, <1>11, <1>12, Zenon DEF ReadsObjects
    <2> QED
      BY <1>6, <1>7, <1>13, <1>14, <2>1, <2>2, Zenon
  <1> QED
    BY <1>4, <1>5, <1>7, <1>9, <1>12, <1>15, Zenon DEF HeapRead

(* The type table: a type is there once, so its name is the only one.      *)
TypesGiven(h) ==
    [k \in {p[1] : p \in ToSet(h.types)} |->
        Cut(h.types[CHOOSE i \in DOMAIN h.types : h.types[i][1] = k][2], MaxString)]

(* The type table that is read gives each type the name it was given.      *)
LEMMA TypesAreNamed ==
    ASSUME NEW h, IsHeap(h)
    PROVE  MapOf(TypesMeaning(h.types)) = TypesGiven(h)
  <1> DEFINE t == h.types
             s == TypesMeaning(t)
             D == {p[1] : p \in ToSet(t)}
             E == {s[i][1] : i \in DOMAIN s}
  <1>1. /\ t \in Seq(Typed) /\ DOMAIN t = 1..Len(t) /\ Len(t) \in Nat
        /\ \A i, j \in DOMAIN t : t[i][1] = t[j][1] => i = j
    BY DEF IsHeap
  <1>2. DOMAIN s = DOMAIN t /\ \A i \in DOMAIN t : s[i] = <<t[i][1], Cut(t[i][2], MaxString)>>
    BY DEF TypesMeaning, TypedMeaning
  <1>3. TypesGiven(h) = [k \in D |-> Cut(t[CHOOSE i \in DOMAIN t : t[i][1] = k][2], MaxString)]
    BY DEF TypesGiven
  <1>4. MapOf(s) = [k \in E |-> s[Max({i \in DOMAIN s : s[i][1] = k})][2]]
    BY DEF MapOf
  <1> HIDE DEF t, s
  <1>5. \A i \in DOMAIN t : s[i][1] = t[i][1] /\ s[i][2] = Cut(t[i][2], MaxString)
    BY <1>2
  <1>6. D = E
    BY <1>2, <1>5 DEF ToSet
  <1>7. ASSUME NEW k \in D
        PROVE  s[Max({i \in DOMAIN s : s[i][1] = k})][2]
                 = Cut(t[CHOOSE i \in DOMAIN t : t[i][1] = k][2], MaxString)
    <2>1. PICK j \in DOMAIN t : t[j][1] = k
      BY DEF ToSet
    <2>2. \A i \in DOMAIN t : t[i][1] = k => i = j
      BY <1>1, <2>1
    <2>3. (CHOOSE i \in DOMAIN t : t[i][1] = k) = j
      BY <2>1, <2>2
    <2>4. {i \in DOMAIN s : s[i][1] = k} = {j}
      BY <1>2, <1>5, <2>1, <2>2
    <2>5. j \in Int /\ Max({j}) = j
      BY <1>1, <2>1 DEF Max
    <2> QED
      BY <1>5, <2>1, <2>3, <2>4, <2>5
  <1> HIDE DEF D, E
  <1>8. MapOf(s) = TypesGiven(h)
    BY <1>3, <1>4, <1>6, <1>7
  <1> QED
    BY <1>8 DEF s, t

(* What the reader accepts of the fields of a document.                    *)
LEMMA MeaningIs ==
    ASSUME NEW h, IsHeap(h)
    PROVE  Meaning(h) = [accepted |-> TRUE, created |-> Cut(h.created, MaxString),
                         threads |-> ThreadsMeaning(h.threads), objects |-> ObjectsMeaning(h),
                         types |-> TypesGiven(h)]
  BY DEF Meaning, Cut, ThreadsMeaning, ThreadMeaning, FramesMeaning, FrameMeaning, NamesMeaning,
         NamedMeaning, ObjectsMeaning, ObjectMeaning, Clamp, HasRepr, TypesGiven

(* The fields of a document whose writer finished are accepted.            *)
LEMMA FieldsAccepted ==
    ASSUME NEW h, IsHeap(h), NEW d, NEW T, HeadFields(h, T), T[9] = ObjectsMeaning(h),
           T[10] = TypesMeaning(h.types), T[11] = MagicU64
    PROVE  Accepted(d, Len(d) + 1, T) = Meaning(h)
  <1>1. FooterFits(d, Read(Len(d) + 1, T[11]))
    BY DEF FooterFits, Read
  <1> DEFINE objects == ObjectsMeaning(h)
  <1>2. DOMAIN objects = DOMAIN h.objects
    BY DEF ObjectsMeaning
  <1>3. \A i \in DOMAIN h.objects : objects[i].addr = h.objects[i].addr
                                    /\ objects[i].type = h.objects[i].type
    BY DEF ObjectsMeaning, ObjectMeaning
  <1> HIDE DEF objects
  <1>4. \A i, j \in DOMAIN objects : objects[i].addr = objects[j].addr => i = j
    BY <1>2, <1>3 DEF IsHeap
  <1>5. MapOf(T[10]) = TypesGiven(h)
    BY TypesAreNamed
  <1>6. \A i \in DOMAIN objects : objects[i].type \in DOMAIN TypesGiven(h)
    <2>1. \A i \in DOMAIN h.objects :
            \E j \in DOMAIN h.types : h.types[j][1] = h.objects[i].type
      BY DEF IsHeap
    <2> QED
      BY <1>2, <1>3, <2>1 DEF TypesGiven, ToSet
  <1>7. Accepted(d, Len(d) + 1, T)
          = [accepted |-> TRUE, created |-> T[3], threads |-> T[6], objects |-> objects,
             types |-> TypesGiven(h)]
    BY <1>1, <1>4, <1>5, <1>6, Zenon DEF Accepted, objects
  <1>8. T[3] = Cut(h.created, MaxString) /\ T[6] = ThreadsMeaning(h.threads)
    BY DEF HeadFields
  <1> QED
    BY <1>7, <1>8, MeaningIs, Zenon DEF objects

(* The fields of a document with the given objects, types and footer.      *)
FieldsWith(h, f, g, m) ==
    <<MagicU64, FormatVersion, Cut(h.created, MaxString), Flags(h), NamesMeaning(KnownNames(h)),
      ThreadsMeaning(h.threads), <<>>, <<>>, f, g, m>>
Fields(h) == FieldsWith(h, ObjectsMeaning(h), TypesMeaning(h.types), MagicU64)

(* There are eleven, the first eight of which are those of the header.     *)
LEMMA FieldsWithAre ==
    ASSUME NEW h, NEW f, NEW g, NEW m, NEW T, T = FieldsWith(h, f, g, m)
    PROVE  IsSeq(T) /\ Len(T) = 11 /\ HeadFields(h, T) /\ T[9] = f /\ T[10] = g /\ T[11] = m
  <1> DEFINE a == Cut(h.created, MaxString)
             b == Flags(h)
             c == NamesMeaning(KnownNames(h))
             e == ThreadsMeaning(h.threads)
  <1>1. T = <<MagicU64, FormatVersion, a, b, c, e, <<>>, <<>>, f, g, m>>
    BY DEF FieldsWith
  <1> HIDE DEF a, b, c, e
  <1>2. T \in Seq({MagicU64, FormatVersion, a, b, c, e, <<>>, f, g, m})
    BY <1>1
  <1>3. Len(T) = 11
    BY <1>1
  <1>4. /\ T[1] = MagicU64 /\ T[2] = FormatVersion /\ T[3] = a /\ T[4] = b /\ T[5] = c /\ T[6] = e
        /\ T[7] = <<>> /\ T[8] = <<>> /\ T[9] = f /\ T[10] = g /\ T[11] = m
    BY <1>1
  <1>5. IsSeq(T)
    BY <1>2 DEF IsSeq
  <1>6. HeadFields(h, T)
    BY <1>4 DEF HeadFields, a, b, c, e
  <1> QED
    BY <1>3, <1>4, <1>5, <1>6

(* The fields of a document whose writer finished.                         *)
LEMMA FieldsAre ==
    ASSUME NEW h
    PROVE  /\ IsSeq(Fields(h)) /\ Len(Fields(h)) = 11 /\ HeadFields(h, Fields(h))
           /\ Fields(h)[9] = ObjectsMeaning(h) /\ Fields(h)[10] = TypesMeaning(h.types)
           /\ Fields(h)[11] = MagicU64
  BY FieldsWithAre DEF Fields

(* The whole of d stands at its beginning.                                 *)
LEMMA AllOfIt == ASSUME NEW d \in Words PROVE WrittenAt(d, 1, d)
  <1>1. Len(d) \in Nat
    BY DEF Words
  <1> QED
    BY <1>1 DEF WrittenAt

(* The objects, the type table and the footer of a document whose writer   *)
(* finished.                                                               *)
TypesEnd(h) == 1 + Len(UpToObjects(h) \o TypeWords(h))

(* Where its objects, its type table and its footer stand.                 *)
LEMMA FinishedParts ==
    ASSUME NEW h, IsHeap(h)
    PROVE  /\ WrittenAt(Finished(h), 1, UpToObjects(h))
           /\ Len(Finished(h)) + 1 = TypesEnd(h) + 2
           /\ ReadTypes(Finished(h), 1 + Len(UpToObjects(h)))
                = Read(TypesEnd(h), TypesMeaning(h.types))
           /\ ReadU64(Finished(h), TypesEnd(h)) = Read(Len(Finished(h)) + 1, MagicU64)
  <1> DEFINE d == Finished(h)
             U == UpToObjects(h)
             W == TypeWords(h)
             p == 1 + Len(U)
             q == 1 + Len(U \o W)
  <1>1. d = (U \o W) \o MagicU64 /\ d \in Words
    BY FinishedIs
  <1>2. U \in Words /\ W \in Words /\ MagicU64 \in Words /\ MagicU64 \in U64 /\ Len(MagicU64) = 2
    BY HeadParts, MagicType
  <1>4. h.types \in Seq(Typed) /\ W = WriteSeq(h.types, WriteType)
    BY DEF IsHeap, TypeWords
  <1> HIDE DEF d, U, W
  <1>5. U \o W \in Words
    BY <1>2 DEF Words
  <1>6. WrittenAt(d, 1, d)
    BY <1>1, AllOfIt
  <1>7. /\ WrittenAt(d, 1, U \o W) /\ WrittenAt(d, q, MagicU64)
        /\ 1 + Len((U \o W) \o MagicU64) = q + Len(MagicU64)
    <2> DEFINE V == U \o W
               M == MagicU64
    <2>1. V \in Words /\ M \in Words /\ WrittenAt(d, 1, V \o M)
      BY <1>1, <1>2, <1>5, <1>6
    <2> HIDE DEF V, M
    <2>2. /\ WrittenAt(d, 1, V) /\ WrittenAt(d, 1 + Len(V), M)
          /\ 1 + Len(V \o M) = (1 + Len(V)) + Len(M)
      BY <1>1, <2>1, Joint
    <2> QED
      BY <2>2 DEF V, M
  <1>8. WrittenAt(d, 1, U) /\ WrittenAt(d, p, W) /\ q = p + Len(W)
    BY <1>1, <1>2, <1>7, Joint
  <1>9. Len(d) + 1 = q + 2
    <2>1. Len(d) \in Nat /\ 1 + Len(d) = q + 2
      BY <1>1, <1>2, <1>7 DEF Words
    <2> QED
      BY <2>1
  <1>10. ReadTypes(d, p) = Read(q, TypesMeaning(h.types))
    <2> HIDE DEF p, q
    <2> QED
      BY <1>1, <1>4, <1>8, TypesAreRead
  <1>11. ReadU64(d, q) = Read(Len(d) + 1, MagicU64)
    <2> HIDE DEF q
    <2>1. ReadU64(d, q) = Read(q + Len(MagicU64), MagicU64)
      BY <1>1, <1>2, <1>7, U64IsRead
    <2> QED
      BY <1>2, <1>9, <2>1, Zenon
  <1> QED
    BY <1>8, <1>9, <1>10, <1>11 DEF d, U, W, p, q, TypesEnd

(* A document whose writer finished is read as what the writer was given.  *)
LEMMA FinishedIsRead == ASSUME NEW h, IsHeap(h) PROVE HeapRead(Finished(h)) = Meaning(h)
  <1> DEFINE d == Finished(h)
             U == UpToObjects(h)
             T == Fields(h)
             p == 1 + Len(U)
             q == TypesEnd(h)
             r == Partial(p, T, 9)
  <1>1. d \in Words
    BY FinishedIs
  <1>3. /\ IsSeq(T) /\ Len(T) = 11 /\ HeadFields(h, T) /\ T[9] = ObjectsMeaning(h)
        /\ T[10] = TypesMeaning(h.types) /\ T[11] = MagicU64
    BY FieldsAre
  <1>8. WrittenAt(d, 1, U)
    BY FinishedParts
  <1>10. ReadTypes(d, p) = Read(q, TypesMeaning(h.types))
    BY FinishedParts
  <1>11. ReadU64(d, q) = Read(Len(d) + 1, MagicU64)
    BY FinishedParts
  <1> HIDE DEF d, U, T
  <1>12. HeapRead(d) = LET s == With(With(r, ReadTypes(d, p)),
                                    ReadU64(d, With(r, ReadTypes(d, p)).at))
                       IN  Accepted(d, s.at, s.val)
    <2>1. Len(T) >= 9 /\ WrittenAt(d, 1, UpToObjects(h)) /\ p = 1 + Len(UpToObjects(h))
      BY <1>3, <1>8 DEF U
    <2> HIDE DEF p
    <2>2. r = Partial(p, T, 9)
      OBVIOUS
    <2> HIDE DEF r
    <2> QED
      BY <1>1, <1>3, <2>1, <2>2, BodyIsRead
  <1> HIDE DEF p, q
  <1>13. With(r, Read(q, TypesMeaning(h.types))) = Partial(q, T, 10)
    <2>1. 9 \in Nat /\ 9 + 1 <= Len(T) /\ 9 + 1 = 10
      BY <1>3
    <2>2. With(Partial(p, T, 9), Read(q, T[9 + 1])) = Partial(q, T, 9 + 1)
      BY <1>3, <2>1, Filled, Zenon
    <2> QED
      BY <1>3, <2>1, <2>2, Zenon
  <1>14. With(Partial(q, T, 10), Read(Len(d) + 1, MagicU64)) = Read(Len(d) + 1, T)
    <2>1. 10 \in Nat /\ 10 + 1 <= Len(T) /\ 10 + 1 = 11
      BY <1>3
    <2>2. With(Partial(q, T, 10), Read(Len(d) + 1, T[10 + 1])) = Partial(Len(d) + 1, T, 10 + 1)
      BY <1>3, <2>1, Filled, Zenon
    <2>3. Partial(Len(d) + 1, T, 11) = Read(Len(d) + 1, T)
      BY <1>3, AllFilled
    <2> QED
      BY <1>3, <2>1, <2>2, <2>3, Zenon
  <1>15. Partial(q, T, 10).at = q
    BY PartialAt
  <1> HIDE DEF r
  <1>16. With(With(r, ReadTypes(d, p)), ReadU64(d, With(r, ReadTypes(d, p)).at))
           = Read(Len(d) + 1, T)
    BY <1>10, <1>11, <1>13, <1>14, <1>15, Zenon
  <1>17. Read(Len(d) + 1, T).at = Len(d) + 1 /\ Read(Len(d) + 1, T).val = T
    BY DEF Read
  <1>18. HeapRead(d) = Accepted(d, Len(d) + 1, T)
    BY <1>12, <1>16, <1>17, Zenon
  <1>19. Accepted(d, Len(d) + 1, T) = Meaning(h)
    BY <1>3, FieldsAccepted
  <1> QED
    BY <1>18, <1>19 DEF d

(* A document begins with the magic value.                                 *)
LEMMA MagicFirst ==
    ASSUME NEW d \in Words, NEW h, IsHeap(h), WrittenAt(d, 1, HeadWords(h))
    PROVE  WrittenAt(d, 1, MagicU64)
  <1> DEFINE w1 == MagicU64
             w2 == <<FormatVersion>>
             w3 == WriteLongString(h.created)
             w4 == Flags(h)
             w5 == WriteSeq(KnownNames(h), WriteNamed)
             w6 == WriteSeq(h.threads, WriteThread)
             w7 == << 0 >>
  <1>1. /\ h.created \in Words /\ KnownNames(h) \in Seq(Named) /\ h.threads \in Seq(Threads)
        /\ FormatVersion \in Nat
    BY KnownAreNamed DEF IsHeap, FormatVersion
  <1>2. /\ w1 \in Words /\ w2 \in Words /\ w3 \in Words /\ w4 \in Words /\ w5 \in Words
        /\ w6 \in Words /\ w7 \in Words
    BY <1>1, MagicType, OneWord, LongStringType, FlagsType, NamesType, ThreadsType DEF U64
  <1>3. WrittenAt(d, 1, w1 \o w2 \o w3 \o w4 \o w5 \o w6 \o w7 \o w7)
    BY DEF HeadWords, WriteHeader, Flags, KnownNames
  <1> HIDE DEF w1, w2, w3, w4, w5, w6, w7
  <1>4. \A u, v \in Words : u \o v \in Words /\ (WrittenAt(d, 1, u \o v) => WrittenAt(d, 1, u))
    BY Joint DEF Words
  <1>5. WrittenAt(d, 1, w1)
    BY <1>2, <1>3, <1>4
  <1> QED
    BY <1>5 DEF w1

(* A document whose writer finished has the magic value at both ends.      *)
LEMMA FinishedValid == ASSUME NEW h, IsHeap(h) PROVE Validated(Finished(h))
  <1> DEFINE d == Finished(h)
             n == Len(d)
             V == UpToObjects(h) \o TypeWords(h)
             M == MagicU64
  <1>1. /\ UpToObjects(h) \in Words /\ TypeWords(h) \in Words /\ HeadWords(h) \in Words
        /\ Counted(ObjectWords(h)) \in Words /\ M \in Words /\ Len(M) = 2
    BY HeadParts, MagicType
  <1>2. d = V \o M /\ d \in Words
    BY FinishedIs
  <1>3. V \in Words
    BY <1>1 DEF Words
  <1> HIDE DEF d, V, M
  <1>4. WrittenAt(d, 1, V) /\ WrittenAt(d, 1 + Len(V), M) /\ n = Len(V) + 2 /\ Len(V) \in Nat
    <2>1. WrittenAt(d, 1, V \o M)
      BY <1>2, AllOfIt
    <2>2. \A u, v \in Words : Len(u \o v) = Len(u) + Len(v) /\ Len(u) \in Nat
      BY DEF Words
    <2>3. n = Len(V) + Len(M) /\ Len(V) \in Nat
      BY <1>1, <1>2, <1>3, <2>2
    <2> QED
      BY <1>1, <1>2, <1>3, <2>1, <2>3, Joint
  <1>5. WrittenAt(d, 1, M)
    <2>1. WrittenAt(d, 1, UpToObjects(h))
      BY <1>1, <1>2, <1>4, Joint DEF V
    <2>2. WrittenAt(d, 1, HeadWords(h))
      BY <1>1, <1>2, <2>1, Joint DEF UpToObjects
    <2> QED
      BY <1>2, <2>2, MagicFirst DEF M
  <1>6. SubSeq(d, 1, 1 + Len(M) - 1) = M
    BY <1>1, <1>2, <1>5, WrittenSub
  <1>7. SubSeq(d, 1 + Len(V), (1 + Len(V)) + Len(M) - 1) = M
    BY <1>1, <1>2, <1>4, WrittenSub
  <1>8. 1 + Len(M) - 1 = 2 /\ 1 + Len(V) = n - 1 /\ (1 + Len(V)) + Len(M) - 1 = n
    BY <1>1, <1>4
  <1>9. SubSeq(d, 1, 2) = M /\ SubSeq(d, n - 1, n) = M
    BY <1>6, <1>7, <1>8
  <1>10. n >= 4
    <2>1. WrittenAt(V, 1, UpToObjects(h) \o TypeWords(h))
      BY <1>3, AllOfIt DEF V
    <2>2. WrittenAt(V, 1, HeadWords(h) \o Counted(ObjectWords(h)))
      BY <1>1, <1>3, <2>1, Joint DEF UpToObjects
    <2>3. WrittenAt(V, 1, HeadWords(h))
      BY <1>1, <1>3, <2>2, Joint
    <2>4. WrittenAt(V, 1, M)
      BY <1>3, <2>3, MagicFirst DEF M
    <2> QED
      BY <1>1, <1>4, <2>4 DEF WrittenAt
  <1> QED
    BY <1>9, <1>10 DEF Validated, d, M

-----------------------------------------------------------------------------
(* A document that is cut off: what is read of it to the end is what would *)
(* be read of the whole.                                                   *)

Begins(d, e) ==
    /\ d \in Words /\ e \in Words /\ Len(d) <= Len(e)
    /\ \A i \in 1..Len(d) : e[i] = d[i]

(* r was read at the position at of d, and s there of e.                   *)
Same(d, at, r, s) ==
    /\ r.at \in 0..Len(d) + 1
    /\ at = 0 => r.at = 0
    /\ r.at # 0 => s = r

Spots(d) == 0..Len(d) + 1

(* The two parts of a read.                                                *)
LEMMA ReadIs == ASSUME NEW at, NEW val PROVE Read(at, val).at = at /\ Read(at, val).val = val
  BY DEF Read

(* A read that failed claims nothing of the whole document.                *)
LEMMA TruncatedSame ==
    ASSUME NEW d \in Words, NEW at, NEW s PROVE Same(d, at, Truncated, s) /\ Truncated.at = 0
  <1>1. Truncated.at = 0 /\ Len(d) \in Nat
    BY DEF Truncated, Read, Words
  <1>2. 0 \in 0..Len(d) + 1
    BY <1>1
  <1> HIDE DEF Truncated
  <1> QED
    BY <1>1, <1>2 DEF Same

(* One field more.                                                         *)
LEMMA FieldSame ==
    ASSUME NEW d, NEW at, NEW r, NEW s, Same(d, at, r, s), NEW f, NEW g, NEW x,
           Same(d, r.at, f, g), s = r => x = g
    PROVE  Same(d, at, With(r, f), With(s, x))
  <1>1. With(r, f).at = f.at
    BY DEF With, Read
  <1>2. ASSUME f.at # 0 PROVE With(s, x) = With(r, f)
    <2>1. r.at # 0
      BY <1>2 DEF Same
    <2>2. s = r /\ x = f
      BY <1>2, <2>1 DEF Same
    <2> QED
      BY <2>2
  <1> QED
    BY <1>1, <1>2 DEF Same

(* Before the first field.                                                 *)
LEMMA StartSame ==
    ASSUME NEW d, NEW at \in Spots(d)
    PROVE  Same(d, at, Start(at), Start(at)) /\ Start(at).at = at
  BY DEF Same, Start, Read, Spots

(* A number.                                                               *)
LEMMA U32Same ==
    ASSUME NEW d, NEW e, Begins(d, e), NEW at \in Spots(d)
    PROVE  /\ Same(d, at, ReadU32(d, at), ReadU32(e, at))
           /\ ReadU32(d, at).at # 0 => ReadU32(d, at).val \in Nat
  <1>1. d \in Words /\ e \in Words /\ DOMAIN d = 1..Len(d) /\ DOMAIN e = 1..Len(e)
        /\ Len(d) \in Nat /\ Len(e) \in Nat /\ Len(d) <= Len(e)
    BY DEF Begins, Words
  <1>2. CASE at \in DOMAIN d
    <2>1. at \in DOMAIN e /\ e[at] = d[at] /\ d[at] \in Nat /\ at # 0 /\ at + 1 \in 0..Len(d) + 1
      BY <1>1, <1>2 DEF Begins, Words
    <2>2. ReadU32(d, at) = Read(at + 1, d[at]) /\ ReadU32(e, at) = Read(at + 1, d[at])
      BY <1>2, <2>1 DEF ReadU32
    <2> QED
      BY <2>1, <2>2, ReadIs DEF Same
  <1>3. CASE at \notin DOMAIN d
    <2>1. ReadU32(d, at) = Truncated
      BY <1>3 DEF ReadU32
    <2> QED
      BY <1>1, <2>1, TruncatedSame
  <1> QED
    BY <1>2, <1>3

(* An address.                                                             *)
LEMMA U64Same ==
    ASSUME NEW d, NEW e, Begins(d, e), NEW at \in Spots(d)
    PROVE  Same(d, at, ReadU64(d, at), ReadU64(e, at))
  <1>1. d \in Words /\ e \in Words /\ DOMAIN d = 1..Len(d) /\ DOMAIN e = 1..Len(e)
        /\ Len(d) \in Nat /\ Len(e) \in Nat /\ Len(d) <= Len(e)
    BY DEF Begins, Words
  <1>2. CASE at \in DOMAIN d /\ at + 1 \in DOMAIN d
    <2>1. /\ at \in DOMAIN e /\ e[at] = d[at] /\ at # 0 /\ at + 2 \in 0..Len(d) + 1
          /\ at + 1 \in DOMAIN e /\ e[at + 1] = d[at + 1]
      BY <1>1, <1>2 DEF Begins
    <2>2. /\ ReadU64(d, at) = Read(at + 2, <<d[at], d[at + 1]>>)
          /\ ReadU64(e, at) = Read(at + 2, <<d[at], d[at + 1]>>)
      BY <1>2, <2>1 DEF ReadU64
    <2> QED
      BY <2>1, <2>2, ReadIs DEF Same
  <1>3. CASE ~(at \in DOMAIN d /\ at + 1 \in DOMAIN d)
    <2>1. ReadU64(d, at) = Truncated
      BY <1>3 DEF ReadU64
    <2> QED
      BY <1>1, <2>1, TruncatedSame
  <1> QED
    BY <1>2, <1>3

(* The characters of a string.                                             *)
LEMMA StringSame ==
    ASSUME NEW d, NEW e, Begins(d, e), NEW at \in Spots(d), NEW n \in Nat
    PROVE  Same(d, at, ReadString(d, at, n), ReadString(e, at, n))
  <1>1. d \in Words /\ e \in Words /\ Len(d) \in Nat /\ Len(e) \in Nat /\ Len(d) <= Len(e)
        /\ at \in Nat
    BY DEF Begins, Words, Spots
  <1>2. CASE at = 0 \/ at + n > Len(d) + 1
    <2>1. ReadString(d, at, n) = Truncated
      BY <1>2 DEF ReadString
    <2> QED
      BY <1>1, <2>1, TruncatedSame
  <1>3. CASE ~(at = 0 \/ at + n > Len(d) + 1)
    <2> DEFINE w == SubSeq(d, at, at + n - 1)
    <2>1. w \in Words /\ Len(w) = n /\ \A i \in 1..n : w[i] = d[at + i - 1]
      BY <1>1, <1>3 DEF Words
    <2> HIDE DEF w
    <2>2. \A i \in 1..n : e[at + i - 1] = d[at + i - 1]
      BY <1>1, <1>3 DEF Begins
    <2>3. WrittenAt(e, at, w)
      <3>1. at > 0 /\ at + Len(w) <= Len(e) + 1
        BY <1>1, <1>3, <2>1
      <3>2. \A i \in 1..Len(w) : e[at + i - 1] = w[i]
        BY <2>1, <2>2
      <3> QED
        BY <1>1, <3>1, <3>2 DEF WrittenAt
    <2>4. ReadString(e, at, n) = Read(at + n, w)
      BY <1>1, <2>1, <2>3, StringIsRead
    <2>5. ReadString(d, at, n) = Read(at + n, w)
      BY <1>3 DEF ReadString, w
    <2>6. at + n \in 0..Len(d) + 1 /\ at # 0
      BY <1>1, <1>3
    <2> QED
      BY <2>4, <2>5, <2>6, ReadIs DEF Same
  <1> QED
    BY <1>2, <1>3

(* A string with its length.                                               *)
LEMMA LongStringSame ==
    ASSUME NEW d, NEW e, Begins(d, e), NEW at \in Spots(d)
    PROVE  Same(d, at, ReadLongString(d, at), ReadLongString(e, at))
  <1> DEFINE n == ReadU32(d, at)
  <1>1. Same(d, at, n, ReadU32(e, at)) /\ (n.at # 0 => n.val \in Nat)
    BY U32Same
  <1>2. ReadLongString(d, at) = ReadCounted(d, n)
        /\ ReadLongString(e, at) = ReadCounted(e, ReadU32(e, at))
    BY DEF ReadLongString
  <1> HIDE DEF n
  <1>3. d \in Words
    BY DEF Begins
  <1>4. CASE n.at = 0
    <2>1. ReadCounted(d, n) = Truncated
      BY <1>4 DEF ReadCounted
    <2> QED
      BY <1>2, <1>3, <2>1, TruncatedSame
  <1>5. CASE n.at # 0
    <2>1. ReadU32(e, at) = n /\ n.at \in Spots(d) /\ n.val \in Nat /\ at # 0
      BY <1>1, <1>5 DEF Same, Spots
    <2>2. Same(d, n.at, ReadString(d, n.at, n.val), ReadString(e, n.at, n.val))
      BY <2>1, StringSame
    <2>3. ReadCounted(d, n) = ReadString(d, n.at, n.val)
          /\ ReadCounted(e, n) = ReadString(e, n.at, n.val)
      BY <1>5 DEF ReadCounted
    <2> QED
      BY <1>2, <2>1, <2>2, <2>3 DEF Same
  <1> QED
    BY <1>4, <1>5

(* There is always a function that reads the items of a counted sequence.  *)
LEMMA ItemsExists ==
    ASSUME NEW item, NEW n, n.val \in Nat, NEW g, g = ItemsRead(item, n)
    PROVE  /\ g[0] = Start(n.at)
           /\ \A i \in 1..n.val : g[i] = With(g[i - 1], item[g[i - 1].at])
  <1> DEFINE Upto(f, k) == f = [i \in 0..k |->
                  IF i = 0 THEN Start(n.at) ELSE With(f[i - 1], item[f[i - 1].at])]
             T == {k \in Nat : \E f : Upto(f, k)}
  <1>1. 0 \in T
    <2> DEFINE f == [i \in 0..0 |-> Start(n.at)]
    <2>1. ASSUME NEW i \in 0..0
          PROVE  f[i] = IF i = 0 THEN Start(n.at) ELSE With(f[i - 1], item[f[i - 1].at])
      OBVIOUS
    <2>2. f = [i \in 0..0 |-> f[i]]
      OBVIOUS
    <2> HIDE DEF f
    <2>3. Upto(f, 0)
      BY <2>1, <2>2
    <2> QED
      BY <2>3
  <1>2. ASSUME NEW k \in T PROVE k + 1 \in T
    <2>1. PICK f : Upto(f, k)
      OBVIOUS
    <2>2. k \in Nat /\ k + 1 \in Nat
      OBVIOUS
    <2> DEFINE h == [i \in 0..k + 1 |-> IF i = k + 1 THEN With(f[k], item[f[k].at]) ELSE f[i]]
    <2>3. \A i \in 0..k : h[i] = f[i]
      BY <2>2
    <2>4. h[k + 1] = With(f[k], item[f[k].at])
      BY <2>2
    <2>5. h = [i \in 0..k + 1 |-> h[i]]
      OBVIOUS
    <2> HIDE DEF h
    <2>6. ASSUME NEW i \in 0..k + 1
          PROVE  h[i] = IF i = 0 THEN Start(n.at) ELSE With(h[i - 1], item[h[i - 1].at])
      <3>1. CASE i = 0
        <4>1. 0 \in 0..k
          BY <2>2
        <4> QED
          BY <2>1, <2>3, <3>1, <4>1
      <3>2. CASE i \in 1..k
        <4>1. i \in 0..k /\ i - 1 \in 0..k /\ i # 0
          BY <2>2, <3>2
        <4>2. f[i] = With(f[i - 1], item[f[i - 1].at])
          BY <2>1, <4>1
        <4> QED
          BY <2>3, <4>1, <4>2
      <3>3. CASE i = k + 1
        <4>1. i # 0 /\ i - 1 = k /\ k \in 0..k
          BY <2>2, <3>3
        <4> QED
          BY <2>3, <2>4, <3>3, <4>1
      <3> QED
        BY <2>2, <3>1, <3>2, <3>3
    <2>7. Upto(h, k + 1)
      BY <2>5, <2>6
    <2> HIDE DEF Upto
    <2> QED
      BY <2>2, <2>7
  <1>3. n.val \in T
    <2> HIDE DEF T
    <2>1. T \in SUBSET Nat
      BY DEF T
    <2> QED
      BY <1>1, <1>2, <2>1, NatInduct
  <1>4. g = [i \in 0..n.val |-> IF i = 0 THEN Start(n.at) ELSE With(g[i - 1], item[g[i - 1].at])]
    <2>1. PICK f : Upto(f, n.val)
      BY <1>3
    <2> QED
      BY <2>1 DEF ItemsRead
  <1> HIDE DEF T
  <1>5. 0 \in 0..n.val /\ \A i \in 1..n.val : i \in 0..n.val /\ i # 0
    OBVIOUS
  <1>6. g[0] = Start(n.at)
    BY <1>4, <1>5
  <1>7. \A i \in 1..n.val : g[i] = With(g[i - 1], item[g[i - 1].at])
    BY <1>4, <1>5
  <1> QED
    BY <1>6, <1>7

(* A counted sequence, item by item.                                       *)
LEMMA ItemsSame ==
    ASSUME NEW d, NEW at \in Spots(d), NEW n, NEW m, Same(d, at, n, m), n.at # 0 => n.val \in Nat,
           NEW f, NEW g, \A p \in Spots(d) : Same(d, p, f[p], g[p]), d \in Words
    PROVE  Same(d, at, Items(f, n), Items(g, m))
  <1>1. CASE n.at = 0
    <2>1. Items(f, n) = Truncated
      BY <1>1 DEF Items
    <2> QED
      BY <2>1, TruncatedSame
  <1>2. CASE n.at # 0
    <2>1. m = n /\ n.val \in Nat /\ at # 0 /\ n.at \in Spots(d)
      BY <1>2 DEF Same, Spots
    <2> DEFINE F == ItemsRead(f, n)
               G == ItemsRead(g, n)
               T == {k \in Nat : k <= n.val => Same(d, n.at, F[k], G[k])}
    <2>2. Items(f, n) = F[n.val] /\ Items(g, m) = G[n.val]
      BY <1>2, <2>1, ItemsIs
    <2>3. F[0] = Start(n.at) /\ \A i \in 1..n.val : F[i] = With(F[i - 1], f[F[i - 1].at])
      BY <2>1, ItemsExists
    <2>4. G[0] = Start(n.at) /\ \A i \in 1..n.val : G[i] = With(G[i - 1], g[G[i - 1].at])
      BY <2>1, ItemsExists
    <2> HIDE DEF F, G
    <2>5. 0 \in T
      BY <2>1, <2>3, <2>4, StartSame
    <2>6. ASSUME NEW k \in T PROVE k + 1 \in T
      <3>1. SUFFICES ASSUME k + 1 <= n.val PROVE Same(d, n.at, F[k + 1], G[k + 1])
        OBVIOUS
      <3>2. k + 1 \in 1..n.val /\ (k + 1) - 1 = k /\ k <= n.val
        BY <2>1, <3>1
      <3>3. Same(d, n.at, F[k], G[k])
        BY <3>2
      <3>4. F[k + 1] = With(F[k], f[F[k].at]) /\ G[k + 1] = With(G[k], g[G[k].at])
        BY <2>3, <2>4, <3>2
      <3>5. Same(d, F[k].at, f[F[k].at], g[F[k].at])
        BY <3>3 DEF Same, Spots
      <3> QED
        BY <3>3, <3>4, <3>5, FieldSame
    <2>7. T = Nat
      <3> HIDE DEF T
      <3>1. T \in SUBSET Nat
        BY DEF T
      <3> QED
        BY <2>5, <2>6, <3>1, NatInduct
    <2>8. n.val \in T
      BY <2>1, <2>7, Zenon
    <2>9. Same(d, n.at, F[n.val], G[n.val])
      BY <2>1, <2>8
    <2> QED
      BY <2>1, <2>2, <2>9 DEF Same
  <1> QED
    BY <1>1, <1>2

(* A counted sequence of what is read the same way.                        *)
LEMMA SeqSame ==
    ASSUME NEW d, NEW e, Begins(d, e), NEW at \in Spots(d), NEW f, NEW g,
           \A p \in Spots(d) : Same(d, p, f[p], g[p])
    PROVE  Same(d, at, Items(f, ReadU32(d, at)), Items(g, ReadU32(e, at)))
  <1> DEFINE n == ReadU32(d, at)
             m == ReadU32(e, at)
  <1>1. Same(d, at, n, m) /\ (n.at # 0 => n.val \in Nat)
    BY U32Same
  <1>2. d \in Words
    BY DEF Begins
  <1> HIDE DEF n, m
  <1>3. Same(d, at, Items(f, n), Items(g, m))
    BY <1>1, <1>2, ItemsSame
  <1> QED
    BY <1>3 DEF n, m

(* A position in the beginning is one in the whole.                        *)
LEMMA SpotsOf ==
    ASSUME NEW d, NEW e, Begins(d, e), NEW p \in Spots(d)
    PROVE  p \in 0..Len(d) + 1 /\ p \in 0..Len(e) + 1
  BY DEF Begins, Words, Spots

(* A name with an address, a frame, a thread, a type, and their sequences. *)
LEMMA NamedSame ==
    ASSUME NEW d, NEW e, Begins(d, e), NEW at \in Spots(d)
    PROVE  Same(d, at, ReadNamed(d, at), ReadNamed(e, at))
  <1> DEFINE r0 == Start(at)
             s0 == Start(at)
             r1 == With(r0, ReadLongString(d, r0.at))
             s1 == With(s0, ReadLongString(e, s0.at))
             r2 == With(r1, ReadU64(d, r1.at))
             s2 == With(s1, ReadU64(e, s1.at))
  <1>1. Same(d, at, r0, s0)
    BY StartSame
  <1>2. Same(d, at, r1, s1)
    <2> HIDE DEF r0, s0
    <2>1. r0.at \in Spots(d)
      BY <1>1 DEF Same, Spots
    <2>2. Same(d, r0.at, ReadLongString(d, r0.at), ReadLongString(e, r0.at))
      BY <2>1, LongStringSame
    <2>3. s0 = r0 => ReadLongString(e, s0.at) = ReadLongString(e, r0.at)
      OBVIOUS
    <2> QED
      BY <1>1, <2>2, <2>3, FieldSame
  <1>3. Same(d, at, r2, s2)
    <2> HIDE DEF r1, s1
    <2>1. r1.at \in Spots(d)
      BY <1>2 DEF Same, Spots
    <2>2. Same(d, r1.at, ReadU64(d, r1.at), ReadU64(e, r1.at))
      BY <2>1, U64Same
    <2>3. s1 = r1 => ReadU64(e, s1.at) = ReadU64(e, r1.at)
      OBVIOUS
    <2> QED
      BY <1>2, <2>2, <2>3, FieldSame
  <1>4. ReadNamed(d, at) = r2 /\ ReadNamed(e, at) = s2
    BY DEF ReadNamed, Then, ReadPair
  <1> HIDE DEF r2, s2
  <1> QED
    BY <1>3, <1>4

(* The container types, the locals of a frame.                             *)
LEMMA NamesSame ==
    ASSUME NEW d, NEW e, Begins(d, e), NEW at \in Spots(d)
    PROVE  Same(d, at, ReadNames(d, at), ReadNames(e, at))
  <1> DEFINE f == [p \in 0..Len(d) + 1 |-> ReadNamed(d, p)]
             g == [p \in 0..Len(e) + 1 |-> ReadNamed(e, p)]
  <1>1. ASSUME NEW p \in Spots(d) PROVE Same(d, p, f[p], g[p])
    <2>1. f[p] = ReadNamed(d, p) /\ g[p] = ReadNamed(e, p)
      BY SpotsOf
    <2> QED
      BY <2>1, NamedSame
  <1>2. /\ ReadNames(d, at) = Items(f, ReadU32(d, at))
        /\ ReadNames(e, at) = Items(g, ReadU32(e, at))
    BY DEF ReadNames, ReadSeq, ReadItems
  <1> HIDE DEF f, g
  <1> QED
    BY <1>1, <1>2, SeqSame

(* A type.                                                                 *)
LEMMA TypeSame ==
    ASSUME NEW d, NEW e, Begins(d, e), NEW at \in Spots(d)
    PROVE  Same(d, at, ReadType(d, at), ReadType(e, at))
  <1> DEFINE r0 == Start(at)
             s0 == Start(at)
             r1 == With(r0, ReadU64(d, r0.at))
             s1 == With(s0, ReadU64(e, s0.at))
             r2 == With(r1, ReadLongString(d, r1.at))
             s2 == With(s1, ReadLongString(e, s1.at))
  <1>1. Same(d, at, r0, s0)
    BY StartSame
  <1>2. Same(d, at, r1, s1)
    <2> HIDE DEF r0, s0
    <2>1. r0.at \in Spots(d)
      BY <1>1 DEF Same, Spots
    <2>2. Same(d, r0.at, ReadU64(d, r0.at), ReadU64(e, r0.at))
      BY <2>1, U64Same
    <2>3. s0 = r0 => ReadU64(e, s0.at) = ReadU64(e, r0.at)
      OBVIOUS
    <2> QED
      BY <1>1, <2>2, <2>3, FieldSame
  <1>3. Same(d, at, r2, s2)
    <2> HIDE DEF r1, s1
    <2>1. r1.at \in Spots(d)
      BY <1>2 DEF Same, Spots
    <2>2. Same(d, r1.at, ReadLongString(d, r1.at), ReadLongString(e, r1.at))
      BY <2>1, LongStringSame
    <2>3. s1 = r1 => ReadLongString(e, s1.at) = ReadLongString(e, r1.at)
      OBVIOUS
    <2> QED
      BY <1>2, <2>2, <2>3, FieldSame
  <1>4. ReadType(d, at) = r2 /\ ReadType(e, at) = s2
    BY DEF ReadType, Then, ReadPair
  <1> HIDE DEF r2, s2
  <1> QED
    BY <1>3, <1>4

(* The type table.                                                         *)
LEMMA TypesSame ==
    ASSUME NEW d, NEW e, Begins(d, e), NEW at \in Spots(d)
    PROVE  Same(d, at, ReadTypes(d, at), ReadTypes(e, at))
  <1> DEFINE f == [p \in 0..Len(d) + 1 |-> ReadType(d, p)]
             g == [p \in 0..Len(e) + 1 |-> ReadType(e, p)]
  <1>1. ASSUME NEW p \in Spots(d) PROVE Same(d, p, f[p], g[p])
    <2>1. f[p] = ReadType(d, p) /\ g[p] = ReadType(e, p)
      BY SpotsOf
    <2> QED
      BY <2>1, TypeSame
  <1>2. /\ ReadTypes(d, at) = Items(f, ReadU32(d, at))
        /\ ReadTypes(e, at) = Items(g, ReadU32(e, at))
    BY DEF ReadTypes, ReadSeq, ReadItems
  <1> HIDE DEF f, g
  <1> QED
    BY <1>1, <1>2, SeqSame

(* The frequent attributes.                                                *)
LEMMA StringsSame ==
    ASSUME NEW d, NEW e, Begins(d, e), NEW at \in Spots(d)
    PROVE  Same(d, at, ReadStrings(d, at), ReadStrings(e, at))
  <1> DEFINE f == [p \in 0..Len(d) + 1 |-> ReadLongString(d, p)]
             g == [p \in 0..Len(e) + 1 |-> ReadLongString(e, p)]
  <1>1. ASSUME NEW p \in Spots(d) PROVE Same(d, p, f[p], g[p])
    <2>1. f[p] = ReadLongString(d, p) /\ g[p] = ReadLongString(e, p)
      BY SpotsOf
    <2> QED
      BY <2>1, LongStringSame
  <1>2. /\ ReadStrings(d, at) = Items(f, ReadU32(d, at))
        /\ ReadStrings(e, at) = Items(g, ReadU32(e, at))
    BY DEF ReadStrings, ReadSeq, ReadItems
  <1> HIDE DEF f, g
  <1> QED
    BY <1>1, <1>2, SeqSame

(* A frame.                                                                *)
LEMMA FrameSame ==
    ASSUME NEW d, NEW e, Begins(d, e), NEW at \in Spots(d)
    PROVE  Same(d, at, ReadFrame(d, at), ReadFrame(e, at))
  <1> DEFINE r0 == Start(at)
             s0 == Start(at)
             r1 == With(r0, ReadLongString(d, r0.at))
             s1 == With(s0, ReadLongString(e, s0.at))
             r2 == With(r1, ReadU32(d, r1.at))
             s2 == With(s1, ReadU32(e, s1.at))
             r3 == With(r2, ReadLongString(d, r2.at))
             s3 == With(s2, ReadLongString(e, s2.at))
             r4 == With(r3, ReadNames(d, r3.at))
             s4 == With(s3, ReadNames(e, s3.at))
  <1>1. Same(d, at, r0, s0)
    BY StartSame
  <1>2. Same(d, at, r1, s1)
    <2> HIDE DEF r0, s0
    <2>1. r0.at \in Spots(d)
      BY <1>1 DEF Same, Spots
    <2>2. Same(d, r0.at, ReadLongString(d, r0.at), ReadLongString(e, r0.at))
      BY <2>1, LongStringSame
    <2>3. s0 = r0 => ReadLongString(e, s0.at) = ReadLongString(e, r0.at)
      OBVIOUS
    <2> QED
      BY <1>1, <2>2, <2>3, FieldSame
  <1>3. Same(d, at, r2, s2)
    <2> HIDE DEF r1, s1
    <2>1. r1.at \in Spots(d)
      BY <1>2 DEF Same, Spots
    <2>2. Same(d, r1.at, ReadU32(d, r1.at), ReadU32(e, r1.at))
      BY <2>1, U32Same
    <2>3. s1 = r1 => ReadU32(e, s1.at) = ReadU32(e, r1.at)
      OBVIOUS
    <2> QED
      BY <1>2, <2>2, <2>3, FieldSame
  <1>4. Same(d, at, r3, s3)
    <2> HIDE DEF r2, s2
    <2>1. r2.at \in Spots(d)
      BY <1>3 DEF Same, Spots
    <2>2. Same(d, r2.at, ReadLongString(d, r2.at), ReadLongString(e, r2.at))
      BY <2>1, LongStringSame
    <2>3. s2 = r2 => ReadLongString(e, s2.at) = ReadLongString(e, r2.at)
      OBVIOUS
    <2> QED
      BY <1>3, <2>2, <2>3, FieldSame
  <1>5. Same(d, at, r4, s4)
    <2> HIDE DEF r3, s3
    <2>1. r3.at \in Spots(d)
      BY <1>4 DEF Same, Spots
    <2>2. Same(d, r3.at, ReadNames(d, r3.at), ReadNames(e, r3.at))
      BY <2>1, NamesSame
    <2>3. s3 = r3 => ReadNames(e, s3.at) = ReadNames(e, r3.at)
      OBVIOUS
    <2> QED
      BY <1>4, <2>2, <2>3, FieldSame
  <1>6. /\ ReadFrame(d, at) = Read(r4.at, MapOf(r4.val[4]))
        /\ ReadFrame(e, at) = Read(s4.at, MapOf(s4.val[4]))
    BY DEF ReadFrame, Then, ReadPair
  <1> HIDE DEF r4, s4
  <1> QED
    BY <1>5, <1>6, ReadIs DEF Same

(* The frames of a thread.                                                 *)
LEMMA FramesSame ==
    ASSUME NEW d, NEW e, Begins(d, e), NEW at \in Spots(d)
    PROVE  Same(d, at, ReadFrames(d, at), ReadFrames(e, at))
  <1> DEFINE f == [p \in 0..Len(d) + 1 |-> ReadFrame(d, p)]
             g == [p \in 0..Len(e) + 1 |-> ReadFrame(e, p)]
  <1>1. ASSUME NEW p \in Spots(d) PROVE Same(d, p, f[p], g[p])
    <2>1. f[p] = ReadFrame(d, p) /\ g[p] = ReadFrame(e, p)
      BY SpotsOf
    <2> QED
      BY <2>1, FrameSame
  <1>2. /\ ReadFrames(d, at) = Items(f, ReadU32(d, at))
        /\ ReadFrames(e, at) = Items(g, ReadU32(e, at))
    BY DEF ReadFrames, ReadSeq, ReadItems
  <1> HIDE DEF f, g
  <1> QED
    BY <1>1, <1>2, SeqSame

(* A thread.                                                               *)
LEMMA ThreadSame ==
    ASSUME NEW d, NEW e, Begins(d, e), NEW at \in Spots(d)
    PROVE  Same(d, at, ReadThread(d, at), ReadThread(e, at))
  <1> DEFINE r0 == Start(at)
             s0 == Start(at)
             r1 == With(r0, ReadLongString(d, r0.at))
             s1 == With(s0, ReadLongString(e, s0.at))
             r2 == With(r1, ReadU32(d, r1.at))
             s2 == With(s1, ReadU32(e, s1.at))
             r3 == With(r2, ReadU32(d, r2.at))
             s3 == With(s2, ReadU32(e, s2.at))
             r4 == With(r3, ReadFrames(d, r3.at))
             s4 == With(s3, ReadFrames(e, s3.at))
  <1>1. Same(d, at, r0, s0)
    BY StartSame
  <1>2. Same(d, at, r1, s1)
    <2> HIDE DEF r0, s0
    <2>1. r0.at \in Spots(d)
      BY <1>1 DEF Same, Spots
    <2>2. Same(d, r0.at, ReadLongString(d, r0.at), ReadLongString(e, r0.at))
      BY <2>1, LongStringSame
    <2>3. s0 = r0 => ReadLongString(e, s0.at) = ReadLongString(e, r0.at)
      OBVIOUS
    <2> QED
      BY <1>1, <2>2, <2>3, FieldSame
  <1>3. Same(d, at, r2, s2)
    <2> HIDE DEF r1, s1
    <2>1. r1.at \in Spots(d)
      BY <1>2 DEF Same, Spots
    <2>2. Same(d, r1.at, ReadU32(d, r1.at), ReadU32(e, r1.at))
      BY <2>1, U32Same
    <2>3. s1 = r1 => ReadU32(e, s1.at) = ReadU32(e, r1.at)
      OBVIOUS
    <2> QED
      BY <1>2, <2>2, <2>3, FieldSame
  <1>4. Same(d, at, r3, s3)
    <2> HIDE DEF r2, s2
    <2>1. r2.at \in Spots(d)
      BY <1>3 DEF Same, Spots
    <2>2. Same(d, r2.at, ReadU32(d, r2.at), ReadU32(e, r2.at))
      BY <2>1, U32Same
    <2>3. s2 = r2 => ReadU32(e, s2.at) = ReadU32(e, r2.at)
      OBVIOUS
    <2> QED
      BY <1>3, <2>2, <2>3, FieldSame
  <1>5. Same(d, at, r4, s4)
    <2> HIDE DEF r3, s3
    <2>1. r3.at \in Spots(d)
      BY <1>4 DEF Same, Spots
    <2>2. Same(d, r3.at, ReadFrames(d, r3.at), ReadFrames(e, r3.at))
      BY <2>1, FramesSame
    <2>3. s3 = r3 => ReadFrames(e, s3.at) = ReadFrames(e, r3.at)
      OBVIOUS
    <2> QED
      BY <1>4, <2>2, <2>3, FieldSame
  <1>6. /\ ReadThread(d, at) = Read(r4.at, [name |-> r4.val[1], frames |-> r4.val[4]])
        /\ ReadThread(e, at) = Read(s4.at, [name |-> s4.val[1], frames |-> s4.val[4]])
    BY DEF ReadThread, Then, ReadPair
  <1> HIDE DEF r4, s4
  <1> QED
    BY <1>5, <1>6, ReadIs DEF Same

(* The threads.                                                            *)
LEMMA ThreadsSame ==
    ASSUME NEW d, NEW e, Begins(d, e), NEW at \in Spots(d)
    PROVE  Same(d, at, ReadThreads(d, at), ReadThreads(e, at))
  <1> DEFINE f == [p \in 0..Len(d) + 1 |-> ReadThread(d, p)]
             g == [p \in 0..Len(e) + 1 |-> ReadThread(e, p)]
  <1>1. ASSUME NEW p \in Spots(d) PROVE Same(d, p, f[p], g[p])
    <2>1. f[p] = ReadThread(d, p) /\ g[p] = ReadThread(e, p)
      BY SpotsOf
    <2> QED
      BY <2>1, ThreadSame
  <1>2. /\ ReadThreads(d, at) = Items(f, ReadU32(d, at))
        /\ ReadThreads(e, at) = Items(g, ReadU32(e, at))
    BY DEF ReadThreads, ReadSeq, ReadItems
  <1> HIDE DEF f, g
  <1> QED
    BY <1>1, <1>2, SeqSame

(* The header as far as the common types.                                  *)
LEMMA HeaderSame ==
    ASSUME NEW d, NEW e, Begins(d, e), NEW at \in Spots(d)
    PROVE  Same(d, at, HeaderFrom(d, at), HeaderFrom(e, at))
  <1> DEFINE r0 == Start(at)
             s0 == Start(at)
             r1 == With(r0, ReadU64(d, r0.at))
             s1 == With(s0, ReadU64(e, s0.at))
             r2 == With(r1, ReadU32(d, r1.at))
             s2 == With(s1, ReadU32(e, s1.at))
             r3 == With(r2, ReadLongString(d, r2.at))
             s3 == With(s2, ReadLongString(e, s2.at))
             r4 == With(r3, ReadU64(d, r3.at))
             s4 == With(s3, ReadU64(e, s3.at))
             r5 == With(r4, ReadNames(d, r4.at))
             s5 == With(s4, ReadNames(e, s4.at))
             r6 == With(r5, ReadThreads(d, r5.at))
             s6 == With(s5, ReadThreads(e, s5.at))
             r7 == With(r6, ReadStrings(d, r6.at))
             s7 == With(s6, ReadStrings(e, s6.at))
  <1>1. Same(d, at, r0, s0)
    BY StartSame
  <1>2. Same(d, at, r1, s1)
    <2> HIDE DEF r0, s0
    <2>1. r0.at \in Spots(d)
      BY <1>1 DEF Same, Spots
    <2>2. Same(d, r0.at, ReadU64(d, r0.at), ReadU64(e, r0.at))
      BY <2>1, U64Same
    <2>3. s0 = r0 => ReadU64(e, s0.at) = ReadU64(e, r0.at)
      OBVIOUS
    <2> QED
      BY <1>1, <2>2, <2>3, FieldSame
  <1>3. Same(d, at, r2, s2)
    <2> HIDE DEF r1, s1
    <2>1. r1.at \in Spots(d)
      BY <1>2 DEF Same, Spots
    <2>2. Same(d, r1.at, ReadU32(d, r1.at), ReadU32(e, r1.at))
      BY <2>1, U32Same
    <2>3. s1 = r1 => ReadU32(e, s1.at) = ReadU32(e, r1.at)
      OBVIOUS
    <2> QED
      BY <1>2, <2>2, <2>3, FieldSame
  <1>4. Same(d, at, r3, s3)
    <2> HIDE DEF r2, s2
    <2>1. r2.at \in Spots(d)
      BY <1>3 DEF Same, Spots
    <2>2. Same(d, r2.at, ReadLongString(d, r2.at), ReadLongString(e, r2.at))
      BY <2>1, LongStringSame
    <2>3. s2 = r2 => ReadLongString(e, s2.at) = ReadLongString(e, r2.at)
      OBVIOUS
    <2> QED
      BY <1>3, <2>2, <2>3, FieldSame
  <1>5. Same(d, at, r4, s4)
    <2> HIDE DEF r3, s3
    <2>1. r3.at \in Spots(d)
      BY <1>4 DEF Same, Spots
    <2>2. Same(d, r3.at, ReadU64(d, r3.at), ReadU64(e, r3.at))
      BY <2>1, U64Same
    <2>3. s3 = r3 => ReadU64(e, s3.at) = ReadU64(e, r3.at)
      OBVIOUS
    <2> QED
      BY <1>4, <2>2, <2>3, FieldSame
  <1>6. Same(d, at, r5, s5)
    <2> HIDE DEF r4, s4
    <2>1. r4.at \in Spots(d)
      BY <1>5 DEF Same, Spots
    <2>2. Same(d, r4.at, ReadNames(d, r4.at), ReadNames(e, r4.at))
      BY <2>1, NamesSame
    <2>3. s4 = r4 => ReadNames(e, s4.at) = ReadNames(e, r4.at)
      OBVIOUS
    <2> QED
      BY <1>5, <2>2, <2>3, FieldSame
  <1>7. Same(d, at, r6, s6)
    <2> HIDE DEF r5, s5
    <2>1. r5.at \in Spots(d)
      BY <1>6 DEF Same, Spots
    <2>2. Same(d, r5.at, ReadThreads(d, r5.at), ReadThreads(e, r5.at))
      BY <2>1, ThreadsSame
    <2>3. s5 = r5 => ReadThreads(e, s5.at) = ReadThreads(e, r5.at)
      OBVIOUS
    <2> QED
      BY <1>6, <2>2, <2>3, FieldSame
  <1>8. Same(d, at, r7, s7)
    <2> HIDE DEF r6, s6
    <2>1. r6.at \in Spots(d)
      BY <1>7 DEF Same, Spots
    <2>2. Same(d, r6.at, ReadStrings(d, r6.at), ReadStrings(e, r6.at))
      BY <2>1, StringsSame
    <2>3. s6 = r6 => ReadStrings(e, s6.at) = ReadStrings(e, r6.at)
      OBVIOUS
    <2> QED
      BY <1>7, <2>2, <2>3, FieldSame
  <1>9. HeaderFrom(d, at) = r7 /\ HeaderFrom(e, at) = s7
    BY DEF HeaderFrom, Then, ReadPair
  <1> HIDE DEF r7, s7
  <1> QED
    BY <1>8, <1>9

-----------------------------------------------------------------------------
(* A document whose writer did not finish is refused.                      *)

(* Behind the end of the document nothing is read.                         *)
LEMMA EndedReads ==
    ASSUME NEW d, NEW x, x \notin DOMAIN d
    PROVE  /\ ReadU32(d, x) = Truncated /\ ReadU64(d, x) = Truncated
           /\ \A item : Items(item, ReadU32(d, x)) = Truncated
           /\ ReadTypes(d, x) = Truncated /\ Truncated.at = 0
  <1>1. ReadU32(d, x) = Truncated /\ ReadU64(d, x) = Truncated
    BY DEF ReadU32, ReadU64
  <1>2. Truncated.at = 0
    BY DEF Truncated, Read
  <1>3. \A item : Items(item, Truncated) = Truncated
    BY <1>2 DEF Items
  <1>4. ReadTypes(d, x) = Truncated
    BY <1>1, <1>3 DEF ReadTypes, ReadSeq, ReadItems
  <1> QED
    BY <1>1, <1>2, <1>3, <1>4

(* Positions count from 1, and the last is the length.                     *)
LEMMA NoWordZero ==
    ASSUME NEW d \in Words
    PROVE  0 \notin DOMAIN d /\ Len(d) + 1 \notin DOMAIN d /\ Len(d) + 1 # 0 /\ Len(d) \in Nat
           /\ DOMAIN d = 1..Len(d)
  BY DEF Words

(* A footer elsewhere than at the end, or of another value.                *)
LEMMA FooterNeeded ==
    ASSUME NEW d, NEW at, NEW f, at # Len(d) + 1 \/ f[11] # MagicU64
    PROVE  Accepted(d, at, f) = Refused
  BY DEF Accepted, FooterFits, Read

(* A field more moves the position.                                        *)
LEMMA WithIs == ASSUME NEW r, NEW f PROVE With(r, f).at = f.at
  BY DEF With, Read

(* The writer stopped after the number of objects was patched: in the type *)
(* table or in the footer.                                                 *)
LEMMA PatchedRefused ==
    ASSUME NEW h, IsHeap(h), NEW d, Begins(d, Finished(h)), Len(d) < Len(Finished(h)),
           WrittenAt(d, 1, UpToObjects(h))
    PROVE  HeapRead(d) = Refused
  <1> DEFINE e == Finished(h)
             U == UpToObjects(h)
             T == Fields(h)
             p == 1 + Len(U)
             q == TypesEnd(h)
             r == Partial(p, T, 9)
             t == ReadTypes(d, p)
             s == With(With(r, t), ReadU64(d, With(r, t).at))
  <1>1. d \in Words /\ e \in Words /\ U \in Words
    BY HeadParts DEF Begins
  <1>2. IsSeq(T) /\ Len(T) = 11 /\ HeadFields(h, T) /\ T[9] = ObjectsMeaning(h)
    BY FieldsAre
  <1>3. ReadTypes(e, p) = Read(q, TypesMeaning(h.types)) /\ Len(e) + 1 = q + 2
    BY FinishedParts
  <1>4. p \in Spots(d) /\ p # 0
    <2>1. Len(U) \in Nat /\ Len(d) \in Nat
      BY <1>1, NoWordZero
    <2>2. 1 + Len(U) <= Len(d) + 1
      BY DEF WrittenAt
    <2> QED
      BY <2>1, <2>2 DEF Spots
  <1>5. Same(d, p, t, ReadTypes(e, p))
    BY <1>4, TypesSame
  <1>6. HeapRead(d) = Accepted(d, s.at, s.val)
    <2>1. Len(T) >= 9 /\ WrittenAt(d, 1, UpToObjects(h)) /\ p = 1 + Len(UpToObjects(h))
      BY <1>2
    <2> HIDE DEF p, T
    <2>2. r = Partial(p, T, 9)
      OBVIOUS
    <2> HIDE DEF r
    <2> QED
      BY <1>1, <1>2, <2>1, <2>2, BodyIsRead
  <1> HIDE DEF p, q, T, U, e, r, t
  <1>7. With(r, t).at = t.at
    BY WithIs
  <1>8. s.at = ReadU64(d, t.at).at
    BY <1>7, WithIs
  <1>9. ReadU64(d, t.at) = Truncated
    <2>1. CASE t.at = 0
      BY <1>1, <2>1, NoWordZero, EndedReads
    <2>2. CASE t.at # 0
      <3>1. t.at = q
        BY <1>3, <1>5, <2>2, ReadIs DEF Same
      <3>2. q + 1 = Len(e) /\ Len(d) \in Nat /\ Len(e) \in Nat /\ Len(d) < Len(e)
        <4>1. Len(d) \in Nat /\ Len(e) \in Nat
          BY <1>1, NoWordZero
        <4>2. q \in Nat
          BY <1>5, <3>1, <4>1 DEF Same
        <4> QED
          BY <1>3, <4>1, <4>2 DEF e
      <3>3. q + 1 \notin DOMAIN d
        BY <1>1, <3>2 DEF Words
      <3> QED
        BY <3>1, <3>3 DEF ReadU64
    <2> QED
      BY <2>1, <2>2
  <1>10. s.at = 0 /\ s.at # Len(d) + 1
    <2>1. s.at = 0
      BY <1>8, <1>9 DEF Truncated, Read
    <2> QED
      BY <1>1, <2>1, NoWordZero
  <1> HIDE DEF s
  <1> QED
    BY <1>6, <1>10, FooterNeeded

(* The writer stopped in the header or in the threads.                     *)
LEMMA HeaderRefused ==
    ASSUME NEW h, IsHeap(h), NEW d, Begins(d, HeadWords(h)), Len(d) < Len(HeadWords(h))
    PROVE  HeapRead(d) = Refused
  <1> DEFINE e == HeadWords(h)
             T == Fields(h)
             x == HeaderFrom(d, 1).at
             at == 1
             r == ReadCommonTypes(d, HeaderFrom(d, 1))
  <1>1. d \in Words /\ e \in Words
    BY HeadParts DEF Begins
  <1>2. IsSeq(T) /\ Len(T) >= 8 /\ HeadFields(h, T)
    BY FieldsAre
  <1>3. WrittenAt(e, 1, HeadWords(h))
    BY <1>1, AllOfIt
  <1>4. 1 + Len(e) = HeaderFrom(e, 1).at + 1
    <2>1. at + Len(HeadWords(h)) = HeaderFrom(e, at).at + 1
      <3>1. WrittenAt(e, at, HeadWords(h))
        BY <1>3
      <3> HIDE DEF at, T, e
      <3> QED
        BY <1>1, <1>2, <3>1, HeadFromIsRead
    <2> QED
      BY <2>1
  <1>5. at \in Spots(d) /\ Len(d) \in Nat /\ Len(e) \in Nat
    BY <1>1 DEF Spots, Words
  <1>6. Same(d, at, HeaderFrom(d, at), HeaderFrom(e, at))
    <2> HIDE DEF at
    <2> QED
      BY <1>5, HeaderSame
  <1>7. x \notin DOMAIN d
    <2>1. CASE x = 0
      BY <1>1, <2>1, NoWordZero
    <2>2. CASE x # 0
      <3>1. x = HeaderFrom(e, 1).at /\ x \in 0..Len(d) + 1
        BY <1>6, <2>2 DEF Same
      <3>2. x = Len(e)
        BY <1>4, <1>5, <3>1
      <3>3. ~(x <= Len(d))
        BY <1>5, <3>2
      <3> QED
        BY <1>1, <3>3, NoWordZero
    <2> QED
      BY <2>1, <2>2
  <1>8. r.at = 0
    <2>1. \A item : Items(item, ReadU32(d, x)) = Truncated /\ Truncated.at = 0
      BY <1>7, EndedReads
    <2> DEFINE y == HeaderFrom(d, 1)
    <2>2. \A item : Items(item, ReadU32(d, y.at)) = Truncated
      BY <2>1
    <2> HIDE DEF y
    <2>3. ReadCommonTypes(d, y) = With(y, Truncated)
      BY <2>2 DEF ReadCommonTypes, Then, ReadSeq, ReadItems
    <2>4. ReadCommonTypes(d, y).at = 0
      BY <2>1, <2>3, WithIs
    <2> QED
      BY <2>4 DEF y
  <1>9. ReadHeader(d) = HeaderFrom(d, 1)
    BY DEF ReadHeader, HeaderFrom
  <1>10. ~(ReadCommonTypes(d, ReadHeader(d)).at > 0)
    BY <1>8, <1>9
  <1> QED
    BY <1>10, Zenon DEF HeapRead

(* What a field adds is its position and its value.                        *)
LEMMA WithRead == ASSUME NEW r, NEW f PROVE With(r, f) = With(r, Read(f.at, f.val))
  BY DEF With, Read

(* The last three fields.                                                  *)
LEMMA LastFields ==
    ASSUME NEW T, IsSeq(T), Len(T) = 11, NEW q, NEW o, NEW t, NEW f,
           T[9] = o.val, T[10] = t.val, T[11] = f.val
    PROVE  /\ Partial(q, T, 8).at = q /\ With(Partial(q, T, 8), o) = Partial(o.at, T, 9)
           /\ Partial(o.at, T, 9).at = o.at /\ With(Partial(o.at, T, 9), t) = Partial(t.at, T, 10)
           /\ Partial(t.at, T, 10).at = t.at /\ With(Partial(t.at, T, 10), f) = Read(f.at, T)
  <1>1. With(Partial(q, T, 8), o) = Partial(o.at, T, 9)
    <2>1. 8 \in Nat /\ 8 + 1 <= Len(T) /\ 8 + 1 = 9
      OBVIOUS
    <2>2. With(Partial(q, T, 8), Read(o.at, T[8 + 1])) = Partial(o.at, T, 8 + 1)
      BY <2>1, Filled
    <2>3. With(Partial(q, T, 8), o) = With(Partial(q, T, 8), Read(o.at, o.val))
      BY WithRead
    <2> QED
      BY <2>1, <2>2, <2>3, Zenon
  <1>2. With(Partial(o.at, T, 9), t) = Partial(t.at, T, 10)
    <2>1. 9 \in Nat /\ 9 + 1 <= Len(T) /\ 9 + 1 = 10
      OBVIOUS
    <2>2. With(Partial(o.at, T, 9), Read(t.at, T[9 + 1])) = Partial(t.at, T, 9 + 1)
      BY <2>1, Filled
    <2>3. With(Partial(o.at, T, 9), t) = With(Partial(o.at, T, 9), Read(t.at, t.val))
      BY WithRead
    <2> QED
      BY <2>1, <2>2, <2>3, Zenon
  <1>3. With(Partial(t.at, T, 10), f) = Partial(f.at, T, 11)
    <2>1. 10 \in Nat /\ 10 + 1 <= Len(T) /\ 10 + 1 = 11
      OBVIOUS
    <2>2. With(Partial(t.at, T, 10), Read(f.at, T[10 + 1])) = Partial(f.at, T, 10 + 1)
      BY <2>1, Filled
    <2>3. With(Partial(t.at, T, 10), f) = With(Partial(t.at, T, 10), Read(f.at, f.val))
      BY WithRead
    <2> QED
      BY <2>1, <2>2, <2>3, Zenon
  <1>4. Partial(f.at, T, 11) = Read(f.at, T)
    BY AllFilled
  <1> QED
    BY <1>1, <1>2, <1>3, <1>4, PartialAt

(* Behind the header, when no object is read.                              *)
LEMMA NoObjectRead ==
    ASSUME NEW d \in Words, NEW h, IsHeap(h), WrittenAt(d, 1, HeadWords(h)),
           NEW q, q = 1 + Len(HeadWords(h)), NEW o, \A item : Items(item, ReadU32(d, q)) = o,
           NEW t, t = ReadTypes(d, o.at), NEW f, f = ReadU64(d, t.at),
           NEW T, T = FieldsWith(h, o.val, t.val, f.val)
    PROVE  HeapRead(d) = Accepted(d, f.at, T)
  <1> DEFINE head == Partial(q, T, 8)
             r9 == Partial(o.at, T, 9)
             r10 == Partial(t.at, T, 10)
             r11 == Read(f.at, T)
  <1>1. /\ IsSeq(T) /\ Len(T) = 11 /\ HeadFields(h, T) /\ T[9] = o.val /\ T[10] = t.val
        /\ T[11] = f.val
    BY FieldsWithAre
  <1>2. ReadCommonTypes(d, ReadHeader(d)) = head
    <2>1. Len(T) >= 8
      BY <1>1
    <2> QED
      BY <1>1, <2>1, HeadIsRead
  <1>3. /\ head.at = q /\ r9.at = o.at /\ r10.at = t.at
        /\ With(head, o) = r9 /\ With(r9, t) = r10 /\ With(r10, f) = r11
    <2> HIDE DEF head, r9, r10, r11
    <2> QED
      BY <1>1, LastFields DEF head, r9, r10, r11
  <1>7. q > 0
    <2>1. HeadWords(h) \in Words
      BY HeadParts
    <2> QED
      BY <2>1, NoWordZero
  <1>8. /\ head.val[1] = MagicU64 /\ head.val[2] = FormatVersion
        /\ head.val[5] = NamesMeaning(KnownNames(h))
    <2>1. 8 \in Nat /\ 8 <= Len(T)
      BY <1>1
    <2>2. \A i \in 1..8 : head.val[i] = T[i]
      BY <1>1, <2>1, FilledVal
    <2> QED
      BY <1>1, <2>2 DEF HeadFields
  <1>9. {ListName, DictName} \subseteq DOMAIN MapOf(head.val[5])
    BY <1>8, KnownIsRead
  <1> HIDE DEF head, r9, r10, r11
  <1>10. ReadObjects(d, head) = r11
    <2>1. ReadObjects(d, head)
            = LET s == With(head, Items([x \in 0..Len(d) + 1 |->
                                ReadObject(d, x, MapOf(head.val[5]), head.val[4][2] % 2 = 1,
                                           head.val[7], {x1[1] : x1 \in ToSet(head.val[8])})],
                                ReadU32(d, head.at)))
              IN  With(With(s, ReadTypes(d, s.at)), ReadU64(d, With(s, ReadTypes(d, s.at)).at))
      BY DEF ReadObjects, Then, ReadSeq, ReadItems
    <2> QED
      BY <1>3, <2>1, Zenon
  <1>11. HeapRead(d) = Accepted(d, r11.at, r11.val)
    BY <1>2, <1>3, <1>7, <1>8, <1>9, <1>10, Zenon DEF HeapRead
  <1>12. r11.at = f.at /\ r11.val = T
    BY ReadIs DEF r11
  <1> QED
    BY <1>11, <1>12

(* The writer stopped before the number of objects.                        *)
LEMMA UncountedRefused ==
    ASSUME NEW h, IsHeap(h), NEW d \in Words, WrittenAt(d, 1, HeadWords(h)),
           Len(d) = Len(HeadWords(h))
    PROVE  HeapRead(d) = Refused
  <1> DEFINE q == 1 + Len(HeadWords(h))
             o == Truncated
             t == ReadTypes(d, o.at)
             f == ReadU64(d, t.at)
             T == FieldsWith(h, o.val, t.val, f.val)
  <1>1. q \notin DOMAIN d /\ 0 \notin DOMAIN d /\ Len(d) + 1 # 0
    BY NoWordZero
  <1>2. (\A item : Items(item, ReadU32(d, q)) = o) /\ o.at = 0
    BY <1>1, EndedReads
  <1>3. HeapRead(d) = Accepted(d, f.at, T)
    <2> HIDE DEF q, o
    <2>1. q = 1 + Len(HeadWords(h))
      BY DEF q
    <2> HIDE DEF t
    <2>2. t = ReadTypes(d, o.at)
      BY DEF t
    <2> HIDE DEF f
    <2>3. f = ReadU64(d, t.at)
      BY DEF f
    <2> HIDE DEF T
    <2>4. T = FieldsWith(h, o.val, t.val, f.val)
      BY DEF T
    <2> QED
      BY <1>2, <2>1, <2>2, <2>3, <2>4, NoObjectRead
  <1>4. t.at = 0
    BY <1>1, <1>2, EndedReads
  <1>5. f.at = 0
    BY <1>1, <1>4, EndedReads
  <1> HIDE DEF f, T
  <1> QED
    BY <1>1, <1>3, <1>5, FooterNeeded

(* Unpatched, with a part of the body or none: the number of objects is 0, *)
(* and what stands there is read as the type table and the footer.         *)
LEMMA UnpatchedIsRead ==
    ASSUME NEW h, IsHeap(h), NEW d \in Words, WrittenAt(d, 1, HeadWords(h) \o << 0 >>),
           NEW p, p = 1 + Len(HeadWords(h) \o << 0 >>),
           NEW t, t = ReadTypes(d, p), NEW f, f = ReadU64(d, t.at),
           ~(f.at = Len(d) + 1 /\ f.val = MagicU64)
    PROVE  HeapRead(d) = Refused
  <1> DEFINE q == 1 + Len(HeadWords(h))
             o == Read(p, <<>>)
             T == FieldsWith(h, o.val, t.val, f.val)
  <1>1. HeadWords(h) \in Words /\ << 0 >> \in Words
    BY HeadParts, OneWord
  <1>2. WrittenAt(d, 1, HeadWords(h)) /\ WrittenAt(d, q, << 0 >>) /\ p = q + Len(<< 0 >>)
    BY <1>1, Joint
  <1>3. \A item : Items(item, ReadU32(d, q)) = o
    <2> HIDE DEF q
    <2> QED
      BY <1>2, EmptyIsRead
  <1>4. o.at = p
    BY ReadIs
  <1>5. HeapRead(d) = Accepted(d, f.at, T)
    <2> HIDE DEF q, o
    <2>1. q = 1 + Len(HeadWords(h))
      BY DEF q
    <2>2. t = ReadTypes(d, o.at)
      BY <1>4
    <2> HIDE DEF T
    <2>4. T = FieldsWith(h, o.val, t.val, f.val)
      BY DEF T
    <2> QED
      BY <1>2, <1>3, <2>1, <2>2, <2>4, NoObjectRead
  <1>6. T[11] = f.val
    BY FieldsWithAre
  <1> HIDE DEF T
  <1> QED
    BY <1>5, <1>6, FooterNeeded

(* The beginning of a document.                                            *)
LEMMA BeginsWith ==
    ASSUME NEW e \in Words, NEW n \in 0..Len(e), NEW d, d = SubSeq(e, 1, n)
    PROVE  Begins(d, e) /\ d \in Words /\ Len(d) = n
  <1>1. Len(e) \in Nat /\ n \in Nat /\ n <= Len(e)
    BY NoWordZero
  <1>2. d \in Words /\ Len(d) = n
    BY <1>1 DEF Words
  <1>3. \A i \in 1..n : d[i] = e[i]
    BY <1>1 DEF Words
  <1> QED
    BY <1>1, <1>2, <1>3 DEF Begins

(* The beginning of a document holds what stands in it to the end.         *)
LEMMA BeginHolds ==
    ASSUME NEW d, NEW e, Begins(d, e), NEW at, NEW w \in Words, WrittenAt(e, at, w),
           at + Len(w) <= Len(d) + 1
    PROVE  WrittenAt(d, at, w)
  <1>1. Len(d) \in Nat /\ Len(w) \in Nat /\ at \in Nat /\ at > 0
    BY DEF Begins, Words, WrittenAt
  <1>2. ASSUME NEW i \in 1..Len(w) PROVE d[at + i - 1] = w[i]
    <2>1. at + i - 1 \in 1..Len(d)
      BY <1>1
    <2>2. e[at + i - 1] = d[at + i - 1]
      BY <2>1 DEF Begins
    <2> QED
      BY <2>2 DEF WrittenAt
  <1> QED
    BY <1>1, <1>2 DEF WrittenAt

(* The beginning of a document is one of its first part, if that is longer.*)
LEMMA BeginsPart ==
    ASSUME NEW d, NEW e, Begins(d, e), NEW w \in Words, WrittenAt(e, 1, w), Len(d) <= Len(w)
    PROVE  Begins(d, w)
  <1>1. Len(d) \in Nat /\ Len(w) \in Nat /\ d \in Words
    BY DEF Begins, Words
  <1>2. ASSUME NEW i \in 1..Len(d) PROVE w[i] = d[i]
    <2>1. i \in 1..Len(w) /\ 1 + i - 1 = i
      BY <1>1
    <2>2. e[1 + i - 1] = w[i]
      BY <2>1 DEF WrittenAt
    <2>3. e[i] = d[i]
      BY DEF Begins
    <2> QED
      BY <2>1, <2>2, <2>3
  <1> QED
    BY <1>1, <1>2 DEF Begins

(* The first words of the body are the address of the first object.        *)
LEMMA BodyFirst ==
    ASSUME NEW h, IsHeap(h), Len(h.objects) > 0
    PROVE  WrittenAt(Body(h), 1, h.objects[1].addr) /\ h.objects[1].addr \in U64
  <1> DEFINE ws == ObjectWords(h)
             B == Body(h)
             o == h.objects[1]
  <1>1. ws \in Seq(Words) /\ Len(ws) = Len(h.objects) /\ B \in Words /\ 1 \in 1..Len(ws)
        /\ 1 \in DOMAIN h.objects
    <2>1. Len(h.objects) \in Nat /\ DOMAIN h.objects = 1..Len(h.objects)
      BY DEF IsHeap
    <2> QED
      BY <2>1, ObjectWordsType, HeadParts
  <1>2. B = FlattenSeq(ws)
    BY DEF Body, ObjectWords
  <1>3. ws[1] = WriteObject(h, o) /\ IsObject(o, h.known)
    BY <1>1 DEF ObjectWords, IsHeap
  <1> HIDE DEF ws, B, o
  <1>4. WrittenAt(B, 1, ws[1])
    <2> DEFINE at == 1
    <2>1. WrittenAt(B, at, FlattenSeq(ws))
      BY <1>1, <1>2, AllOfIt
    <2> HIDE DEF at
    <2>2. PICK pos : Laid(B, ws, pos) /\ pos[0] = at
      BY <1>1, <2>1, FlatLaid
    <2>3. WrittenAt(B, pos[1 - 1], ws[1]) /\ 1 - 1 = 0
      BY <1>1, <2>2 DEF Laid
    <2> QED
      BY <2>2, <2>3 DEF at
  <1> DEFINE w1 == o.addr
             w2 == o.type
             w3 == <<Clamp(o.size)>>
             w4 == ContentWords(o)
             w5 == WriteSeq(Sorted(o.refs \ ContentOf(o)), WriteU64)
             w6 == WriteSeq(o.attributes, WriteAttribute)
             w7 == ReprWords(h, o)
  <1>5. /\ w1 \in U64 /\ w2 \in U64 /\ Clamp(o.size) \in Nat /\ w4 \in Words /\ w7 \in Words
        /\ o.attributes \in Seq(Named) /\ Sorted(o.refs \ ContentOf(o)) \in Seq(U64)
    BY <1>3, ObjectParts
  <1>6. w1 \in Words /\ w2 \in Words /\ w3 \in Words /\ w5 \in Words /\ w6 \in Words
    BY <1>5, OneWord, AddressesType, AttributesType DEF U64
  <1>7. WriteObject(h, o) = w1 \o w2 \o w3 \o w4 \o w5 \o w6 \o w7
    BY DEF WriteObject, ContentWords, ReprWords, HasRepr
  <1>8. WrittenAt(B, 1, w1 \o w2 \o w3 \o w4 \o w5 \o w6 \o w7)
    BY <1>3, <1>4, <1>7
  <1> HIDE DEF w1, w2, w3, w4, w5, w6, w7
  <1>9. \A u, v \in Words : u \o v \in Words /\ (WrittenAt(B, 1, u \o v) => WrittenAt(B, 1, u))
    BY <1>1, Joint DEF Words
  <1>10. WrittenAt(B, 1, w1)
    BY <1>5, <1>6, <1>8, <1>9
  <1> QED
    BY <1>5, <1>10 DEF w1, B, o

(* A footer that is read at the end stands there.                          *)
LEMMA FooterStands ==
    ASSUME NEW d \in Words, NEW x, NEW f, f = ReadU64(d, x), f.at = Len(d) + 1, f.val = MagicU64
    PROVE  SubSeq(d, Len(d) - 1, Len(d)) = MagicU64
  <1>1. Len(d) \in Nat /\ DOMAIN d = 1..Len(d) /\ MagicU64 \in Words /\ Len(MagicU64) = 2
    BY NoWordZero, MagicType
  <1>2. CASE x \in DOMAIN d /\ x + 1 \in DOMAIN d
    <2>1. f = Read(x + 2, <<d[x], d[x + 1]>>)
      BY <1>2 DEF ReadU64
    <2>2. x + 2 = Len(d) + 1 /\ MagicU64 = <<d[x], d[x + 1]>>
      BY <2>1, ReadIs
    <2>3. x \in Nat /\ x > 0 /\ x = Len(d) - 1 /\ x + 2 - 1 = Len(d)
      BY <1>1, <1>2, <2>2
    <2>4. MagicU64[1] = d[x] /\ MagicU64[2] = d[x + 1]
      BY <2>2
    <2>5. ASSUME NEW i \in 1..Len(MagicU64) PROVE d[x + i - 1] = MagicU64[i]
      <3>1. i = 1 \/ i = 2
        BY <1>1
      <3>2. x + 1 - 1 = x /\ x + 2 - 1 = x + 1
        BY <2>3
      <3> QED
        BY <2>4, <3>1, <3>2
    <2>6. WrittenAt(d, x, MagicU64)
      BY <1>1, <2>2, <2>3, <2>5 DEF WrittenAt
    <2>7. SubSeq(d, x, x + Len(MagicU64) - 1) = MagicU64
      BY <1>1, <2>6, WrittenSub
    <2> QED
      BY <1>1, <2>3, <2>7
  <1>3. CASE ~(x \in DOMAIN d /\ x + 1 \in DOMAIN d)
    <2>1. f = Truncated
      BY <1>3 DEF ReadU64
    <2> QED
      BY <1>1, <2>1 DEF Truncated, Read
  <1> QED
    BY <1>2, <1>3

(* Unpatched, and not ended by the magic value.                            *)
LEMMA UnpatchedRefused ==
    ASSUME NEW h, IsHeap(h), NEW d \in Words, WrittenAt(d, 1, HeadWords(h) \o << 0 >>),
           Len(d) > Len(HeadWords(h) \o << 0 >>), ~Validated(d)
    PROVE  HeapRead(d) = Refused
  <1> DEFINE P == HeadWords(h) \o << 0 >>
             p == 1 + Len(P)
             t == ReadTypes(d, p)
             f == ReadU64(d, t.at)
  <1>1. HeadWords(h) \in Words /\ << 0 >> \in Words /\ MagicU64 \in Words /\ Len(MagicU64) = 2
        /\ P \in Words /\ Len(P) = Len(HeadWords(h)) + 1
    <2>1. HeadWords(h) \in Words /\ << 0 >> \in Words /\ Len(<< 0 >>) = 1
      BY HeadParts, OneWord
    <2>2. \A u, v \in Words : u \o v \in Words /\ Len(u \o v) = Len(u) + Len(v)
      BY DEF Words
    <2> QED
      BY <2>1, <2>2, MagicType
  <1>2. WrittenAt(d, 1, HeadWords(h))
    BY <1>1, Joint
  <1>3. WrittenAt(d, 1, MagicU64)
    BY <1>2, MagicFirst
  <1>4. SubSeq(d, 1, 2) = MagicU64
    <2>1. SubSeq(d, 1, 1 + Len(MagicU64) - 1) = MagicU64
      BY <1>1, <1>3, WrittenSub
    <2>2. 1 + Len(MagicU64) - 1 = 2
      BY <1>1
    <2> QED
      BY <2>1, <2>2
  <1>5. Len(d) >= 4
    <2>1. WrittenAt(HeadWords(h), 1, HeadWords(h))
      BY <1>1, AllOfIt
    <2>2. WrittenAt(HeadWords(h), 1, MagicU64)
      BY <1>1, <2>1, MagicFirst
    <2>3. 1 + 2 <= Len(HeadWords(h)) + 1
      BY <1>1, <2>2 DEF WrittenAt
    <2>4. Len(HeadWords(h)) \in Nat /\ Len(d) \in Nat /\ Len(d) > Len(HeadWords(h)) + 1
      BY <1>1, NoWordZero
    <2> QED
      BY <2>3, <2>4
  <1>6. ~(f.at = Len(d) + 1 /\ f.val = MagicU64)
    <2> SUFFICES ASSUME f.at = Len(d) + 1 /\ f.val = MagicU64 PROVE FALSE
      OBVIOUS
    <2> HIDE DEF t
    <2>1. SubSeq(d, Len(d) - 1, Len(d)) = MagicU64
      BY FooterStands
    <2> QED
      BY <1>4, <1>5, <2>1 DEF Validated
  <1> HIDE DEF p, f, t
  <1>7. p = 1 + Len(HeadWords(h) \o << 0 >>) /\ t = ReadTypes(d, p) /\ f = ReadU64(d, t.at)
    BY DEF p, t, f
  <1> QED
    BY <1>6, <1>7, UnpatchedIsRead

(* Unpatched, and the first address is a small number.                     *)
LEMMA LowRefused ==
    ASSUME NEW h, IsHeap(h), NEW d \in Words, WrittenAt(d, 1, HeadWords(h) \o << 0 >>),
           NEW p, p = 1 + Len(HeadWords(h) \o << 0 >>), p \in DOMAIN d, d[p] = 0,
           p + 1 \in DOMAIN d => d[p + 1] # 0
    PROVE  HeapRead(d) = Refused
  <1> DEFINE t == ReadTypes(d, p)
             f == ReadU64(d, t.at)
  <1>1. p \in Nat /\ p > 0 /\ p <= Len(d) /\ Len(d) \in Nat /\ Len(<< 0 >>) = 1 /\ << 0 >>[1] = 0
    BY NoWordZero
  <1>2. WrittenAt(d, p, << 0 >>)
    <2>1. \A i \in 1..1 : d[p + i - 1] = << 0 >>[i]
      BY <1>1
    <2>2. p + Len(<< 0 >>) <= Len(d) + 1
      BY <1>1
    <2> QED
      BY <1>1, <2>1, <2>2 DEF WrittenAt
  <1>3. t = Read(p + Len(<< 0 >>), <<>>)
    BY <1>2, EmptyIsRead DEF ReadTypes, ReadSeq, ReadItems
  <1>4. t.at = p + 1
    BY <1>1, <1>3, ReadIs
  <1>5. ~(f.at = Len(d) + 1 /\ f.val = MagicU64)
    <2>1. CASE p + 1 \in DOMAIN d /\ (p + 1) + 1 \in DOMAIN d
      <3>1. f = Read((p + 1) + 2, <<d[p + 1], d[(p + 1) + 1]>>)
        BY <1>4, <2>1 DEF ReadU64
      <3>2. f.val[1] = d[p + 1]
        BY <3>1, ReadIs
      <3>3. MagicU64[1] = 0
        BY DEF MagicU64
      <3> QED
        BY <2>1, <3>2, <3>3
    <2>2. CASE ~(p + 1 \in DOMAIN d /\ (p + 1) + 1 \in DOMAIN d)
      <3>1. f = Truncated
        BY <1>4, <2>2 DEF ReadU64
      <3>2. f.at = 0
        BY <3>1 DEF Truncated, Read
      <3> QED
        BY <1>1, <3>2
    <2> QED
      BY <2>1, <2>2
  <1> HIDE DEF f, t
  <1>6. t = ReadTypes(d, p) /\ f = ReadU64(d, t.at)
    BY DEF t, f
  <1> QED
    BY <1>5, <1>6, UnpatchedIsRead

(* A document whose writer did not finish is refused, wherever it stopped. *)
LEMMA UnfinishedRefused ==
    ASSUME NEW h, IsHeap(h), ToSet(WellKnownTypeNames) \subseteq DOMAIN h.known,
           NEW d \in Unfinished(h), ~ByChance(h, d)
    PROVE  HeapRead(d) = Refused
  <1> DEFINE H == HeadWords(h)
             P == Preamble(h, 0)
             B == Body(h)
             U == UpToObjects(h)
             e == P \o B
             E == Finished(h)
  <1>1. /\ H \in Words /\ B \in Words /\ U \in Words /\ E \in Words /\ << 0 >> \in Words
        /\ P = H \o << 0 >>
    BY HeadParts, FinishedIs, PreambleIs, OneWord
  <1>2. /\ P \in Words /\ e \in Words /\ Len(P) = Len(H) + 1 /\ Len(e) = Len(P) + Len(B)
        /\ Len(H) \in Nat /\ Len(B) \in Nat
    <2> HIDE DEF H, P, B
    <2>1. \A u, v \in Words : u \o v \in Words /\ Len(u \o v) = Len(u) + Len(v) /\ Len(u) \in Nat
      BY DEF Words
    <2>2. Len(<< 0 >>) = 1
      OBVIOUS
    <2> QED
      BY <1>1, <2>1, <2>2
  <1>3. Len(U) = Len(e)
    <2>1. Len(Counted(ObjectWords(h))) = 1 + Len(B) /\ Counted(ObjectWords(h)) \in Words
      BY ObjectWordsType, CountedType DEF Body, ObjectWords
    <2>2. Len(U) = Len(H) + Len(Counted(ObjectWords(h)))
      BY <1>1, <2>1 DEF UpToObjects, Words
    <2> QED
      BY <1>2, <2>1, <2>2
  <1>4. \/ \E n \in 0..Len(e) : d = SubSeq(e, 1, n)
        \/ \E n \in Len(e)..Len(E) - 1 : d = SubSeq(E, 1, n)
    BY DEF Unfinished
  <1>5. WrittenAt(e, 1, P) /\ WrittenAt(e, 1, H) /\ WrittenAt(e, 1 + Len(P), B)
    <2> HIDE DEF H, P, B
    <2>1. WrittenAt(e, 1, P \o B)
      BY <1>2, AllOfIt
    <2>2. WrittenAt(e, 1, P) /\ WrittenAt(e, 1 + Len(P), B)
      BY <1>1, <1>2, <2>1, Joint
    <2>3. WrittenAt(e, 1, H)
      BY <1>1, <1>2, <2>2, Joint
    <2> QED
      BY <2>2, <2>3
  <1>6. ASSUME NEW n \in 0..Len(e), d = SubSeq(e, 1, n) PROVE HeapRead(d) = Refused
    <2>1. Begins(d, e) /\ d \in Words /\ Len(d) = n
      <3> HIDE DEF e
      <3> QED
        BY <1>2, <1>6, BeginsWith
    <2>2. n \in Nat
      BY <1>2
    <2> HIDE DEF H, P, B, e
    <2>3. CASE n < Len(H)
      <3>1. Len(d) <= Len(H)
        BY <1>2, <2>1, <2>2, <2>3
      <3>2. Begins(d, H)
        BY <1>1, <1>5, <2>1, <3>1, BeginsPart
      <3> QED
        BY <2>1, <2>3, <3>2, HeaderRefused DEF H
    <2>4. ASSUME n >= Len(H) PROVE WrittenAt(d, 1, H)
      <3>1. 1 + Len(H) <= Len(d) + 1
        BY <1>2, <2>1, <2>2, <2>4
      <3> QED
        BY <1>1, <1>5, <2>1, <3>1, BeginHolds
    <2>5. CASE n = Len(H)
      <3>1. WrittenAt(d, 1, H) /\ Len(d) = Len(H)
        BY <1>2, <2>1, <2>4, <2>5
      <3> QED
        BY <2>1, <3>1, UncountedRefused DEF H
    <2>6. ASSUME n >= Len(P) PROVE WrittenAt(d, 1, HeadWords(h) \o << 0 >>)
      <3>1. 1 + Len(P) <= Len(d) + 1
        BY <1>2, <2>1, <2>2, <2>6
      <3>2. WrittenAt(d, 1, P)
        BY <1>2, <1>5, <2>1, <3>1, BeginHolds
      <3> QED
        BY <1>1, <3>2 DEF H
    <2>7. CASE n = Len(P)
      <3> DEFINE p == 1 + Len(P)
                 t == ReadTypes(d, p)
                 f == ReadU64(d, t.at)
      <3>1. p \notin DOMAIN d /\ 0 \notin DOMAIN d /\ Len(d) + 1 # 0
        BY <1>2, <2>1, <2>7, NoWordZero
      <3>2. t.at = 0
        BY <3>1, EndedReads
      <3>3. f.at = 0
        BY <3>1, <3>2, EndedReads
      <3>4. ~(f.at = Len(d) + 1 /\ f.val = MagicU64)
        BY <3>1, <3>3
      <3>5. WrittenAt(d, 1, HeadWords(h) \o << 0 >>) /\ p = 1 + Len(HeadWords(h) \o << 0 >>)
        BY <1>1, <1>2, <2>6, <2>7 DEF H
      <3> HIDE DEF f, t, p
      <3>6. t = ReadTypes(d, p) /\ f = ReadU64(d, t.at)
        BY DEF f, t
      <3> QED
        BY <2>1, <3>4, <3>5, <3>6, UnpatchedIsRead
    <2>8. CASE n > Len(P)
      <3>1. WrittenAt(d, 1, HeadWords(h) \o << 0 >>)
        BY <1>2, <2>2, <2>6, <2>8
      <3>2. P = HeadWords(h) \o << 0 >>
        BY <1>1 DEF H
      <3>3. d \in Unpatched(h)
        <4>1. n \in Len(P) + 1..Len(e)
          BY <1>2, <2>2, <2>8
        <4> QED
          BY <1>6, <4>1 DEF Unpatched, P, B, e
      <3>4. CASE ~Validated(d)
        <4>1. Len(d) > Len(HeadWords(h) \o << 0 >>)
          BY <2>1, <2>8, <3>2
        <4> QED
          BY <2>1, <3>1, <3>4, <4>1, UnpatchedRefused
      <3>5. CASE LowFirst(h)
        <4> DEFINE a == h.objects[1].addr
                   p == 1 + Len(P)
        <4>1. WrittenAt(B, 1, a) /\ a \in U64 /\ a[1] = 0 /\ a[2] # 0 /\ Len(a) = 2
          BY <3>5, BodyFirst DEF LowFirst, B, U64
        <4> HIDE DEF a
        <4>2. Len(B) >= 2 /\ B[1] = 0 /\ B[2] # 0
          <5>1. 1 + 2 <= Len(B) + 1 /\ B[1 + 1 - 1] = a[1] /\ B[1 + 2 - 1] = a[2]
            BY <4>1 DEF WrittenAt
          <5>2. 1 + 1 - 1 = 1 /\ 1 + 2 - 1 = 2
            OBVIOUS
          <5> QED
            BY <1>2, <4>1, <5>1, <5>2
        <4>3. e[p] = 0 /\ e[p + 1] # 0
          <5>1. e[p + 1 - 1] = B[1] /\ e[p + 2 - 1] = B[2]
            BY <1>2, <1>5, <4>2 DEF WrittenAt
          <5>2. p + 1 - 1 = p /\ p + 2 - 1 = p + 1
            BY <1>2
          <5> QED
            BY <4>2, <5>1, <5>2
        <4>4. p \in 1..Len(d) /\ DOMAIN d = 1..Len(d)
          BY <1>2, <2>1, <2>2, <2>8, NoWordZero
        <4>5. d[p] = 0 /\ (p + 1 \in DOMAIN d => d[p + 1] # 0) /\ p \in DOMAIN d
          BY <2>1, <4>3, <4>4 DEF Begins
        <4>6. p = 1 + Len(HeadWords(h) \o << 0 >>)
          BY <3>2
        <4> HIDE DEF p
        <4> QED
          BY <2>1, <3>1, <4>5, <4>6, LowRefused
      <3> QED
        BY <3>3, <3>4, <3>5 DEF ByChance
    <2> QED
      BY <1>2, <2>2, <2>3, <2>5, <2>7, <2>8
  <1>7. ASSUME NEW n \in Len(e)..Len(E) - 1, d = SubSeq(E, 1, n) PROVE HeapRead(d) = Refused
    <2>1. Len(E) \in Nat /\ Len(e) \in Nat
      BY <1>1, <1>2, NoWordZero
    <2>2. n \in 0..Len(E) /\ n < Len(E) /\ n >= Len(U)
      BY <1>3, <2>1
    <2> HIDE DEF e, E, U
    <2>3. Begins(d, E) /\ d \in Words /\ Len(d) = n
      BY <1>1, <1>7, <2>2, BeginsWith
    <2>4. WrittenAt(E, 1, U)
      BY FinishedParts DEF E, U
    <2>5. 1 + Len(U) <= Len(d) + 1 /\ Len(d) < Len(E)
      BY <1>3, <2>1, <2>2, <2>3
    <2>6. WrittenAt(d, 1, U)
      BY <1>1, <2>3, <2>4, <2>5, BeginHolds
    <2> QED
      BY <2>3, <2>5, <2>6, PatchedRefused DEF E, U
  <1> QED
    BY <1>4, <1>6, <1>7

-----------------------------------------------------------------------------
(* The analyzers: what they have read is a document of the scenario.       *)

(* A document that was finished, and only that, is accepted, for what its  *)
(* writer was given.                                                       *)
LEMMA DocumentIsRead ==
    ASSUME NEW d, IsDocument(d)
    PROVE  /\ d.complete => Validated(d.words) /\ HeapRead(d.words) = Meaning(d.of)
           /\ HeapRead(d.words).accepted <=> d.complete
  <1>1. ASSUME d.complete
        PROVE  /\ Validated(d.words) /\ HeapRead(d.words) = Meaning(d.of)
               /\ HeapRead(d.words).accepted
    <2>1. IsHeap(d.of) /\ d.words = Finished(d.of)
      BY <1>1 DEF IsDocument
    <2>2. Validated(d.words) /\ HeapRead(d.words) = Meaning(d.of)
      BY <2>1, FinishedValid, FinishedIsRead
    <2>3. Meaning(d.of).accepted
      BY DEF Meaning
    <2> QED
      BY <2>2, <2>3
  <1>2. ASSUME ~d.complete PROVE ~HeapRead(d.words).accepted
    <2>1. d.words \in Unfinished(d.of)
      BY <1>2 DEF IsDocument
    <2>2. CASE ToSet(WellKnownTypeNames) \subseteq DOMAIN d.of.known
      <3>1. IsHeap(d.of) /\ ~ByChance(d.of, d.words)
        BY <1>2, <2>2 DEF IsDocument
      <3>2. HeapRead(d.words) = Refused
        BY <2>1, <2>2, <3>1, UnfinishedRefused
      <3> QED
        BY <3>2 DEF Refused
    <2>3. CASE ~(ToSet(WellKnownTypeNames) \subseteq DOMAIN d.of.known)
      <3>1. d.words = <<>>
        BY <2>1, <2>3 DEF Unfinished
      <3> QED
        BY <3>1, EmptyRefused
    <2> QED
      BY <2>2, <2>3
  <1> QED
    BY <1>1, <1>2

(* What an analyzer has read, and why one failed that has read nothing.    *)
FileInv ==
    /\ scenario \in Scenarios
    /\ file \in scenario.documents \cup {None}
    /\ replaced \in Nat /\ (replaced = 0 => file = scenario.first)
HasRead(a) ==
    /\ loaded[a] # None => \E d \in scenario.documents :
          loaded[a] = LoadedOf(d) /\ HeapRead(d.words).accepted
    /\ pc[a] \in Working => loaded[a] # None
    /\ pc[a] = "error" /\ loaded[a] = None /\ replaced = 0 => ~HeapRead(file.words).accepted
ReadInv == FileInv /\ \A a \in Analyzers : HasRead(a)

(* An analyzer that stands still while the artifact does.                  *)
LEMMA HasReadStill ==
    ASSUME NEW b, HasRead(b), pc'[b] = pc[b], loaded'[b] = loaded[b],
           UNCHANGED <<scenario, file, replaced>>
    PROVE  HasRead(b)'
  BY DEF HasRead

(* The two ways reading an artifact ends.                                  *)
LEMMA LoadHeapRead ==
    ASSUME WellWritten, IInv, ReadInv, NEW a \in DOMAIN scenario.jobs, LoadHeap(a)
    PROVE  ReadInv'
  <1>1. a \in Analyzers /\ OwnInv
    BY JobIsAnalyzers DEF IInv
  <1>2. /\ UNCHANGED <<scenario, file, replaced>> /\ HeapThere.accepted
        /\ loaded' = [loaded EXCEPT ![a] = [heap |-> HeapThere,
               words |-> file.words, of |-> file.of, complete |-> file.complete]]
        /\ pc' = [pc EXCEPT ![a] = IF Job(a).command = "summary" THEN "sha256" ELSE "hash"]
    BY DEF LoadHeap, Goes
  <1>3. file # None /\ file \in scenario.documents
    BY <1>2 DEF HeapThere, Refused, ReadInv, FileInv
  <1>4. HeapThere = HeapRead(file.words)
    BY <1>3 DEF HeapThere
  <1>5. loaded'[a] = LoadedOf(file)
    BY <1>1, <1>2, <1>4 DEF LoadedOf, OwnInv
  <1>6. loaded'[a] # None
    BY <1>3, <1>5 DEF WellWritten, IsDocument, ReadInv, FileInv
  <1>7. pc'[a] # "error"
    BY <1>1, <1>2 DEF OwnInv
  <1>8. HasRead(a)'
    BY <1>2, <1>3, <1>4, <1>5, <1>6, <1>7 DEF HasRead, LoadedOf
  <1>9. ASSUME NEW b \in Analyzers, b # a PROVE HasRead(b)'
    <2>1. pc'[b] = pc[b] /\ loaded'[b] = loaded[b]
      BY <1>1, <1>2, <1>9 DEF OwnInv
    <2> QED
      BY <1>2, <2>1, HasReadStill DEF ReadInv
  <1> QED
    BY <1>2, <1>8, <1>9 DEF ReadInv, FileInv

(* An artifact that is refused, before any replacement, is the first one.  *)
LEMMA LoadFailsRead ==
    ASSUME WellWritten, IInv, ReadInv, NEW a \in DOMAIN scenario.jobs, LoadFails(a)
    PROVE  ReadInv'
  <1>1. a \in Analyzers /\ OwnInv
    BY JobIsAnalyzers DEF IInv
  <1>2. /\ UNCHANGED <<scenario, file, replaced, loaded>> /\ ~HeapThere.accepted
        /\ pc' = [pc EXCEPT ![a] = "error"]
    BY DEF LoadFails, Goes
  <1>3. replaced = 0 => file # None
    BY AnalysisAssumption DEF WellWritten, IsDocument, ReadInv, FileInv
  <1>4. replaced = 0 => ~HeapRead(file.words).accepted
    BY <1>2, <1>3 DEF HeapThere
  <1>5. pc'[a] \notin Working
    BY <1>1, <1>2 DEF OwnInv, Working
  <1>6. HasRead(a)'
    BY <1>1, <1>2, <1>4, <1>5 DEF HasRead, ReadInv
  <1>7. ASSUME NEW b \in Analyzers, b # a PROVE HasRead(b)'
    <2>1. pc'[b] = pc[b] /\ loaded'[b] = loaded[b]
      BY <1>1, <1>2, <1>7 DEF OwnInv
    <2> QED
      BY <1>2, <2>1, HasReadStill DEF ReadInv
  <1> QED
    BY <1>2, <1>6, <1>7 DEF ReadInv, FileInv

(* Every other step of an analyzer is one of an analyzer that has read its *)
(* artifact, or its end by a kill.                                         *)
AfterLoad(a) ==
    /\ UNCHANGED <<scenario, file, replaced, loaded>>
    /\ \E to : pc' = [pc EXCEPT ![a] = to] /\ (pc[a] \in Working \/ to = "killed")

(* Such a step keeps what is known about reading.                          *)
LEMMA AfterLoadRead ==
    ASSUME IInv, ReadInv, NEW a \in DOMAIN scenario.jobs, AfterLoad(a)
    PROVE  ReadInv'
  <1>1. a \in Analyzers /\ OwnInv
    BY JobIsAnalyzers DEF IInv
  <1>2. PICK to : pc' = [pc EXCEPT ![a] = to] /\ (pc[a] \in Working \/ to = "killed")
    BY DEF AfterLoad
  <1>3. UNCHANGED <<scenario, file, replaced, loaded>>
    BY DEF AfterLoad
  <1>4. pc'[a] = to
    BY <1>1, <1>2 DEF OwnInv
  <1>5. pc'[a] \in Working \cup {"error"} => loaded[a] # None
    BY <1>1, <1>2, <1>4 DEF ReadInv, HasRead, Working
  <1>6. HasRead(a)'
    BY <1>1, <1>3, <1>5 DEF HasRead, ReadInv
  <1>7. ASSUME NEW b \in Analyzers, b # a PROVE HasRead(b)'
    <2>1. pc'[b] = pc[b] /\ loaded'[b] = loaded[b]
      BY <1>1, <1>2, <1>3, <1>7 DEF OwnInv
    <2> QED
      BY <1>3, <2>1, HasReadStill DEF ReadInv
  <1> QED
    BY <1>3, <1>6, <1>7 DEF ReadInv, FileInv

(* The steps of that kind.                                                 *)
LEMMA AfterLoadSteps ==
    ASSUME NEW a,
           \/ HashForLoad(a) \/ LoadCache(a) \/ CacheMiss(a) \/ Calculate(a) \/ HashForStore(a)
           \/ WriteCache(a) \/ ReplaceCache(a) \/ StoreFails(a) \/ HashForReport(a)
           \/ StatForReport(a) \/ BuildReport(a) \/ Kill(a)
    PROVE  AfterLoad(a)
  <1>1. ASSUME NEW from \in Working, NEW to, Goes(a, from, to), loaded' = loaded
        PROVE  AfterLoad(a)
    BY <1>1 DEF Goes, AfterLoad
  <1>2. CASE HashForLoad(a) \/ HashForStore(a)
    BY <1>1, <1>2 DEF HashForLoad, HashForStore, Working
  <1>3. CASE LoadCache(a) \/ CacheMiss(a)
    BY <1>1, <1>3 DEF LoadCache, CacheMiss, Working
  <1>4. CASE Calculate(a)
    BY <1>1, <1>4 DEF Calculate, Working
  <1>5. CASE WriteCache(a) \/ ReplaceCache(a)
    BY <1>1, <1>5 DEF WriteCache, ReplaceCache, Working
  <1>6. CASE StoreFails(a)
    BY <1>1, <1>6 DEF StoreFails, Working
  <1>7. CASE HashForReport(a) \/ StatForReport(a)
    BY <1>1, <1>7 DEF HashForReport, StatForReport, Working
  <1>8. CASE BuildReport(a)
    BY <1>1, <1>8 DEF BuildReport, Working
  <1>9. CASE Kill(a)
    BY <1>9 DEF Kill, Goes, AfterLoad
  <1> QED
    BY <1>2, <1>3, <1>4, <1>5, <1>6, <1>7, <1>8, <1>9

(* A replaced artifact is another document or none.                        *)
LEMMA ReplaceArtifactRead == ASSUME ReadInv, ReplaceArtifact PROVE ReadInv'
  <1>1. /\ UNCHANGED <<scenario, pc, loaded>> /\ replaced' = replaced + 1
        /\ file' \in scenario.documents \cup {None}
    BY DEF ReplaceArtifact
  <1>2. replaced' \in Nat /\ replaced' # 0
    BY <1>1 DEF ReadInv, FileInv
  <1>3. FileInv'
    BY <1>1, <1>2 DEF ReadInv, FileInv
  <1>4. ASSUME NEW a \in Analyzers PROVE HasRead(a)'
    BY <1>1, <1>2 DEF ReadInv, HasRead
  <1> QED
    BY <1>3, <1>4 DEF ReadInv

(* What was read is a document of the scenario, always.                    *)
LEMMA ReadInvHolds == WellWritten => (Spec => []ReadInv)
  <1> SUFFICES ASSUME WellWritten PROVE Spec => []ReadInv
    OBVIOUS
  <1>1. Init => ReadInv
    <2> SUFFICES ASSUME Init PROVE ReadInv
      OBVIOUS
    <2>1. FileInv
      BY AnalysisAssumption DEF Init, FileInv
    <2>2. ASSUME NEW a \in Analyzers PROVE loaded[a] = None /\ pc[a] \in {"load", "off"}
      BY DEF Init
    <2>3. ASSUME NEW a \in Analyzers PROVE HasRead(a)
      BY <2>2 DEF HasRead, Working
    <2> QED
      BY <2>1, <2>3 DEF ReadInv
  <1>2. IInv /\ ReadInv /\ [Next]_vars => ReadInv'
    <2> SUFFICES ASSUME IInv, ReadInv, [Next]_vars PROVE ReadInv'
      OBVIOUS
    <2>1. ASSUME NEW a \in DOMAIN scenario.jobs, LoadHeap(a) \/ LoadFails(a) PROVE ReadInv'
      BY <2>1, LoadHeapRead, LoadFailsRead
    <2>2. ASSUME NEW a \in DOMAIN scenario.jobs,
                 \/ HashForLoad(a) \/ LoadCache(a) \/ CacheMiss(a) \/ Calculate(a)
                 \/ HashForStore(a) \/ WriteCache(a) \/ ReplaceCache(a) \/ StoreFails(a)
                 \/ HashForReport(a) \/ StatForReport(a) \/ BuildReport(a) \/ Kill(a)
          PROVE  ReadInv'
      BY <2>2, AfterLoadSteps, AfterLoadRead
    <2>3. CASE ReplaceArtifact
      BY <2>3, ReplaceArtifactRead
    <2>4. CASE AllEnded \/ UNCHANGED vars
      <3>1. UNCHANGED <<scenario, file, replaced, pc, loaded>>
        BY <2>4 DEF AllEnded, vars, own
      <3>2. \A a \in Analyzers : HasRead(a)'
        BY <3>1, HasReadStill DEF ReadInv
      <3> QED
        BY <3>1, <3>2 DEF ReadInv, FileInv
    <2> QED
      BY <2>1, <2>2, <2>3, <2>4 DEF Next
  <1> QED
    BY <1>1, <1>2, InvHolds, PTL DEF Spec

(* A document whose writer finished is read as what the writer was given,  *)
(* and is never refused; one whose writer was killed or raised is refused  *)
(* wherever it stopped (HeapWriter, validate_artifact, HeapReader.read):   *)
(* for documents of any heaps, of any number and content of threads,       *)
(* objects, referents, attributes and types, and any limits of the fields. *)
THEOREM WhatIsReadWasWritten == WellWritten => (Spec => []ReadsWhatWasWritten)
  <1> SUFFICES ASSUME WellWritten PROVE Spec => []ReadsWhatWasWritten
    OBVIOUS
  <1>1. ASSUME ReadInv, NEW a \in Analyzers, loaded[a] # None
        PROVE  /\ loaded[a].complete /\ Validated(loaded[a].words)
               /\ Heap(a) = Meaning(loaded[a].of)
    <2>1. PICK d \in scenario.documents : loaded[a] = LoadedOf(d) /\ HeapRead(d.words).accepted
      BY <1>1 DEF ReadInv, HasRead
    <2>2. IsDocument(d)
      BY <1>1 DEF WellWritten, ReadInv, FileInv
    <2>3. d.complete /\ Validated(d.words) /\ HeapRead(d.words) = Meaning(d.of)
      BY <2>1, <2>2, DocumentIsRead
    <2> QED
      BY <2>1, <2>3 DEF LoadedOf, Heap
  <1>2. ASSUME ReadInv, NEW a \in Analyzers,
               pc[a] = "error" /\ loaded[a] = None /\ replaced = 0
        PROVE  ~file.complete
    <2>1. ~HeapRead(file.words).accepted /\ file = scenario.first /\ scenario \in Scenarios
      BY <1>2 DEF ReadInv, HasRead, FileInv
    <2>2. IsDocument(file)
      BY <1>2, <2>1, AnalysisAssumption DEF WellWritten
    <2> QED
      BY <2>1, <2>2, DocumentIsRead
  <1>3. ReadInv => ReadsWhatWasWritten
    BY <1>1, <1>2 DEF ReadsWhatWasWritten
  <1> QED
    BY <1>3, ReadInvHolds, PTL
=============================================================================
