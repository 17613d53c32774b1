-------------------------- MODULE SharedFilesProofs --------------------------
(***************************************************************************)
(* The safety of the shared files, for any finite number of runs of pydump *)
(* and any number of pieces of the library.                                *)
(***************************************************************************)
EXTENDS SharedFiles, FiniteSetTheorems, TLAPS

Places == Ended \cup {"create", "copy", "chmod", "replace", "load", "name", "capture"}

TypeOK ==
    /\ pc \in [Runs -> Places]
    /\ agent \in File /\ partial \in File
    /\ open \in [Runs -> File] /\ offset \in [Runs -> 0..Chunks]
    /\ content \in [Runs -> SUBSET Whole]
    /\ name \in [Runs -> Names] /\ output \in [Names -> File]
    /\ met \in [Runs -> SUBSET Runs]

(* Runs that are under way together know of each other.                    *)
MetInv == \A r, s \in Active : r # s => s \in met[r]

(* A run that was not alone has had file f open.                           *)
Crowded(f) == \E r \in Runs : open[r] = f /\ met[r] # {}

(* A run in the middle of its copy has it open and has written it up to    *)
(* its offset, unless a later run truncated it, which was not alone then;  *)
(* and it is the file under the temporary name, unless a run that was not  *)
(* alone put another one there.                                            *)
CopyOf(r) ==
    /\ pc[r] \in {"idle", "create"} => open[r] = None
    /\ pc[r] \in {"copy", "chmod", "replace"} =>
        /\ open[r] # None
        /\ 1..offset[r] \subseteq content[open[r]] \/ Crowded(open[r])
        /\ partial \in {None, open[r]} \/ Crowded(partial)
    /\ pc[r] \in {"chmod", "replace"} => offset[r] = Chunks
CopyInv == \A r \in Runs : CopyOf(r)

(* The two names hold different files, each opened by the run that created *)
(* it, and the last run to truncate a file has its pieces in it.           *)
FileInv ==
    /\ agent # None => agent # partial /\ open[agent] = agent
    /\ partial # None => open[partial] = partial
    /\ \A r \in Runs : open[r] # None =>
        \E last \in Runs : open[last] = open[r] /\ 1..offset[last] \subseteq content[open[r]]

LibraryInv == CopyInv /\ FileInv /\ LibraryWhole

(* A run that was delivered under the name another run has chosen, but not *)
(* taken yet, was under way together with it.                              *)
NameInv ==
    \A r, s \in Runs :
        pc[r] = "delivered" /\ pc[s] = "capture" /\ name[r] = name[s] => s \in met[r]

OutputInv == NameInv /\ ArtifactsKept

-----------------------------------------------------------------------------
(* The parts hold at the start.                                            *)
LEMMA InvInit == Init => TypeOK /\ MetInv /\ LibraryInv /\ OutputInv
<1> SUFFICES ASSUME Init PROVE TypeOK /\ MetInv /\ LibraryInv /\ OutputInv
  OBVIOUS
<1>1. 0 \in Names
  BY FilesAssumption, FS_CardinalityType DEF Names
<1>2. TypeOK
  BY <1>1, FilesAssumption DEF Init, TypeOK, Places, Ended, File, Whole
<1>3. MetInv /\ LibraryInv
  BY DEF Init, MetInv, Active, Ended, LibraryInv, CopyInv, CopyOf, FileInv, LibraryWhole
<1>4. OutputInv
  BY DEF Init, OutputInv, NameInv, ArtifactsKept
<1> QED BY <1>2, <1>3, <1>4

(* Every step keeps the types.                                             *)
LEMMA TypeStep == TypeOK /\ CopyInv /\ [Next]_vars => TypeOK'
<1> SUFFICES ASSUME TypeOK, CopyInv, [Next]_vars PROVE TypeOK'
  OBVIOUS
<1> USE FilesAssumption DEF TypeOK, Places, Ended, File, libraryVars, outputVars, Moves
<1>1. CASE UNCHANGED vars
  BY <1>1 DEF vars
<1>2. ASSUME NEW r \in Runs, Begin(r) PROVE TypeOK'
  BY <1>2 DEF Begin, Active
<1>3. ASSUME NEW r \in Runs, OpenPartial(r) PROVE TypeOK'
  <2>1. 0 \in 0..Chunks
    OBVIOUS
  <2>2. PICK file \in Runs : /\ partial' = file
                             /\ open' = [open EXCEPT ![r] = file]
                             /\ content' = [content EXCEPT ![file] = {}]
    BY <1>3 DEF OpenPartial
  <2> QED BY <1>3, <2>1, <2>2 DEF OpenPartial
<1>4. ASSUME NEW r \in Runs, CopyPiece(r) PROVE TypeOK'
  <2>1. open[r] \in Runs
    BY <1>4 DEF CopyPiece, CopyInv, CopyOf
  <2>2. offset[r] + 1 \in 0..Chunks /\ offset[r] + 1 \in Whole
    BY <1>4 DEF CopyPiece, Whole
  <2>3. offset' \in [Runs -> 0..Chunks] /\ offset'[r] \in Whole
    BY <1>4, <2>2 DEF CopyPiece
  <2>4. content' \in [Runs -> SUBSET Whole]
    BY <1>4, <2>1, <2>3 DEF CopyPiece
  <2>5. pc' \in [Runs -> Places]
    BY <1>4 DEF CopyPiece
  <2> QED BY <1>4, <2>3, <2>4, <2>5 DEF CopyPiece
<1>5. ASSUME NEW r \in Runs, Chmod(r) PROVE TypeOK'
  BY <1>5 DEF Chmod
<1>6. ASSUME NEW r \in Runs, Replace(r) PROVE TypeOK'
  BY <1>6 DEF Replace
<1>7. ASSUME NEW r \in Runs, PartialGone(r) PROVE TypeOK'
  BY <1>7 DEF PartialGone
<1>8. ASSUME NEW r \in Runs, Load(r) PROVE TypeOK'
  BY <1>8 DEF Load
<1>9. ASSUME NEW r \in Runs, ChooseName(r) PROVE TypeOK'
  BY <1>9 DEF ChooseName
<1>10. ASSUME NEW r \in Runs, Publish(r) PROVE TypeOK'
  BY <1>10 DEF Publish
<1>11. ASSUME NEW r \in Runs, Fails(r) PROVE TypeOK'
  BY <1>11 DEF Fails
<1> QED BY <1>1, <1>2, <1>3, <1>4, <1>5, <1>6, <1>7, <1>8, <1>9, <1>10, <1>11 DEF Next

(* Only Begin makes a run active, and it notes every meeting.              *)
LEMMA MetStep == TypeOK /\ MetInv /\ [Next]_vars => MetInv'
<1> SUFFICES ASSUME TypeOK, MetInv, [Next]_vars PROVE MetInv'
  OBVIOUS
<1>1. ASSUME NEW r \in Runs, Begin(r) PROVE MetInv'
  BY <1>1 DEF Begin, TypeOK, MetInv, Active
<1>2. CASE Active' \subseteq Active /\ met' = met
  BY <1>2 DEF MetInv
<1>3. ASSUME NEW r \in Runs, ~Begin(r), Next!(r) PROVE Active' \subseteq Active /\ met' = met
  BY <1>3 DEF OpenPartial, CopyPiece, Chmod, Replace, PartialGone, Load, ChooseName, Publish,
              Fails, Moves, Active, Ended, TypeOK
<1>4. CASE UNCHANGED vars
  BY <1>4, <1>2 DEF vars, Active
<1> QED BY <1>1, <1>2, <1>3, <1>4 DEF Next

(* No meeting of a run that has begun is forgotten, and no file is closed. *)
LEMMA NothingForgotten ==
    ASSUME TypeOK, CopyInv, [Next]_vars, NEW r \in Runs, pc[r] # "idle"
    PROVE  /\ met[r] \subseteq met'[r]
           /\ open[r] # None => open'[r] = open[r]
<1>1. ASSUME NEW q \in Runs, Begin(q)
      PROVE  met[r] \subseteq met'[r] /\ open'[r] = open[r]
  BY <1>1 DEF Begin, TypeOK, libraryVars
<1>2. ASSUME NEW q \in Runs, OpenPartial(q), open[r] # None
      PROVE  met' = met /\ open'[r] = open[r]
  BY <1>2 DEF OpenPartial, TypeOK, Moves, CopyInv, CopyOf
<1>3. ASSUME NEW q \in Runs, OpenPartial(q) PROVE met' = met
  BY <1>3 DEF OpenPartial, Moves
<1>4. ASSUME NEW q \in Runs, ~Begin(q), ~OpenPartial(q), Next!(q)
      PROVE  met' = met /\ open' = open
  BY <1>4 DEF CopyPiece, Chmod, Replace, PartialGone, Load, ChooseName, Publish, Fails,
              Moves, libraryVars
<1>5. CASE UNCHANGED vars
  BY <1>5 DEF vars, libraryVars
<1> QED BY <1>1, <1>2, <1>3, <1>4, <1>5 DEF Next

(* So a crowded file stays crowded.                                        *)
LEMMA StaysCrowded ==
    ASSUME TypeOK, CopyInv, [Next]_vars, NEW f, f # None, Crowded(f)
    PROVE  Crowded(f)'
<1>1. PICK r \in Runs : open[r] = f /\ met[r] # {}
  BY DEF Crowded
<1>2. pc[r] # "idle"
  BY <1>1 DEF CopyInv, CopyOf
<1>3. open'[r] = f /\ met[r] \subseteq met'[r]
  BY <1>1, <1>2, NothingForgotten
<1> QED BY <1>1, <1>3 DEF Crowded

(* The run that opens the temporary name is noticed by all that copy.      *)
LEMMA CopyStep == TypeOK /\ MetInv /\ CopyInv /\ [Next]_vars => CopyInv'
<1> SUFFICES ASSUME TypeOK, MetInv, CopyInv, [Next]_vars, NEW r \in Runs PROVE CopyOf(r)'
  BY DEF CopyInv
<1>a. CopyOf(r)
  BY DEF CopyInv
<1>b. \A f : f # None /\ Crowded(f) => Crowded(f)'
  BY StaysCrowded
<1>1. ASSUME NEW q \in Runs, Begin(q) PROVE CopyOf(r)'
  BY <1>1, <1>a, <1>b DEF Begin, CopyOf, TypeOK, libraryVars
<1>2. ASSUME NEW q \in Runs, OpenPartial(q) PROVE CopyOf(r)'
  <2>1. PICK f \in Runs : /\ partial' = f /\ f \in {q, partial}
                          /\ open' = [open EXCEPT ![q] = f]
                          /\ content' = [content EXCEPT ![f] = {}]
    BY <1>2 DEF OpenPartial, TypeOK, File
  <2>2. CASE r = q
    <3>1. pc'[r] = "copy" /\ open'[r] = f /\ offset'[r] = 0
      BY <1>2, <2>1, <2>2 DEF OpenPartial, Moves, TypeOK
    <3>2. 1..offset'[r] = {}
      BY <3>1
    <3> QED BY <2>1, <3>1, <3>2, FilesAssumption DEF CopyOf
  <2>3. CASE r # q
    <3>1. pc'[r] = pc[r] /\ open'[r] = open[r] /\ offset'[r] = offset[r] /\ met' = met
      BY <1>2, <2>1, <2>3 DEF OpenPartial, Moves, TypeOK
    <3>2. CASE pc[r] \in {"copy", "chmod", "replace"}
      <4>1. {r, q} \subseteq Active
        BY <1>2, <3>2 DEF OpenPartial, Moves, Active, Ended
      <4>2. r \in met[q]
        BY <4>1, <2>3 DEF MetInv
      <4>3. Crowded(f)'
        BY <4>2, <3>1, <2>1 DEF Crowded, TypeOK
      <4>4. open[r] # f => content'[open[r]] = content[open[r]]
        BY <2>1, <1>a, <3>2 DEF CopyOf, TypeOK, File
      <4> QED BY <1>a, <1>b, <2>1, <3>1, <3>2, <4>3, <4>4 DEF CopyOf
    <3>3. CASE pc[r] \notin {"copy", "chmod", "replace"}
      BY <1>a, <3>1, <3>3 DEF CopyOf
    <3> QED BY <3>2, <3>3
  <2> QED BY <2>2, <2>3
<1>3. ASSUME NEW q \in Runs, CopyPiece(q) PROVE CopyOf(r)'
  <2>1. open[q] \in Runs /\ offset[q] \in Nat
    BY <1>3 DEF CopyPiece, Moves, CopyInv, CopyOf, TypeOK, File
  <2>2. /\ partial' = partial /\ open' = open
        /\ \A f \in Runs : content[f] \subseteq content'[f]
    BY <1>3 DEF CopyPiece, TypeOK
  <2>3. CASE r = q
    <3>1. offset'[q] = offset[q] + 1 /\ content'[open[q]] = content[open[q]] \cup {offset[q] + 1}
      BY <1>3, <2>1 DEF CopyPiece, TypeOK
    <3>2. 1..offset[q] \subseteq content[open[q]] => 1..offset'[q] \subseteq content'[open[q]]
      BY <3>1, <2>1
    <3>3. /\ pc[q] = "copy" /\ pc'[q] \in {"copy", "chmod"}
          /\ (pc'[q] = "chmod" => offset'[q] = Chunks)
      BY <1>3, <3>1 DEF CopyPiece, Moves, TypeOK
    <3> QED BY <1>a, <1>b, <2>1, <2>2, <2>3, <3>2, <3>3 DEF CopyOf
  <2>4. CASE r # q
    <3>1. pc'[r] = pc[r] /\ offset'[r] = offset[r]
      BY <1>3, <2>4 DEF CopyPiece, Moves, TypeOK
    <3> QED BY <1>a, <1>b, <2>2, <3>1 DEF CopyOf, TypeOK, File
  <2> QED BY <2>3, <2>4
<1>4. ASSUME NEW q \in Runs, ~Begin(q), ~OpenPartial(q), ~CopyPiece(q), Next!(q)
      PROVE  CopyOf(r)'
  <2>1. partial' \in {None, partial} /\ UNCHANGED <<open, offset, content>>
    BY <1>4 DEF Chmod, Replace, PartialGone, Load, ChooseName, Publish, Fails, libraryVars
  <2>2. \/ pc'[r] = pc[r]
        \/ pc[r] = "chmod" /\ pc'[r] = "replace"
        \/ pc'[r] \in {"load", "name", "capture", "delivered", "failed", "killed"}
    BY <1>4 DEF Chmod, Replace, PartialGone, Load, ChooseName, Publish, Fails, Moves, TypeOK
  <2> QED BY <1>a, <1>b, <2>1, <2>2 DEF CopyOf
<1>5. CASE UNCHANGED vars
  BY <1>5, <1>a DEF vars, libraryVars, CopyOf, Crowded
<1> QED BY <1>1, <1>2, <1>3, <1>4, <1>5 DEF Next

(* The last run to truncate a file is the one whose pieces stay in it.     *)
LEMMA FileStep == TypeOK /\ CopyInv /\ FileInv /\ [Next]_vars => FileInv'
<1> SUFFICES ASSUME TypeOK, CopyInv, FileInv, [Next]_vars PROVE FileInv'
  OBVIOUS
<1> DEFINE Last(f) == \E last \in Runs : open[last] = f /\ 1..offset[last] \subseteq content[f]
<1>1. ASSUME NEW q \in Runs, OpenPartial(q) PROVE FileInv'
  <2>1. PICK f \in Runs : /\ partial' = f /\ f = IF partial = None THEN q ELSE partial
                          /\ open' = [open EXCEPT ![q] = f]
                          /\ content' = [content EXCEPT ![f] = {}]
    BY <1>1 DEF OpenPartial, TypeOK, File
  <2>2. open[q] = None /\ agent' = agent /\ offset' = [offset EXCEPT ![q] = 0]
    BY <1>1 DEF OpenPartial, Moves, CopyInv, CopyOf
  <2>3. open'[q] = f /\ 1..offset'[q] = {}
    BY <2>1, <2>2 DEF TypeOK
  <2>4. agent # None => agent # q /\ agent # f /\ open'[agent] = agent
    BY <2>1, <2>2 DEF FileInv, TypeOK, File
  <2>5. open'[f] = f
    BY <2>1, <2>2 DEF FileInv, TypeOK
  <2>6. ASSUME NEW r \in Runs, open'[r] # None PROVE Last(open[r])'
    <3>1. CASE open'[r] = f
      BY <2>3, <3>1
    <3>2. CASE open'[r] # f
      <4>1. open'[r] = open[r] /\ content'[open[r]] = content[open[r]]
        BY <2>1, <2>6, <3>2 DEF TypeOK, File
      <4>2. PICK last \in Runs : /\ open[last] = open[r]
                                 /\ 1..offset[last] \subseteq content[open[r]]
        BY <2>6, <4>1 DEF FileInv
      <4>3. last # q /\ open'[last] = open[last] /\ offset'[last] = offset[last]
        BY <2>1, <2>2, <2>6, <4>1, <4>2 DEF TypeOK
      <4> QED BY <4>1, <4>2, <4>3
    <3> QED BY <3>1, <3>2
  <2> QED BY <2>1, <2>2, <2>4, <2>5, <2>6 DEF FileInv
<1>2. ASSUME NEW q \in Runs, CopyPiece(q) PROVE FileInv'
  <2>1. open[q] \in Runs /\ offset[q] \in Nat /\ UNCHANGED <<agent, partial, open>>
    BY <1>2 DEF CopyPiece, Moves, CopyInv, CopyOf, TypeOK, File
  <2>2. offset'[q] = offset[q] + 1 /\ content'[open[q]] = content[open[q]] \cup {offset[q] + 1}
    BY <1>2, <2>1 DEF CopyPiece, TypeOK
  <2>3. \A f \in Runs : content[f] \subseteq content'[f]
    BY <1>2 DEF CopyPiece, TypeOK
  <2>4. \A r \in Runs \ {q} : offset'[r] = offset[r]
    BY <1>2 DEF CopyPiece, TypeOK
  <2>5. ASSUME NEW r \in Runs, open[r] # None PROVE Last(open[r])'
    <3>1. PICK last \in Runs : /\ open[last] = open[r]
                               /\ 1..offset[last] \subseteq content[open[r]]
      BY <2>5 DEF FileInv
    <3>2. open[r] \in Runs
      BY <2>5 DEF TypeOK, File
    <3>3. CASE last = q
      <4>1. 1..offset'[q] \subseteq content'[open[q]]
        BY <2>1, <2>2, <3>1, <3>3
      <4> QED BY <2>1, <3>1, <3>3, <4>1
    <3>4. CASE last # q
      BY <2>1, <2>3, <2>4, <3>1, <3>2, <3>4
    <3> QED BY <3>3, <3>4
  <2> QED BY <2>1, <2>5 DEF FileInv
<1>3. ASSUME NEW q \in Runs, ~OpenPartial(q), ~CopyPiece(q), Next!(q) PROVE FileInv'
  BY <1>3 DEF Begin, Chmod, Replace, PartialGone, Load, ChooseName, Publish, Fails,
              libraryVars, FileInv
<1>4. CASE UNCHANGED vars
  BY <1>4 DEF vars, libraryVars, FileInv
<1> QED BY <1>1, <1>2, <1>3, <1>4 DEF Next

(* What is renamed is whole, or was not alone in its file.                 *)
LEMMA WholeStep ==
    TypeOK /\ MetInv /\ CopyInv /\ FileInv /\ LibraryWhole /\ [Next]_vars => LibraryWhole'
<1> SUFFICES ASSUME TypeOK, MetInv, CopyInv, FileInv, LibraryWhole, [Next]_vars,
                    agent' # None, ~Crowded(agent)'
             PROVE  content'[agent'] = Whole
  BY DEF LibraryWhole, Crowded
<1>1. ASSUME NEW q \in Runs, Replace(q) PROVE content'[agent'] = Whole
  <2>1. agent' = partial /\ partial # None /\ UNCHANGED <<open, met, content>>
    BY <1>1 DEF Replace, Moves
  <2>2. ~Crowded(partial)
    BY <2>1 DEF Crowded
  <2>3. open[q] = partial /\ 1..offset[q] \subseteq content[partial] /\ offset[q] = Chunks
    BY <1>1, <2>1, <2>2 DEF Replace, Moves, CopyInv, CopyOf
  <2> QED BY <2>1, <2>3 DEF Whole, TypeOK, File
<1>2. CASE agent' = agent
  <2>1. agent \in Runs /\ ~Crowded(agent) /\ content[agent] = Whole
    BY <1>2, StaysCrowded DEF LibraryWhole, Crowded, TypeOK, File
  <2>2. ASSUME NEW q \in Runs, OpenPartial(q) PROVE content'[agent] = Whole
    <3>1. q # agent
      BY <1>2, <2>2 DEF OpenPartial, Moves, CopyInv, CopyOf, FileInv
    <3> QED BY <2>1, <2>2, <3>1 DEF OpenPartial, FileInv, TypeOK, File
  <2>3. ASSUME NEW q \in Runs, CopyPiece(q) PROVE content'[agent] = Whole
    <3>1. content'[agent] \in SUBSET Whole
      BY <2>1, TypeStep DEF TypeOK
    <3> QED BY <2>1, <2>3, <3>1 DEF CopyPiece, TypeOK
  <2>4. ASSUME NEW q \in Runs, ~OpenPartial(q), ~CopyPiece(q), Next!(q)
        PROVE  content'[agent] = Whole
    BY <2>1, <2>4 DEF Begin, Chmod, Replace, PartialGone, Load, ChooseName, Publish, Fails,
                      libraryVars
  <2>5. CASE UNCHANGED vars
    BY <2>1, <2>5 DEF vars, libraryVars
  <2> QED BY <1>2, <2>2, <2>3, <2>4, <2>5 DEF Next
<1>3. ASSUME NEW q \in Runs, ~Replace(q), Next!(q) PROVE agent' = agent
  BY <1>3 DEF Begin, OpenPartial, CopyPiece, Chmod, PartialGone, Load, ChooseName, Publish,
              Fails, libraryVars
<1>4. CASE UNCHANGED vars
  BY <1>2, <1>4 DEF vars, libraryVars
<1> QED BY <1>1, <1>2, <1>3, <1>4 DEF Next

(* A name is chosen while it is free, so whoever was delivered under it    *)
(* since then was under way at that moment.                                *)
LEMMA OutputStep == TypeOK /\ MetInv /\ CopyInv /\ OutputInv /\ [Next]_vars => OutputInv'
<1> SUFFICES ASSUME TypeOK, MetInv, CopyInv, OutputInv, [Next]_vars PROVE OutputInv'
  OBVIOUS
<1>a. \A r \in Runs : pc[r] = "delivered" => met[r] \subseteq met'[r]
  BY NothingForgotten
<1>1. ASSUME NEW q \in Runs, ChooseName(q) PROVE OutputInv'
  <2>1. PICK i \in Names : output[i] = None /\ name' = [name EXCEPT ![q] = i]
    BY <1>1 DEF ChooseName
  <2>2. pc' = [pc EXCEPT ![q] = "capture"] /\ UNCHANGED <<output, met>>
    BY <1>1 DEF ChooseName, Moves
  <2>3. ASSUME NEW r \in Runs, pc'[r] = "delivered"
        PROVE  r # q /\ pc[r] = "delivered" /\ name'[r] = name[r] /\ name[r] # i
    <3>1. r # q /\ pc[r] = "delivered" /\ name'[r] = name[r]
      BY <2>1, <2>2, <2>3 DEF TypeOK
    <3>2. output[name[r]] \in Runs
      BY <3>1 DEF OutputInv, ArtifactsKept, TypeOK
    <3> QED BY <2>1, <3>1, <3>2, FilesAssumption
  <2>4. NameInv'
    BY <2>1, <2>2, <2>3 DEF OutputInv, NameInv, TypeOK
  <2>5. ArtifactsKept'
    BY <2>2, <2>3 DEF OutputInv, ArtifactsKept
  <2> QED BY <2>4, <2>5 DEF OutputInv
<1>2. ASSUME NEW q \in Runs, Publish(q) PROVE OutputInv'
  <2>1. /\ pc[q] = "capture" /\ pc' = [pc EXCEPT ![q] = "delivered"]
        /\ output' = [output EXCEPT ![name[q]] = q] /\ UNCHANGED <<name, met>>
    BY <1>2 DEF Publish, Moves
  <2>2. ASSUME NEW s \in Runs, pc'[s] = "capture" PROVE s # q /\ s \in met[q] /\ pc[s] = "capture"
    <3>1. s # q /\ pc[s] = "capture"
      BY <2>1, <2>2 DEF TypeOK
    <3> QED BY <2>1, <3>1 DEF MetInv, Active, Ended
  <2>3. NameInv'
    BY <2>1, <2>2 DEF OutputInv, NameInv, TypeOK
  <2>4. ASSUME NEW r \in Runs, pc'[r] = "delivered"
        PROVE  output'[name[r]] = r \/ output'[name[r]] \in met[r]
    <3>1. name[r] \in Names /\ name[q] \in Names
      BY DEF TypeOK
    <3>2. CASE r = q
      BY <2>1, <3>1, <3>2 DEF TypeOK
    <3>3. CASE r # q /\ name[r] = name[q]
      <4>1. q \in met[r]
        BY <2>1, <2>4, <3>3 DEF OutputInv, NameInv, TypeOK
      <4> QED BY <2>1, <3>1, <3>3, <4>1 DEF TypeOK
    <3>4. CASE r # q /\ name[r] # name[q]
      BY <2>1, <2>4, <3>1, <3>4 DEF OutputInv, ArtifactsKept, TypeOK
    <3> QED BY <3>2, <3>3, <3>4
  <2> QED BY <2>1, <2>3, <2>4 DEF OutputInv, ArtifactsKept
<1>3. ASSUME NEW q \in Runs, ~ChooseName(q), ~Publish(q), Next!(q) PROVE OutputInv'
  <2>1. /\ UNCHANGED outputVars
        /\ \A r \in Runs : pc'[r] \in {"delivered", "capture"} => pc[r] = pc'[r]
    BY <1>3 DEF Begin, OpenPartial, CopyPiece, Chmod, Replace, PartialGone, Load, Fails,
                Moves, TypeOK, outputVars
  <2> QED BY <1>a, <2>1 DEF OutputInv, NameInv, ArtifactsKept, outputVars
<1>4. CASE UNCHANGED vars
  BY <1>4 DEF vars, outputVars, OutputInv, NameInv, ArtifactsKept
<1> QED BY <1>1, <1>2, <1>3, <1>4 DEF Next

-----------------------------------------------------------------------------
(* Every reachable state satisfies the invariant.                          *)
LEMMA InvHolds == Spec => [](TypeOK /\ MetInv /\ LibraryInv /\ OutputInv)
<1>1. TypeOK /\ MetInv /\ LibraryInv /\ OutputInv /\ [Next]_vars
        => (TypeOK /\ MetInv /\ LibraryInv /\ OutputInv)'
  BY TypeStep, MetStep, CopyStep, FileStep, WholeStep, OutputStep DEF LibraryInv
<1> QED BY <1>1, InvInit, PTL DEF Spec

(* The library's name never holds part of the library, whenever runs are   *)
(* killed, unless runs that installed it were under way together.          *)
THEOREM LibraryIsWhole == Spec => []LibraryWhole
<1>1. LibraryInv => LibraryWhole
  BY DEF LibraryInv
<1> QED BY <1>1, InvHolds, PTL

(* Once nobody is copying into the library's file any more it is whole,    *)
(* however runs truncated and renamed each other's files.                  *)
THEOREM WholeInTheEnd == Spec => []WholeAtRest
<1>1. TypeOK /\ LibraryInv => WholeAtRest
  <2> SUFFICES ASSUME TypeOK, LibraryInv, agent # None,
                      \A r \in Runs : open[r] = agent => offset[r] = Chunks
               PROVE  content[agent] = Whole
    BY DEF WholeAtRest
  <2>1. agent \in Runs /\ open[agent] = agent
    BY DEF LibraryInv, FileInv, TypeOK, File
  <2>2. PICK last \in Runs : open[last] = agent /\ 1..offset[last] \subseteq content[agent]
    BY <2>1 DEF LibraryInv, FileInv
  <2> QED BY <2>1, <2>2 DEF Whole, TypeOK
<1> QED BY <1>1, InvHolds, PTL

(* A delivered artifact is lost only to a run that was under way together  *)
(* with the one that delivered it.                                         *)
THEOREM ArtifactsAreKept == Spec => []ArtifactsKept
<1>1. OutputInv => ArtifactsKept
  BY DEF OutputInv
<1> QED BY <1>1, InvHolds, PTL
=============================================================================
