---------------------------- MODULE SharedFiles -----------------------------
(***************************************************************************)
(* The files that runs of pydump share: the agent library, installed under *)
(* a content-addressed name in the target's /tmp (install_agent), and the  *)
(* output artifact, whose name is chosen before the capture and taken when *)
(* it ends (available_output_path, Collector.capture).  A run may fail or  *)
(* be killed at any step.                                                  *)
(***************************************************************************)
EXTENDS Naturals, FiniteSets

CONSTANTS
    Runs,   \* runs of pydump, all of one target and with one --file
    None,
    Chunks  \* pieces in which shutil.copyfile writes the library

ASSUME FilesAssumption ==
    /\ IsFiniteSet(Runs) /\ None \notin Runs
    /\ Chunks \in Nat \ {0}

(* A file is named by the run that created it.  Output names are numbered: *)
(* 0 is the requested one, i + 1 has the suffix .i                         *)
File == Runs \cup {None}
Names == 0..Cardinality(Runs)

VARIABLES
    pc,       \* where each run is
    agent,    \* the file under the library's name
    partial,  \* the file under the library's name with suffix .partial
    open,     \* the file each run has open for writing
    offset,   \* how many pieces it has written
    content,  \* the pieces each library file holds
    name,     \* the output name each run chose
    output,   \* whose artifact each output name holds
    met       \* history: the runs each run was under way together with

libraryVars == <<agent, partial, open, offset, content>>
outputVars  == <<name, output>>
vars == <<pc, libraryVars, outputVars, met>>

Whole == 1..Chunks

Init ==
    /\ pc = [r \in Runs |-> "idle"]
    /\ agent = None /\ partial = None
    /\ open = [r \in Runs |-> None] /\ offset = [r \in Runs |-> 0]
    /\ content = [r \in Runs |-> {}]
    /\ name = [r \in Runs |-> 0] /\ output = [i \in Names |-> None]
    /\ met = [r \in Runs |-> {}]

-----------------------------------------------------------------------------

Ended == {"idle", "delivered", "failed", "killed"}
Active == {r \in Runs : pc[r] \notin Ended}

Moves(r, from, to) == pc[r] = from /\ pc' = [pc EXCEPT ![r] = to] /\ UNCHANGED met

(* install_agent: host_path.exists()                                       *)
Begin(r) ==
    /\ pc[r] = "idle"
    /\ pc' = [pc EXCEPT ![r] = IF agent = None THEN "create" ELSE "load"]
    /\ met' = [s \in Runs |-> IF s = r THEN Active
                              ELSE met[s] \cup (IF s \in Active THEN {r} ELSE {})]
    /\ UNCHANGED <<libraryVars, outputVars>>

(* shutil.copyfile opens the temporary name, which is the same for every   *)
(* run: an existing file is truncated.                                     *)
OpenPartial(r) ==
    /\ Moves(r, "create", "copy")
    /\ LET file == IF partial = None THEN r ELSE partial IN
        /\ partial' = file
        /\ open' = [open EXCEPT ![r] = file]
        /\ content' = [content EXCEPT ![file] = {}]
    /\ offset' = [offset EXCEPT ![r] = 0]
    /\ UNCHANGED <<agent, outputVars>>

(* Mutants: the copy is renamed before its last piece; its last piece is   *)
(* never flushed.                                                          *)
CopyPieceShort(r) ==
    /\ offset[r] < Chunks
    /\ Moves(r, "copy", "chmod") \/ Moves(r, "copy", "copy")
    /\ offset' = [offset EXCEPT ![r] = @ + 1]
    /\ content' = [content EXCEPT ![open[r]] = @ \cup {offset'[r]}]
    /\ UNCHANGED <<agent, partial, open, outputVars>>

CopyPieceUnflushed(r) ==
    /\ offset[r] < Chunks
    /\ Moves(r, "copy", IF offset[r] + 1 = Chunks THEN "chmod" ELSE "copy")
    /\ offset' = [offset EXCEPT ![r] = @ + 1]
    /\ content' = [content EXCEPT ![open[r]] = @ \cup ({offset'[r]} \ {Chunks})]
    /\ UNCHANGED <<agent, partial, open, outputVars>>

CopyPiece(r) ==
    /\ offset[r] < Chunks
    /\ Moves(r, "copy", IF offset[r] + 1 = Chunks THEN "chmod" ELSE "copy")
    /\ offset' = [offset EXCEPT ![r] = @ + 1]
    /\ content' = [content EXCEPT ![open[r]] = @ \cup {offset'[r]}]
    /\ UNCHANGED <<agent, partial, open, outputVars>>

(* os.chmod and os.replace both need the temporary name to be there.       *)
Chmod(r) ==
    /\ partial # None /\ Moves(r, "chmod", "replace")
    /\ UNCHANGED <<libraryVars, outputVars>>

Replace(r) ==
    /\ partial # None /\ Moves(r, "replace", "load")
    /\ agent' = partial /\ partial' = None
    /\ UNCHANGED <<open, offset, content, outputVars>>

PartialGone(r) ==
    /\ partial = None
    /\ Moves(r, "chmod", "failed") \/ Moves(r, "replace", "failed")
    /\ UNCHANGED <<libraryVars, outputVars>>

(* The loader makes the target dlopen what the name holds now.             *)
Load(r) ==
    /\ Moves(r, "load", "name")
    /\ UNCHANGED <<libraryVars, outputVars>>

(* Mutant: no suffix.                                                      *)
ChooseRequested(r) ==
    /\ Moves(r, "name", "capture")
    /\ name' = [name EXCEPT ![r] = 0]
    /\ UNCHANGED <<libraryVars, output>>

(* available_output_path: the first name that is free.                     *)
ChooseName(r) ==
    /\ Moves(r, "name", "capture")
    /\ \E i \in Names :
        /\ output[i] = None /\ \A j \in 0..i - 1 : output[j] # None
        /\ name' = [name EXCEPT ![r] = i]
    /\ UNCHANGED <<libraryVars, output>>

(* The capture ends: os.replace puts the artifact under the chosen name.   *)
Publish(r) ==
    /\ Moves(r, "capture", "delivered")
    /\ output' = [output EXCEPT ![name[r]] = r]
    /\ UNCHANGED <<libraryVars, name>>

(* A failed copy or capture, and SIGKILL; install_agent leaves its         *)
(* temporary file behind in both.                                          *)
Fails(r) ==
    /\ r \in Active
    /\ \E end \in {"failed", "killed"} : pc' = [pc EXCEPT ![r] = end]
    /\ UNCHANGED <<libraryVars, outputVars, met>>

Next == \E r \in Runs :
    \/ Begin(r) \/ OpenPartial(r) \/ CopyPiece(r) \/ Chmod(r) \/ Replace(r)
    \/ PartialGone(r) \/ Load(r) \/ ChooseName(r) \/ Publish(r) \/ Fails(r)

Spec == Init /\ [][Next]_vars

-----------------------------------------------------------------------------
(* Properties.                                                             *)

(* The content-addressed name holds the whole library from the moment it   *)
(* exists, although runs are killed in the middle of a copy and the next   *)
(* one starts over in the file they left.  Only a run that was not alone   *)
(* can break that: its file is truncated, or renamed too early, by another *)
(* run that uses the same temporary name (install_agent).                  *)
LibraryWhole ==
    agent # None /\ content[agent] # Whole => \E r \in Runs : open[r] = agent /\ met[r] # {}

(* That harm passes: as soon as every run that opened a copy has written   *)
(* its last piece, the name holds the whole library, although the runs     *)
(* truncated and renamed each other's files in any order (install_agent).  *)
WholeAtRest ==
    agent # None /\ (\A r \in Runs : open[r] = agent => offset[r] = Chunks)
        => content[agent] = Whole

(* What a run delivered stays under the name it chose, and only a run that *)
(* was under way together with it can take that name (the suffix of        *)
(* available_output_path, chosen before the capture and used after it).    *)
ArtifactsKept ==
    \A r \in Runs : pc[r] = "delivered" =>
        \/ output[name[r]] = r
        \/ output[name[r]] \in met[r]
=============================================================================
