-------------------------- MODULE StoryboardOutputs --------------------------
(* What a rendered panel leaves behind: an entry in the outputs of its       *)
(* panel.  With the platform it is an artifact that a batch appends to the   *)
(* shot's manifest; without, it is an entry of the sidecar file, which every *)
(* run reads, changes and replaces by way of one temporary file.  An entry   *)
(* is the run that made it; the order of the sidecar's entries is left out.  *)
EXTENDS TaskRuns, Sequences

NoFile == "none"

ASSUME NoFileIsNoRun == NoFile \notin Runs

VARIABLES
  platform,    \* PLATFORM_API_ENABLED
  artifacts,   \* the artifacts of the shot's manifest, by the run
  sidecar,     \* the file the sidecar's name leads to, by the run that created it
  temporary,   \* the same of <sidecar>.tmp
  content,     \* of each file: its text
  outputs,     \* of each run: the entries it is about to write
  target       \* of each run: the file it has open

outputVars == <<platform, artifacts, sidecar, temporary, content, outputs, target>>
fileVars == <<sidecar, temporary, content, outputs, target>>

(* A text that is not whole is no JSON.                                      *)
Blank == [text |-> "blank", outputs |-> {}]
Torn == [text |-> "torn", outputs |-> {}]
Whole(entries) == [text |-> "whole", outputs |-> entries]

OutputsInit ==
  /\ platform \in BOOLEAN
  /\ artifacts = <<>>
  /\ sidecar = NoFile /\ temporary = NoFile
  /\ content = [r \in Runs |-> Blank]
  /\ outputs = [r \in Runs |-> {}]
  /\ target = [r \in Runs |-> NoFile]

(* readExistingSidecar: a file that is missing or no JSON counts as empty.   *)
Listed == IF sidecar = NoFile THEN {} ELSE content[sidecar].outputs

(* Faulty variant: the entry of an earlier delivery stays.                   *)
KeepAll(entries, r) == entries

WithoutTask(entries, r) == {s \in entries : TaskOf[s] # TaskOf[r]}

ReadSidecar(r) ==
  /\ outputs' = [outputs EXCEPT ![r] = WithoutTask(Listed, r) \cup {r}]
  /\ UNCHANGED <<platform, artifacts, sidecar, temporary, content, target>>

(* Faulty variant: the sidecar itself is opened.                             *)
OpenInPlace(r) ==
  /\ LET file == IF sidecar = NoFile THEN r ELSE sidecar IN
       /\ target' = [target EXCEPT ![r] = file]
       /\ content' = [content EXCEPT ![file] = Blank]
       /\ sidecar' = file /\ temporary' = file
  /\ UNCHANGED <<platform, artifacts, outputs>>

(* fs.writeFile opens the temporary file, which another run may have open,   *)
(* and empties it ...                                                        *)
OpenTemporary(r) ==
  /\ LET file == IF temporary = NoFile THEN r ELSE temporary IN
       /\ target' = [target EXCEPT ![r] = file]
       /\ content' = [content EXCEPT ![file] = Blank]
       /\ temporary' = file
  /\ UNCHANGED <<platform, artifacts, sidecar, outputs>>

(* ... and writes from its start, over what another run has written since.   *)
WriteTemporary(r) ==
  /\ LET file == target[r] IN
       \/ content' = [content EXCEPT ![file] = Whole(outputs[r])]
       \/ content[file] # Blank /\ content' = [content EXCEPT ![file] = Torn]
  /\ UNCHANGED <<platform, artifacts, sidecar, temporary, outputs, target>>

CanRename == temporary # NoFile

Rename ==
  /\ CanRename
  /\ sidecar' = temporary /\ temporary' = NoFile
  /\ UNCHANGED <<platform, artifacts, content, outputs, target>>

(* appendPaceArtifactReference.                                              *)
AddArtifact(r) ==
  /\ artifacts' = Append(artifacts, r)
  /\ UNCHANGED <<platform, fileVars>>

(* Where the outputs of the panel are looked up.                             *)
Published == IF platform THEN {artifacts[n] : n \in DOMAIN artifacts} ELSE Listed
=============================================================================
