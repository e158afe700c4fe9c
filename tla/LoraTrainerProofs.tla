-------------------------- MODULE LoraTrainerProofs --------------------------
(***************************************************************************)
(* A job is run by the script of the build that submits it, for all callers *)
(* and whatever breaks; and what finalize hands out was trained, for all    *)
(* commands that poll the job.                                              *)
(*                                                                          *)
(* RunsOwnScript is not inductive: a hash of this build on the GPU machine  *)
(* vouches for the script (HashVouches), because the script is moved before *)
(* its hash and nothing ever puts another script back.  SucceededIsTrained  *)
(* needs to know where a "done" comes from (DoneIsTrue), whichever of the   *)
(* files and processes holds it.  ReportIsFinal rests on who may still write *)
(* status.json after a final answer: nobody (ReportOK).                     *)
(***************************************************************************)
EXTENDS LoraTrainer, TLAPS

SyncSteps ==
  {"idle", "reading", "copying", "waiting", "checking", "script", "sha", "wrapper", "ready"}

SyncOK ==
  /\ remote \in [script : {Missing, Old, Version}, sha : {Missing, Old, Version}, wrapper : BOOLEAN]
  /\ syncing \in [Callers -> SyncSteps]

HashVouches == remote.sha = Version => remote.script = Version

Installing ==
  \A c \in Callers :
    /\ syncing[c] \in {"sha", "wrapper", "ready"} => remote.script = Version
    /\ syncing[c] = "ready" => remote.wrapper

OwnScript == SyncOK /\ HashVouches /\ Installing /\ ran \in {Missing, Version}

(* A step of one caller leaves the others where they are.                   *)
LEMMA GoesType ==
  ASSUME SyncOK, NEW c \in Callers, NEW step \in SyncSteps, Goes(c, step)
  PROVE  /\ syncing' \in [Callers -> SyncSteps]
         /\ syncing'[c] = step
         /\ \A d \in Callers \ {c} : syncing'[d] = syncing[d]
  BY DEF SyncOK, Goes

LEMMA SyncKeepsScript ==
  ASSUME OwnScript, NEW c \in Callers, SyncStep(c) \/ Break(c), UNCHANGED ran
  PROVE  OwnScript'
<1> USE DEF OwnScript
<1>1. CASE /\ UNCHANGED remote
           /\ \E step \in SyncSteps \ {"sha", "wrapper", "ready"} : Goes(c, step)
  <2>1. SyncOK'
    BY <1>1, GoesType DEF SyncOK
  <2> QED
    BY <1>1, <2>1, GoesType DEF HashVouches, Installing
<1>2. CASE UNCHANGED remote /\ UpToDate /\ Goes(c, "ready")
  <2>1. SyncOK'
    BY <1>2, GoesType DEF SyncOK, SyncSteps
  <2> QED
    BY <1>2, <2>1, GoesType DEF HashVouches, Installing, UpToDate, SyncSteps
<1>3. CASE MoveScript(c)
  <2>1. remote'.script = Version /\ remote'.wrapper = remote.wrapper
    BY <1>3 DEF MoveScript, SyncOK
  <2>2. SyncOK'
    BY <1>3, GoesType DEF MoveScript, SyncOK, SyncSteps
  <2> QED
    BY <1>3, <2>1, <2>2, GoesType DEF MoveScript, HashVouches, Installing, SyncSteps
<1>4. CASE MoveSha(c)
  <2>1. remote'.script = Version /\ remote'.wrapper = remote.wrapper
    BY <1>4 DEF MoveSha, At, Installing, SyncOK
  <2>2. SyncOK'
    BY <1>4, GoesType DEF MoveSha, SyncOK, SyncSteps
  <2> QED
    BY <1>4, <2>1, <2>2, GoesType DEF MoveSha, HashVouches, Installing, SyncSteps
<1>5. CASE MoveWrapper(c)
  <2>1. remote'.script = Version /\ remote'.wrapper
    BY <1>5 DEF MoveWrapper, At, Installing, SyncOK
  <2>2. SyncOK'
    BY <1>5, GoesType DEF MoveWrapper, SyncOK, SyncSteps
  <2> QED
    BY <1>5, <2>1, <2>2, GoesType DEF MoveWrapper, HashVouches, Installing, SyncSteps
<1>6. CASE Ensure(c) \/ Copy(c) \/ Flock(c) \/ Break(c)
  BY <1>1, <1>6 DEF Ensure, Copy, Flock, Break, SyncSteps
<1>7. CASE ReadRemote(c) \/ Check(c)
  BY <1>1, <1>2, <1>7 DEF ReadRemote, Check, SyncSteps
<1> QED
  BY <1>3, <1>4, <1>5, <1>6, <1>7 DEF SyncStep, Move

LEMMA NextKeepsScript == OwnScript /\ [Next]_vars => OwnScript'
<1> SUFFICES ASSUME OwnScript, [Next]_vars PROVE OwnScript'
  OBVIOUS
<1>1. ASSUME NEW c \in Callers, Sync(c) \/ BreakSync(c)
      PROVE  OwnScript'
  BY <1>1, SyncKeepsScript DEF Sync, BreakSync
<1>2. ASSUME NEW c \in Callers, Launch(c)
      PROVE  OwnScript'
  <2>1. remote.script = Version
    BY <1>2 DEF Launch, At, OwnScript, Installing
  <2> QED
    BY <1>2, <2>1 DEF Launch, OwnScript, SyncOK, HashVouches, Installing, syncVars
<1>3. CASE UNCHANGED <<syncVars, ran>>
  BY <1>3 DEF OwnScript, SyncOK, HashVouches, Installing, syncVars
<1> QED
  BY <1>1, <1>2, <1>3 DEF Next, Command, KillChild, vars

(* The job is run by the script of this build, and whoever is ready finds   *)
(* that script and its wrapper in place.                                    *)
THEOREM OwnScriptRuns == Spec => []RunsOwnScript
<1>1. ASSUME Init PROVE OwnScript
  <2> DEFINE Empty == [script |-> Missing, sha |-> Missing, wrapper |-> FALSE]
             Earlier == [script : {Old}, sha : {Old, Missing}, wrapper : {TRUE}]
             Remotes == [script : {Missing, Old, Version}, sha : {Missing, Old, Version},
                         wrapper : BOOLEAN]
  <2>0. remote = Empty \/ remote \in Earlier
    BY <1>1 DEF Init, SyncInit
  <2>1. remote \in Remotes
    <3>1. Empty \in Remotes
      OBVIOUS
    <3>2. Earlier \subseteq Remotes
      OBVIOUS
    <3> QED
      BY <2>0, <3>1, <3>2
  <2>2. remote.sha # Version
    <3>1. Version # Missing /\ Version # Old
      BY SyncAssumption
    <3>2. Empty.sha = Missing
      OBVIOUS
    <3>3. \A r \in Earlier : r.sha \in {Old, Missing}
      OBVIOUS
    <3> QED
      BY <2>0, <3>1, <3>2, <3>3
  <2>3. \A c \in Callers : syncing[c] = "idle"
    BY <1>1 DEF Init, SyncInit
  <2>4. syncing \in [Callers -> SyncSteps]
    BY <1>1 DEF Init, SyncInit, SyncSteps
  <2>5. ran \in {Missing, Version}
    BY <1>1 DEF Init
  <2> QED
    BY <2>1, <2>2, <2>3, <2>4, <2>5 DEF OwnScript, SyncOK, HashVouches, Installing
<1>2. OwnScript /\ [Next]_vars => OwnScript'
  BY NextKeepsScript
<1>3. OwnScript => RunsOwnScript
  BY DEF OwnScript, Installing, RunsOwnScript, At
<1> QED
  BY <1>1, <1>2, <1>3, PTL DEF Spec
-----------------------------------------------------------------------------
(* What is handed out was trained.  A "done", wherever it is read, comes    *)
(* from a training process that has trained and written the metadata, and   *)
(* from then on changes neither.                                            *)
Texts == {"none", "empty", "torn", "submitted", "running", "done", "failed"}

RunnerSteps ==
  {"off", "read", "pid", "open", "write", "replace", "work", "exit", "refused", "answered"}

Stages == {"none", "running", "phase", "metadata", "done", "failed"}

Process == [at : RunnerSteps, cmd : {"none", "status", "finalize"}, seen : Texts,
            fd : Inodes \cup {0}]

RunnerOK ==
  /\ inode \in [Inodes -> Texts]
  /\ statusFile \in Inodes \cup {0} /\ tmpFile \in Inodes \cup {0}
  /\ procs \in [Processes -> Process]
  /\ stage \in Stages
  /\ output \in [model : {"none", "final", "checkpoint"}, metadata : BOOLEAN]
  /\ trained \in BOOLEAN

(* Nothing runs before the job is submitted, and each stage has its steps.  *)
Staged ==
  /\ statusFile = 0 <=> stage = "none"
  /\ statusFile = 0 => \A p \in Processes : procs[p].at = "off"
  /\ procs[Child].at = "work" => stage \in {"running", "phase"}
  /\ stage = "metadata" => procs[Child].at \in {"read", "off"}

DoneSomewhere ==
  \/ \E i \in Inodes : inode[i] = "done"
  \/ \E p \in Processes : procs[p].seen = "done"
  \/ finalized = "succeeded"

DoneIsTrue ==
  /\ DoneSomewhere => trained /\ output.metadata /\ stage \in Terminal
  /\ stage \in {"metadata", "done"} => trained
  /\ stage = "done" => output.metadata
  /\ finalized = "succeeded" => output.model # "none"

HandsOut == RunnerOK /\ Staged /\ DoneIsTrue

LEMMA SetsProcess ==
  ASSUME RunnerOK, NEW p \in Processes, NEW record \in Process, Sets(p, record)
  PROVE  /\ procs' \in [Processes -> Process] /\ procs'[p] = record
         /\ \A q \in Processes \ {p} : procs'[q] = procs[q]
  BY DEF RunnerOK, Sets

(* A process goes on to a step with nothing new in its hands.               *)
LEMMA StepProcess ==
  ASSUME NEW step \in RunnerSteps
  PROVE  /\ [Off EXCEPT !.at = step] \in Process
         /\ [Off EXCEPT !.at = step].at = step /\ [Off EXCEPT !.at = step].seen = "none"
         /\ Off \in Process /\ Off.at = "off" /\ Off.seen = "none"
  BY DEF Off, Process, RunnerSteps, Texts

(* What follows an update: an answer, an exception, the next step.          *)
Follows(p) ==
  /\ procs' \in [Processes -> Process]
  /\ procs'[p].seen = "none"
  /\ \A q \in Processes \ {p} : procs'[q] = procs[q]
  /\ finalized' = "succeeded" => finalized = "succeeded"
  /\ \/ /\ p = Child /\ stage' = "failed" /\ procs'[p].at \in {"off", "read"}
     \/ /\ UNCHANGED stage
        /\ p = Child /\ stage \notin Terminal => procs'[p].at = "work"
        /\ p = Child /\ stage \in Terminal => procs'[p].at = "exit"

LEMMA Different ==
  /\ Submitter \in Processes /\ Child \in Processes /\ Submitter # Child
  /\ \A p \in Pollers : p \in Processes /\ p # Child /\ p # Submitter
  /\ \A p \in Processes : p = Submitter \/ p = Child \/ p \in Pollers
  BY RunnerAssumption DEF Processes

LEMMA AnswersFollows ==
  ASSUME RunnerOK, NEW p \in Pollers, NEW answer, answer # "succeeded",
         Answers(p, answer), UNCHANGED stage
  PROVE  Follows(p)
<1>1. p \in Processes /\ p # Child
  BY Different
<1>2. Sets(p, Off) /\ Off \in Process /\ Off.seen = "none"
  BY StepProcess DEF Answers, RunnerSteps
<1>3. finalized' = "succeeded" => finalized = "succeeded"
  BY DEF Answers
<1> QED
  BY <1>1, <1>2, <1>3, SetsProcess DEF Follows

LEMMA RaisesFollows ==
  ASSUME RunnerOK, NEW p \in Processes, Raises(p), p = Child => stage # "none"
  PROVE  Follows(p)
<1>1. CASE p = Submitter
  <2>1. Sets(p, [Off EXCEPT !.at = "refused"]) /\ UNCHANGED <<stage, finalized>>
    BY <1>1, Different DEF Raises
  <2>2. [Off EXCEPT !.at = "refused"] \in Process /\ [Off EXCEPT !.at = "refused"].seen = "none"
    BY StepProcess DEF RunnerSteps
  <2> QED
    BY <1>1, <2>1, <2>2, SetsProcess, Different DEF Follows
<1>2. CASE p = Child
  <2>1. ChildRaises
    BY <1>2, Different DEF Raises
  <2>2. PICK step \in {"off", "read"} : Sets(p, [Off EXCEPT !.at = step]) /\ stage' = "failed"
    BY <1>2, <2>1 DEF ChildRaises, Off
  <2>3. [Off EXCEPT !.at = step] \in Process /\ [Off EXCEPT !.at = step].seen = "none"
        /\ [Off EXCEPT !.at = step].at = step
    BY StepProcess DEF RunnerSteps
  <2>4. UNCHANGED finalized
    BY <2>1 DEF ChildRaises
  <2> QED
    BY <1>2, <2>2, <2>3, <2>4, SetsProcess DEF Follows
<1>3. CASE p \in Pollers
  BY <1>3, AnswersFollows, Different DEF Raises
<1> QED
  BY <1>1, <1>2, <1>3, Different

LEMMA ContinuesFollows ==
  ASSUME RunnerOK, NEW p \in Processes, Continues(p)
  PROVE  Follows(p)
<1>1. CASE p = Submitter
  <2>1. Sets(p, [Off EXCEPT !.at = "answered"]) /\ UNCHANGED <<stage, finalized>>
    BY <1>1, Different DEF Continues
  <2>2. [Off EXCEPT !.at = "answered"] \in Process /\ [Off EXCEPT !.at = "answered"].seen = "none"
    BY StepProcess DEF RunnerSteps
  <2> QED
    BY <1>1, <2>1, <2>2, SetsProcess, Different DEF Follows
<1>2. CASE p = Child
  <2>1. PICK step \in {"exit", "work"} :
          /\ Sets(p, [Off EXCEPT !.at = step]) /\ UNCHANGED <<stage, finalized>>
          /\ IF stage \in Terminal THEN step = "exit" ELSE step = "work"
    BY <1>2, Different DEF Continues
  <2>2. [Off EXCEPT !.at = step] \in Process /\ [Off EXCEPT !.at = step].seen = "none"
        /\ [Off EXCEPT !.at = step].at = step
    BY StepProcess DEF RunnerSteps
  <2> QED
    BY <1>2, <2>1, <2>2, SetsProcess DEF Follows
<1>3. CASE p \in Pollers
  BY <1>3, AnswersFollows, Different DEF Continues
<1> QED
  BY <1>1, <1>2, <1>3, Different

(* The files and the output keep what they have.                            *)
LEMMA FollowsKeeps ==
  ASSUME HandsOut, NEW p \in Processes, procs[p].at # "off", Follows(p),
         p = Child => stage # "metadata" \/ stage' = "failed",
         inode' \in [Inodes -> Texts], \A i \in Inodes : inode'[i] = "done" => DoneSomewhere,
         statusFile' \in Inodes, tmpFile' \in Inodes \cup {0}, UNCHANGED <<output, trained>>
  PROVE  HandsOut'
<1>1. stage # "none" /\ stage' # "none" /\ stage' \in Stages
  BY DEF HandsOut, Staged, Follows, RunnerOK, Stages
<1>2. RunnerOK'
  BY <1>1 DEF HandsOut, RunnerOK, Follows
<1>3. Staged'
  <2>1. stage' = "failed" \/ UNCHANGED stage
    BY DEF Follows
  <2>2. procs'[Child].at = "work" => stage' \in {"running", "phase"}
    BY <1>1, Different DEF Follows, HandsOut, Staged, RunnerOK, Stages, Terminal
  <2>3. stage' = "metadata" => procs'[Child].at \in {"read", "off"}
    BY Different DEF Follows, HandsOut, Staged
  <2> QED
    BY <1>1, <2>2, <2>3 DEF Staged, Inodes
<1>4. DoneSomewhere' => DoneSomewhere
  BY DEF DoneSomewhere, Follows
<1>5. DoneIsTrue'
  BY <1>4 DEF DoneIsTrue, Follows, HandsOut, Terminal, DoneSomewhere
<1> QED
  BY <1>2, <1>3, <1>5 DEF HandsOut

(* A step that only brings a process further.                               *)
LEMMA MovesKeeps ==
  ASSUME HandsOut, NEW p \in Processes, NEW record \in Process, Sets(p, record),
         statusFile # 0, record.at # "work", p = Child /\ stage = "metadata" => record.at = "off",
         record.seen = "done" => DoneSomewhere \/ stage = "done",
         inode' \in [Inodes -> Texts], \A i \in Inodes : inode'[i] = "done" => DoneSomewhere,
         tmpFile' \in Inodes \cup {0}, UNCHANGED <<statusFile, stage, output, trained>>,
         finalized' = "succeeded" => finalized = "succeeded"
  PROVE  HandsOut'
<1>1. /\ procs' \in [Processes -> Process] /\ procs'[p] = record
      /\ \A q \in Processes \ {p} : procs'[q] = procs[q]
  BY SetsProcess DEF HandsOut
<1>2. RunnerOK'
  BY <1>1 DEF HandsOut, RunnerOK
<1>3. Staged'
  <2>1. procs'[Child].at = "work" => stage' \in {"running", "phase"}
    BY <1>1, Different DEF HandsOut, Staged
  <2>2. stage' = "metadata" => procs'[Child].at \in {"read", "off"}
    BY <1>1, Different DEF HandsOut, Staged
  <2> QED
    BY <2>1, <2>2 DEF HandsOut, Staged
<1>4. DoneSomewhere' => DoneSomewhere \/ stage = "done"
  BY <1>1 DEF DoneSomewhere
<1>5. DoneIsTrue'
  BY <1>4 DEF DoneIsTrue, HandsOut, Terminal, DoneSomewhere
<1> QED
  BY <1>2, <1>3, <1>5 DEF HandsOut

(* The status that is read, and what it says when it says done.             *)
LEMMA StatusRead ==
  ASSUME HandsOut, NEW p \in Processes, procs[p].at # "off"
  PROVE  /\ statusFile \in Inodes /\ statusFile # 0 /\ stage # "none"
         /\ inode[statusFile] \in Texts
         /\ inode[statusFile] = "done" => DoneSomewhere
  BY DEF HandsOut, RunnerOK, Staged, DoneSomewhere, Inodes

LEMMA NothingNew ==
  ASSUME HandsOut, UNCHANGED inode
  PROVE  inode' \in [Inodes -> Texts] /\ \A i \in Inodes : inode'[i] = "done" => DoneSomewhere
  BY DEF HandsOut, RunnerOK, DoneSomewhere

(* What a process has in its hands.                                         *)
LEMMA InHand ==
  ASSUME HandsOut, NEW p \in Processes
  PROVE  /\ procs[p] \in Process
         /\ procs[p].seen = "done" => DoneSomewhere
  BY DEF HandsOut, RunnerOK, DoneSomewhere

LEMMA SeenRecord ==
  ASSUME NEW record \in Process, NEW step \in RunnerSteps, NEW text \in Texts
  PROVE  /\ [record EXCEPT !.at = step, !.seen = text] \in Process
         /\ [record EXCEPT !.at = step, !.seen = text].at = step
         /\ [record EXCEPT !.at = step, !.seen = text].seen = text
  BY DEF Process

(* Read: a finalize command of a job that is done looks for the model.      *)
LEMMA FinalizesKeeps ==
  ASSUME HandsOut, NEW p \in Pollers, procs[p].at # "off", DoneSomewhere, Finalizes(p),
         UNCHANGED <<inode, statusFile, tmpFile, stage, trained>>
  PROVE  HandsOut'
<1>1. p \in Processes /\ p # Child
  BY Different
<1>2. CASE output.model = "none"
  <2>1. Answers(p, "error") /\ UNCHANGED output
    BY <1>2 DEF Finalizes
  <2> QED
    BY <1>1, <2>1, AnswersFollows, FollowsKeeps, StatusRead, NothingNew DEF HandsOut, RunnerOK
<1>3. CASE output.model # "none"
  <2>1. Answers(p, "succeeded") /\ output' = [output EXCEPT !.metadata = TRUE]
    BY <1>3 DEF Finalizes
  <2>2. /\ output' \in [model : {"none", "final", "checkpoint"}, metadata : BOOLEAN]
        /\ output'.metadata /\ output'.model # "none"
    BY <1>3, <2>1 DEF HandsOut, RunnerOK
  <2>3. trained /\ stage \in Terminal
    BY DEF HandsOut, DoneIsTrue
  <2>4. /\ procs' \in [Processes -> Process] /\ procs'[p] = Off
        /\ \A q \in Processes \ {p} : procs'[q] = procs[q]
    BY <1>1, <2>1, StepProcess, SetsProcess DEF Answers, RunnerSteps, HandsOut
  <2>5. RunnerOK'
    BY <2>2, <2>4 DEF HandsOut, RunnerOK
  <2>6. Staged'
    BY <1>1, <2>4, Different, StatusRead DEF HandsOut, Staged
  <2>7. DoneIsTrue'
    BY <2>2, <2>3 DEF DoneIsTrue
  <2> QED
    BY <2>5, <2>6, <2>7 DEF HandsOut
<1> QED
  BY <1>2, <1>3

LEMMA ReadKeeps ==
  ASSUME HandsOut, NEW p \in Processes, Read(p)
  PROVE  HandsOut'
<1> DEFINE status == inode[statusFile]
<1>1. /\ procs[p].at = "read" /\ procs[p].at # "off" /\ procs[p] \in Process
      /\ UNCHANGED <<inode, statusFile, tmpFile, trained>>
  BY InHand DEF Read, In
<1>2. /\ statusFile \in Inodes /\ statusFile # 0 /\ stage # "none" /\ status \in Texts
      /\ status = "done" => DoneSomewhere
  BY <1>1, StatusRead
<1>3. /\ inode' \in [Inodes -> Texts] /\ \A i \in Inodes : inode'[i] = "done" => DoneSomewhere
      /\ statusFile' \in Inodes /\ tmpFile' \in Inodes \cup {0}
  BY <1>1, <1>2, NothingNew DEF HandsOut, RunnerOK
<1>4. CASE Raises(p) /\ UNCHANGED output
  <2>1. Follows(p)
    BY <1>2, <1>4, RaisesFollows DEF HandsOut
  <2>2. p = Child => stage' = "failed" \/ stage # "metadata"
    <3>1. ASSUME p = Child PROVE stage \notin {"metadata"} \/ stage' = "failed"
      BY <1>4, <3>1, Different DEF Raises, ChildRaises
    <3> QED
      BY <3>1
  <2> QED
    BY <1>1, <1>3, <1>4, <2>1, <2>2, FollowsKeeps
<1>5. CASE /\ \E s \in Texts : /\ Sets(p, [procs[p] EXCEPT !.at = "open", !.seen = s])
                               /\ s = "done" => status = "done" \/ stage = "done"
           /\ p = Child => stage # "metadata"
           /\ UNCHANGED <<stage, output, finalized>>
  <2>1. PICK s \in Texts : /\ Sets(p, [procs[p] EXCEPT !.at = "open", !.seen = s])
                           /\ s = "done" => status = "done" \/ stage = "done"
    BY <1>5
  <2>2. /\ [procs[p] EXCEPT !.at = "open", !.seen = s] \in Process
        /\ [procs[p] EXCEPT !.at = "open", !.seen = s].at = "open"
        /\ [procs[p] EXCEPT !.at = "open", !.seen = s].seen = s
    BY <1>1, <1>2, SeenRecord DEF RunnerSteps
  <2> QED
    BY <1>1, <1>2, <1>3, <1>5, <2>1, <2>2, MovesKeeps
<1>6. CASE /\ p = Child /\ stage = "metadata" /\ stage' = "done"
           /\ output' = [output EXCEPT !.metadata = TRUE] /\ UNCHANGED <<procs, finalized>>
  <2>1. /\ output' \in [model : {"none", "final", "checkpoint"}, metadata : BOOLEAN]
        /\ output'.metadata /\ output'.model = output.model
    BY <1>6 DEF HandsOut, RunnerOK
  <2>2. RunnerOK'
    BY <1>1, <1>6, <2>1 DEF HandsOut, RunnerOK, Stages
  <2>3. Staged'
    BY <1>1, <1>2, <1>6 DEF HandsOut, Staged
  <2>4. DoneSomewhere' <=> DoneSomewhere
    BY <1>1, <1>6 DEF DoneSomewhere
  <2>5. DoneIsTrue'
    BY <1>1, <1>6, <2>1, <2>4 DEF HandsOut, DoneIsTrue, Terminal
  <2> QED
    BY <2>2, <2>3, <2>5 DEF HandsOut
<1>7. CASE p \in Pollers /\ Reports(p, status) /\ UNCHANGED stage
  <2>1. CASE status = "done" /\ Finalizes(p)
    BY <1>1, <1>2, <1>7, <2>1, FinalizesKeeps
  <2>2. CASE Answers(p, status) /\ UNCHANGED output
    <3>1. status # "succeeded"
      BY <1>2 DEF Texts
    <3>2. Follows(p)
      BY <1>7, <2>2, <3>1, AnswersFollows DEF HandsOut
    <3> QED
      BY <1>1, <1>3, <1>7, <2>2, <3>2, FollowsKeeps, Different
  <2> QED
    BY <1>7, <2>1, <2>2 DEF Reports
<1>8. CASE /\ p \in Pollers /\ Sets(p, [procs[p] EXCEPT !.at = "pid", !.seen = status])
           /\ UNCHANGED <<stage, output, finalized>>
  <2>1. /\ [procs[p] EXCEPT !.at = "pid", !.seen = status] \in Process
        /\ [procs[p] EXCEPT !.at = "pid", !.seen = status].at = "pid"
        /\ [procs[p] EXCEPT !.at = "pid", !.seen = status].seen = status
    BY <1>1, <1>2 DEF Process, RunnerSteps
  <2> QED
    BY <1>1, <1>2, <1>3, <1>8, <2>1, MovesKeeps, Different
<1>9. CASE p = Submitter /\ Sets(p, [procs[p] EXCEPT !.at = "open", !.seen = status])
           /\ UNCHANGED <<stage, output, finalized>>
  BY <1>2, <1>5, <1>9, Different
<1>10. CASE /\ p = Child /\ stage # "metadata"
            /\ \E s \in Updated(status) : Sets(p, [procs[p] EXCEPT !.at = "open", !.seen = s])
            /\ UNCHANGED <<stage, output, finalized>>
  <2>1. PICK s \in Updated(status) : Sets(p, [procs[p] EXCEPT !.at = "open", !.seen = s])
    BY <1>10
  <2>2. s \in Texts /\ (s = "done" => status = "done" \/ stage = "done")
    BY <1>2, <1>10 DEF Updated, Texts, HandsOut, RunnerOK, Stages
  <2> QED
    BY <1>5, <1>10, <2>1, <2>2
<1> QED
  BY <1>4, <1>6, <1>7, <1>8, <1>9, <1>10 DEF Read

LEMMA PidAliveKeeps ==
  ASSUME HandsOut, NEW p \in Processes, PidAlive(p)
  PROVE  HandsOut'
<1>1. /\ procs[p].at = "pid" /\ procs[p] \in Process
      /\ UNCHANGED <<inode, statusFile, tmpFile, stage, output, trained>>
  BY InHand DEF PidAlive, In
<1>2. /\ statusFile \in Inodes /\ statusFile # 0 /\ tmpFile \in Inodes \cup {0}
      /\ inode' \in [Inodes -> Texts] /\ \A i \in Inodes : inode'[i] = "done" => DoneSomewhere
  BY <1>1, StatusRead, NothingNew DEF HandsOut, RunnerOK
<1>3. CASE Answers(p, procs[p].seen)
  <2>1. Sets(p, Off) /\ (finalized' = "succeeded" => finalized = "succeeded")
    BY <1>1, <1>3 DEF Answers, Process, Texts
  <2>2. Off \in Process /\ Off.at = "off" /\ Off.seen = "none"
    BY StepProcess DEF RunnerSteps
  <2> QED
    BY <1>1, <1>2, <2>1, <2>2, MovesKeeps
<1>4. CASE Sets(p, [procs[p] EXCEPT !.at = "open", !.seen = "failed"]) /\ UNCHANGED finalized
  <2>1. /\ [procs[p] EXCEPT !.at = "open", !.seen = "failed"] \in Process
        /\ [procs[p] EXCEPT !.at = "open", !.seen = "failed"].at = "open"
        /\ [procs[p] EXCEPT !.at = "open", !.seen = "failed"].seen = "failed"
    BY <1>1 DEF Process, RunnerSteps, Texts
  <2> QED
    BY <1>1, <1>2, <1>4, <2>1, MovesKeeps DEF HandsOut, Staged
<1> QED
  BY <1>3, <1>4 DEF PidAlive

(* write_json                                                               *)
LEMMA UnusedInode ==
  ASSUME Unused # {}
  PROVE  Min(Unused) \in Unused /\ Min(Unused) \in Inodes
<1>1. Unused \subseteq 1..4
  BY DEF Unused, Inodes
<1>2. \E x \in Unused : \A y \in Unused : x =< y
  <2>1. CASE 1 \in Unused
    BY <1>1, <2>1
  <2>2. CASE 1 \notin Unused /\ 2 \in Unused
    BY <1>1, <2>2
  <2>3. CASE 1 \notin Unused /\ 2 \notin Unused /\ 3 \in Unused
    BY <1>1, <2>3
  <2>4. CASE 1 \notin Unused /\ 2 \notin Unused /\ 3 \notin Unused
    <3>1. \A y \in Unused : y = 4
      BY <1>1, <2>4
    <3>2. 4 \in Unused
      BY <3>1
    <3> QED
      BY <3>1, <3>2
  <2> QED
    BY <2>1, <2>2, <2>3, <2>4
<1> QED
  BY <1>1, <1>2 DEF Min, Inodes

LEMMA OpenKeeps ==
  ASSUME HandsOut, NEW p \in Processes, Open(p)
  PROVE  HandsOut'
<1>1. /\ procs[p].at = "open" /\ procs[p] \in Process /\ statusFile \in Inodes /\ statusFile # 0
      /\ stage # "none" /\ inode \in [Inodes -> Texts]
      /\ UNCHANGED <<statusFile, stage, output, trained, finalized>>
  BY InHand, StatusRead DEF Open, In, HandsOut, RunnerOK
<1>2. (IF tmpFile = 0 THEN Min(Unused) ELSE tmpFile) \in Inodes
  BY UnusedInode DEF Open, HandsOut, RunnerOK
<1>3. PICK i \in Inodes :
        /\ tmpFile' = i /\ inode' = [inode EXCEPT ![i] = "empty"]
        /\ Sets(p, [procs[p] EXCEPT !.at = "write", !.fd = i])
  BY <1>2 DEF Open
<1>4. /\ [procs[p] EXCEPT !.at = "write", !.fd = i] \in Process
      /\ [procs[p] EXCEPT !.at = "write", !.fd = i].at = "write"
      /\ [procs[p] EXCEPT !.at = "write", !.fd = i].seen = procs[p].seen
  BY <1>1 DEF Process, RunnerSteps
<1>5. inode' \in [Inodes -> Texts] /\ \A j \in Inodes : inode'[j] = "done" => DoneSomewhere
  BY <1>1, <1>3 DEF Texts, DoneSomewhere
<1>6. p = Child => stage # "metadata"
  BY <1>1 DEF HandsOut, Staged
<1> QED
  BY <1>1, <1>3, <1>4, <1>5, <1>6, InHand, MovesKeeps

LEMMA WriteOutKeeps ==
  ASSUME HandsOut, NEW p \in Processes, WriteOut(p)
  PROVE  HandsOut'
<1>1. /\ procs[p].at = "write" /\ procs[p] \in Process /\ statusFile \in Inodes /\ statusFile # 0
      /\ stage # "none" /\ inode \in [Inodes -> Texts] /\ tmpFile \in Inodes \cup {0}
      /\ UNCHANGED <<statusFile, tmpFile, stage, output, trained, finalized>>
  BY InHand, StatusRead DEF WriteOut, In, HandsOut, RunnerOK
<1>2. PICK text \in {procs[p].seen, "torn"} : inode' = [inode EXCEPT ![procs[p].fd] = text]
  BY DEF WriteOut
<1>3. text \in Texts /\ (text = "done" => DoneSomewhere)
  BY <1>1, InHand DEF Process, Texts
<1>4. inode' \in [Inodes -> Texts] /\ \A j \in Inodes : inode'[j] = "done" => DoneSomewhere
  BY <1>1, <1>2, <1>3 DEF DoneSomewhere
<1>5. Sets(p, [procs[p] EXCEPT !.at = "replace"])
  BY DEF WriteOut
<1>6. /\ [procs[p] EXCEPT !.at = "replace"] \in Process
      /\ [procs[p] EXCEPT !.at = "replace"].at = "replace"
      /\ [procs[p] EXCEPT !.at = "replace"].seen = procs[p].seen
  BY <1>1 DEF Process, RunnerSteps
<1>7. p = Child => stage # "metadata"
  BY <1>1 DEF HandsOut, Staged
<1> QED
  BY <1>1, <1>4, <1>5, <1>6, <1>7, InHand, MovesKeeps

LEMMA ReplaceKeeps ==
  ASSUME HandsOut, NEW p \in Processes, Replace(p)
  PROVE  HandsOut'
<1>1. /\ procs[p].at = "replace" /\ statusFile \in Inodes /\ stage # "none"
      /\ inode \in [Inodes -> Texts] /\ tmpFile \in Inodes \cup {0}
      /\ UNCHANGED <<output, trained>> /\ tmpFile' = 0
  BY StatusRead DEF Replace, In, HandsOut, RunnerOK
<1>2. Follows(p) /\ statusFile' \in Inodes
  <2>1. CASE tmpFile = 0
    BY <1>1, <2>1, RaisesFollows DEF Replace, HandsOut
  <2>2. CASE tmpFile # 0
    BY <1>1, <2>2, ContinuesFollows DEF Replace, HandsOut
  <2> QED
    BY <2>1, <2>2
<1>3. \A j \in Inodes : inode'[j] \in {inode[j], "empty"}
  BY DEF Replace, Forget
<1>4. inode' \in [Inodes -> Texts]
  <2>1. inode' = [j \in Inodes |-> inode'[j]]
    BY DEF Replace, Forget
  <2> QED
    BY <1>1, <1>3, <2>1 DEF Texts
<1>5. \A j \in Inodes : inode'[j] = "done" => DoneSomewhere
  BY <1>3 DEF DoneSomewhere
<1>6. p = Child => stage # "metadata"
  BY <1>1 DEF HandsOut, Staged
<1> QED
  BY <1>1, <1>2, <1>4, <1>5, <1>6, FollowsKeeps

(* The training process goes on: nothing says done before it has trained.   *)
LEMMA WorkKeeps ==
  ASSUME HandsOut, Work
  PROVE  HandsOut'
<1>1. /\ Child \in Processes /\ procs[Child].at = "work" /\ stage \in {"running", "phase"}
      /\ UNCHANGED <<inode, statusFile, tmpFile, finalized>>
  BY Different DEF Work, In, Ends, Succeeds, BreaksOff, ChildRaises, HandsOut, Staged
<1>2. statusFile # 0 /\ ~DoneSomewhere /\ finalized # "succeeded"
  BY <1>1 DEF HandsOut, Staged, DoneIsTrue, DoneSomewhere, Terminal
<1>3. output' \in [model : {"none", "final", "checkpoint"}, metadata : BOOLEAN]
  BY DEF Work, Ends, Succeeds, BreaksOff, Leaves, HandsOut, RunnerOK
<1>4. PICK step \in {"off", "read"} : Sets(Child, [Off EXCEPT !.at = step])
  BY DEF Work, Ends, Succeeds, BreaksOff, ChildRaises, Off
<1>5. /\ [Off EXCEPT !.at = step] \in Process /\ [Off EXCEPT !.at = step].at = step
      /\ [Off EXCEPT !.at = step].seen = "none"
  BY StepProcess DEF RunnerSteps
<1>6. /\ procs' \in [Processes -> Process] /\ procs'[Child].at = step
      /\ procs'[Child].seen = "none" /\ \A q \in Processes \ {Child} : procs'[q] = procs[q]
  BY <1>1, <1>4, <1>5, SetsProcess DEF HandsOut
<1>7. \/ stage' = "phase" /\ trained' \in BOOLEAN
      \/ stage' = "metadata" /\ trained' = TRUE
      \/ stage' = "failed" /\ trained' = trained
  BY <1>1 DEF Work, Ends, Succeeds, BreaksOff, ChildRaises, NextStage
<1>8. RunnerOK'
  BY <1>1, <1>3, <1>6, <1>7 DEF HandsOut, RunnerOK, Stages
<1>9. Staged'
  BY <1>1, <1>2, <1>6, <1>7 DEF HandsOut, Staged
<1>10. ~DoneSomewhere'
  BY <1>1, <1>2, <1>6 DEF DoneSomewhere
<1>11. DoneIsTrue'
  BY <1>1, <1>2, <1>7, <1>10 DEF DoneIsTrue
<1> QED
  BY <1>8, <1>9, <1>11 DEF HandsOut

(* It stops, at its end or killed, and a command is called.                 *)
LEMMA StopKeeps ==
  ASSUME HandsOut, Exit \/ Kill
  PROVE  HandsOut'
<1>1. /\ Child \in Processes /\ procs[Child].at # "off" /\ Sets(Child, Off)
      /\ UNCHANGED <<inode, statusFile, tmpFile, stage, output, trained, finalized>>
  BY Different DEF Exit, Kill, In, Alive
<1>2. Off \in Process /\ Off.at = "off" /\ Off.seen = "none"
  BY StepProcess DEF RunnerSteps
<1> QED
  BY <1>1, <1>2, NothingNew, StatusRead, MovesKeeps DEF HandsOut, RunnerOK

LEMMA CallKeeps ==
  ASSUME HandsOut, NEW p \in Processes, Call(p)
  PROVE  HandsOut'
<1>1. /\ p # Child /\ Submitter \in Processes /\ procs[Submitter].at = "answered"
      /\ UNCHANGED <<inode, statusFile, tmpFile, stage, output, trained, finalized>>
  BY Different DEF Call, In
<1>2. PICK cmd \in {"status", "finalize"} : Sets(p, [Off EXCEPT !.at = "read", !.cmd = cmd])
  BY DEF Call
<1>3. /\ [Off EXCEPT !.at = "read", !.cmd = cmd] \in Process
      /\ [Off EXCEPT !.at = "read", !.cmd = cmd].at = "read"
      /\ [Off EXCEPT !.at = "read", !.cmd = cmd].seen = "none"
  BY DEF Off, Process, RunnerSteps, Texts
<1>4. statusFile # 0
  BY <1>1, StatusRead
<1> QED
  BY <1>1, <1>2, <1>3, <1>4, NothingNew, MovesKeeps DEF HandsOut, RunnerOK

LEMMA SubmitKeeps ==
  ASSUME HandsOut, Submit
  PROVE  HandsOut'
<1>1. /\ statusFile = 0 /\ stage = "none" /\ ~DoneSomewhere /\ finalized # "succeeded"
      /\ UNCHANGED <<tmpFile, output, trained, finalized>>
      /\ statusFile' = 1 /\ inode' = [inode EXCEPT ![1] = "submitted"] /\ stage' = "running"
  BY DEF Submit, HandsOut, Staged, DoneIsTrue, DoneSomewhere, Terminal
<1>2. /\ [Off EXCEPT !.at = "read"] \in Process /\ [Off EXCEPT !.at = "read"].at = "read"
      /\ [Off EXCEPT !.at = "read"].seen = "none"
  BY StepProcess DEF RunnerSteps
<1>3. /\ procs' \in [Processes -> Process]
      /\ procs'[Child].at = "read"
      /\ \A p \in Processes : procs'[p] = procs[p] \/ procs'[p].seen = "none"
  BY <1>2, Different DEF Submit, HandsOut, RunnerOK
<1>4. RunnerOK'
  BY <1>1, <1>3 DEF HandsOut, RunnerOK, Stages, Inodes, Texts
<1>5. Staged'
  BY <1>1, <1>3 DEF Staged
<1>6. \A i \in Inodes : inode'[i] # "done"
  BY <1>1 DEF HandsOut, RunnerOK, DoneSomewhere
<1>7. ~DoneSomewhere'
  BY <1>1, <1>3, <1>6 DEF DoneSomewhere
<1>8. DoneIsTrue'
  BY <1>1, <1>7 DEF DoneIsTrue
<1> QED
  BY <1>4, <1>5, <1>8 DEF HandsOut

LEMMA NextHandsOut == HandsOut /\ [Next]_vars => HandsOut'
<1> SUFFICES ASSUME HandsOut, [Next]_vars PROVE HandsOut'
  OBVIOUS
<1>1. ASSUME NEW p \in Processes, RunnerStep(p)
      PROVE  HandsOut'
  BY <1>1, ReadKeeps, PidAliveKeeps, OpenKeeps, WriteOutKeeps, ReplaceKeeps, WorkKeeps,
     StopKeeps, CallKeeps DEF RunnerStep
<1>2. CASE UNCHANGED runnerVars
  BY <1>2 DEF HandsOut, RunnerOK, Staged, DoneIsTrue, DoneSomewhere, runnerVars
<1>3. ASSUME NEW c \in Callers, Sync(c) \/ BreakSync(c) \/ Launch(c)
      PROVE  HandsOut'
  BY <1>2, <1>3, SubmitKeeps DEF Sync, BreakSync, Launch
<1> QED
  BY <1>1, <1>2, <1>3, StopKeeps DEF Next, Command, KillChild, vars

(* Before the first job nothing is handed out.                             *)
LEMMA HandsOutStarts == Init => HandsOut
<1> SUFFICES ASSUME Init PROVE HandsOut
  OBVIOUS
<1>1. Off \in Process /\ Off.at = "off" /\ Off.seen = "none"
  BY StepProcess DEF RunnerSteps
<1>2. RunnerOK
  BY <1>1 DEF Init, RunnerInit, RunnerOK, Texts, Stages
<1>3. Staged
  BY <1>1, Different DEF Init, RunnerInit, Staged
<1>4. ~DoneSomewhere
  BY <1>1 DEF Init, RunnerInit, DoneSomewhere
<1>5. DoneIsTrue
  BY <1>4 DEF Init, RunnerInit, DoneIsTrue
<1> QED
  BY <1>2, <1>3, <1>5 DEF HandsOut

(* A job that finalize calls succeeded was trained to its end and has a     *)
(* model and its metadata, for all commands that poll it, and wherever the  *)
(* training process is killed.                                              *)
THEOREM SucceededWasTrained == Spec => []SucceededIsTrained
<1>1. Init => HandsOut
  BY HandsOutStarts
<1>2. HandsOut /\ [Next]_vars => HandsOut'
  BY NextHandsOut
<1>3. HandsOut => SucceededIsTrained
  BY DEF HandsOut, DoneIsTrue, DoneSomewhere, SucceededIsTrained
<1> QED
  BY <1>1, <1>2, <1>3, PTL DEF Spec
-----------------------------------------------------------------------------
(* The answers of the status command.  Unless two writers collide, whoever   *)
(* writes has the temporary file to itself and renames what it has written.  *)
Updating == {"open", "write", "replace"}

Real == Texts \ (Garbage \cup {"none"})

HasFile(p) == procs[p].at \in {"write", "replace"}

Orderly ==
  /\ statusFile # 0 => inode[statusFile] \in Real /\ statusFile # tmpFile
  /\ \A p, q \in Processes : HasFile(p) /\ HasFile(q) => p = q
  /\ \A p \in Processes :
       /\ procs[p].at \in Updating => procs[p].seen \in Real
       /\ HasFile(p) => procs[p].fd = tmpFile /\ tmpFile # 0
       /\ procs[p].at = "write" => inode[tmpFile] = "empty"
       /\ procs[p].at = "replace" => inode[tmpFile] = procs[p].seen

(* A final status is written when nobody trains any more, or by the training *)
(* process as its last.                                                      *)
NotOver ==
  procs[Child].at \notin {"off", "exit"} =>
    /\ statusFile # 0 => inode[statusFile] \notin Terminal
    /\ \A p \in Processes : procs[p].seen \in Terminal => p = Child /\ stage \in Terminal

(* A polling command replaces only what was not final, of a dead process.    *)
Polling ==
  /\ \A p \in Pollers :
       /\ procs[p].at \in {"off", "read", "pid"} \cup Updating
       /\ procs[p].at # "off" => procs[Submitter].at = "answered"
       /\ procs[p].at = "pid" => procs[p].seen \notin Terminal
       /\ procs[p].at \in Updating => procs[p].seen = "failed" /\ procs[Child].at = "off"
  /\ \A p \in Processes : procs[p].at = "pid" => p \in Pollers

OnePolls == \A p, q \in Pollers : procs[p].at # "off" /\ procs[q].at # "off" => p = q

(* A final answer is in the file, and nobody is left who would change it.    *)
Final ==
  reported \in Terminal =>
    /\ procs[Submitter].at = "answered" /\ procs[Child].at \in {"off", "exit"}
    /\ inode[statusFile] = reported
    /\ \A p \in Pollers : procs[p].at \in {"off", "read"}

FilesHeld ==
  /\ statusFile = 0 => tmpFile = 0
  /\ \A p \in Processes :
       /\ procs[p].fd # 0 <=> HasFile(p)
       /\ procs[p].at = "off" => procs[p].seen = "none"

ReportOK ==
  /\ FilesHeld /\ Polling
  /\ ~overlapped => OnePolls
  /\ ~raced => Orderly /\ NotOver
  /\ ~overlapped /\ ~raced => Final

(* What a step promises of the answers.                                      *)
Stays == reported \in Terminal /\ ~overlapped' /\ ~raced' => reported' = reported

Changes(p) == \A q \in Processes \ {p} : procs'[q] = procs[q]

(* What a process has in its hands after a step.                             *)
LEMMA Rests ==
  ASSUME RunnerOK, NEW p \in Processes, Sets(p, Off)
  PROVE  /\ procs'[p].at = "off" /\ procs'[p].fd = 0 /\ procs'[p].seen = "none"
         /\ Changes(p)
  BY DEF RunnerOK, Sets, Changes, Off

LEMMA StartsAt ==
  ASSUME RunnerOK, NEW p \in Processes, NEW step, Sets(p, [Off EXCEPT !.at = step])
  PROVE  /\ procs'[p].at = step /\ procs'[p].fd = 0 /\ procs'[p].seen = "none"
         /\ Changes(p)
  BY DEF RunnerOK, Sets, Changes, Off

LEMMA Takes ==
  ASSUME RunnerOK, NEW p \in Processes, NEW step, NEW text,
         Sets(p, [procs[p] EXCEPT !.at = step, !.seen = text])
  PROVE  /\ procs'[p].at = step /\ procs'[p].fd = procs[p].fd /\ procs'[p].seen = text
         /\ Changes(p)
  BY DEF RunnerOK, Sets, Changes, Process

(* A process that does not hold a file, nor is about to, leaves them alone.  *)
LEMMA RestsKeeps ==
  ASSUME ReportOK, NEW p \in Processes, Changes(p),
         UNCHANGED <<inode, statusFile, tmpFile, raced>>,
         procs'[p].fd = 0, procs'[p].at \notin Updating, procs'[p].seen \notin Terminal,
         procs'[p].at = "off" => procs'[p].seen = "none",
         p = Child => procs'[p].at \in {"off", "exit"} \/ procs[p].at \notin {"off", "exit"},
         p # Child => UNCHANGED stage
  PROVE  FilesHeld' /\ (~raced' => Orderly' /\ NotOver')
<1>1. \A q \in Processes : HasFile(q)' => q # p /\ HasFile(q)
  BY DEF HasFile, Changes, Updating
<1>2. FilesHeld'
  <2>1. ASSUME NEW q \in Processes
        PROVE  /\ procs'[q].fd # 0 <=> procs'[q].at \in {"write", "replace"}
               /\ procs'[q].at = "off" => procs'[q].seen = "none"
    BY DEF ReportOK, FilesHeld, HasFile, Changes, Updating
  <2> QED
    BY <2>1 DEF ReportOK, FilesHeld, HasFile
<1>3. ASSUME ~raced, Orderly PROVE Orderly'
  <2>1. ASSUME NEW q \in Processes, NEW s \in Processes, HasFile(q)', HasFile(s)' PROVE q = s
    BY <1>1, <1>3, <2>1 DEF Orderly
  <2>2. ASSUME NEW q \in Processes
        PROVE  /\ procs'[q].at \in Updating => q # p
               /\ HasFile(q)' => procs'[q].fd = tmpFile' /\ tmpFile' # 0
               /\ procs'[q].at = "write" => q # p
               /\ procs'[q].at = "replace" => q # p
    BY <1>1, <1>3 DEF Orderly, Changes, HasFile, Updating
  <2> QED
    BY <1>3, <2>1, <2>2 DEF Orderly, Changes
<1>4. ASSUME ~raced, NotOver PROVE NotOver'
  <2>1. procs'[Child].at \notin {"off", "exit"} => procs[Child].at \notin {"off", "exit"}
    BY Different DEF Changes
  <2> QED
    BY <1>4, <2>1 DEF NotOver, Changes
<1> QED
  BY <1>2, <1>3, <1>4 DEF ReportOK

LEMMA PollingKeeps ==
  ASSUME Polling, NEW p \in Processes, Changes(p),
         p = Submitter /\ procs[p].at = "answered" => procs'[p].at = "answered",
         p = Child /\ procs[p].at = "off" => procs'[p].at = "off",
         procs'[p].at = "pid" => p \in Pollers,
         p \in Pollers =>
           /\ procs'[p].at \in {"off", "read", "pid"} \cup Updating
           /\ procs'[p].at # "off" => procs[Submitter].at = "answered"
           /\ procs'[p].at = "pid" => procs'[p].seen \notin Terminal
           /\ procs'[p].at \in Updating => procs'[p].seen = "failed" /\ procs[Child].at = "off"
  PROVE  Polling'
<1>1. procs[Submitter].at = "answered" => procs'[Submitter].at = "answered"
  BY Different DEF Changes
<1>2. procs[Child].at = "off" => procs'[Child].at = "off"
  BY Different DEF Changes
<1>3. ASSUME NEW q \in Pollers, q # p PROVE procs'[q] = procs[q]
  BY <1>3, Different DEF Changes
<1>4. ASSUME NEW q \in Processes, procs'[q].at = "pid" PROVE q \in Pollers
  BY <1>4 DEF Polling, Changes
<1> QED
  BY <1>1, <1>2, <1>3, <1>4 DEF Polling

LEMMA OnePollsKeeps ==
  ASSUME NEW p \in Processes, Changes(p), OnePolls,
         p \in Pollers => procs[p].at # "off"
  PROVE  OnePolls'
  BY Different DEF OnePolls, Changes

LEMMA FinalKeeps ==
  ASSUME Final, NEW p \in Processes, Changes(p), UNCHANGED <<inode, statusFile, reported>>,
         p = Submitter => procs[p].at # "answered",
         p = Child => procs'[p].at \in {"off", "exit"} \/ procs[p].at \notin {"off", "exit"},
         p \in Pollers => procs'[p].at \in {"off", "read"} \/ procs[p].at \notin {"off", "read"}
  PROVE  Final'
<1> SUFFICES ASSUME reported \in Terminal PROVE Final'
  BY DEF Final
<1>1. /\ procs'[Submitter].at = "answered" /\ procs'[Child].at \in {"off", "exit"}
      /\ \A q \in Pollers : procs'[q].at \in {"off", "read"}
  BY Different DEF Final, Changes
<1> QED
  BY <1>1 DEF Final

(* When the status is final, the answer that repeats it is the last.         *)
LEMMA AnswerIsFinal ==
  ASSUME NEW p \in Pollers, Changes(p), procs'[p].at = "off", procs[p].at # "off",
         Polling, OnePolls, procs[Child].at \in {"off", "exit"},
         inode'[statusFile'] = reported'
  PROVE  Final'
<1>1. procs'[Submitter].at = "answered" /\ procs'[Child].at \in {"off", "exit"}
  BY Different DEF Changes, Polling
<1>2. \A q \in Pollers : procs'[q].at = "off"
  BY Different DEF Changes, OnePolls
<1> QED
  BY <1>1, <1>2 DEF Final

(* A command answers.                                                        *)
LEMMA AnswersReports ==
  ASSUME HandsOut, ReportOK, NEW p \in Pollers, NEW answer, Answers(p, answer),
         procs[p].at \in {"read", "pid"},
         UNCHANGED <<inode, statusFile, tmpFile, stage, overlapped, raced>>,
         answer \in Terminal /\ procs[p].cmd # "finalize" =>
           procs[p].at = "read" /\ inode[statusFile] = answer,
         procs[p].at = "read" =>
           procs[p].cmd = "finalize" \/ raced \/ inode[statusFile] = answer
  PROVE  ReportOK' /\ Stays
<1>1. /\ p \in Processes /\ p # Child /\ p # Submitter
      /\ procs'[p].at = "off" /\ procs'[p].fd = 0 /\ procs'[p].seen = "none" /\ Changes(p)
  BY Different, Rests DEF Answers, HandsOut
<1>2. FilesHeld' /\ (~raced' => Orderly' /\ NotOver')
  BY <1>1, RestsKeeps DEF Updating, Terminal
<1>3. Polling'
  BY <1>1, PollingKeeps DEF ReportOK, Updating
<1>4. ~overlapped' => OnePolls'
  BY <1>1, OnePollsKeeps DEF ReportOK
<1>5. ASSUME ~overlapped, ~raced PROVE Final' /\ (reported \in Terminal => reported' = reported)
  <2>1. Final /\ Orderly /\ NotOver /\ OnePolls /\ Polling
    BY <1>5 DEF ReportOK
  <2>2. CASE procs[p].cmd = "finalize"
    <3>1. UNCHANGED reported
      BY <2>2 DEF Answers
    <3> QED
      BY <1>1, <2>1, <3>1, FinalKeeps
  <2>3. CASE procs[p].cmd # "finalize"
    <3>1. reported' = answer
      BY <2>3 DEF Answers
    <3>2. reported \in Terminal => answer = reported
      <4>1. reported \in Terminal => procs[p].at = "read" /\ inode[statusFile] = reported
        BY <2>1 DEF Final
      <4> QED
        BY <1>5, <2>3, <4>1
    <3>3. CASE answer \in Terminal
      <4>1. inode[statusFile] = answer /\ procs[p].at = "read"
        BY <2>3, <3>3
      <4>2. statusFile # 0
        BY <1>1, <4>1, StatusRead
      <4>3. procs[Child].at \in {"off", "exit"}
        BY <2>1, <3>3, <4>1, <4>2 DEF NotOver
      <4> QED
        BY <1>1, <2>1, <3>1, <3>2, <4>1, <4>3, AnswerIsFinal
    <3>4. CASE answer \notin Terminal
      BY <3>1, <3>2, <3>4 DEF Final
    <3> QED
      BY <3>3, <3>4
  <2> QED
    BY <2>2, <2>3
<1> QED
  BY <1>2, <1>3, <1>4, <1>5 DEF ReportOK, Stays

(* A process that is not a command goes on, or ends, without a file.         *)
LEMMA OthersReport ==
  ASSUME HandsOut, ReportOK, NEW p \in Processes \ Pollers, Changes(p),
         UNCHANGED <<inode, statusFile, tmpFile, reported, overlapped, raced>>,
         procs'[p].fd = 0, procs'[p].at \notin Updating \cup {"pid"}, procs'[p].seen = "none",
         p = Child => procs[p].at # "off" /\
           (procs'[p].at \in {"off", "exit"} \/ procs[p].at \notin {"off", "exit"}),
         p = Submitter => procs[p].at # "answered",
         p # Child => UNCHANGED stage
  PROVE  ReportOK' /\ Stays
<1>1. FilesHeld' /\ (~raced' => Orderly' /\ NotOver')
  BY RestsKeeps DEF Terminal
<1>2. Polling'
  BY PollingKeeps DEF ReportOK
<1>3. ~overlapped' => OnePolls'
  BY OnePollsKeeps DEF ReportOK
<1>4. ~overlapped /\ ~raced => Final'
  BY FinalKeeps DEF ReportOK
<1> QED
  BY <1>1, <1>2, <1>3, <1>4 DEF ReportOK, Stays

(* A process has read what it is going to replace.                           *)
LEMMA PreparesReport ==
  ASSUME HandsOut, ReportOK, NEW p \in Processes, NEW s \in Texts,
         Sets(p, [procs[p] EXCEPT !.at = "open", !.seen = s]),
         UNCHANGED <<inode, statusFile, tmpFile, stage, reported, overlapped, raced>>,
         procs[p].at \in {"read", "pid"},
         p \in Pollers => procs[p].at = "pid" /\ s = "failed" /\ procs[Child].at = "off",
         ~raced => s \in Real,
         ~raced /\ procs[Child].at \notin {"off", "exit"} /\ s \in Terminal =>
           p = Child /\ stage \in Terminal
  PROVE  ReportOK' /\ Stays
<1>1. procs[p] \in Process /\ procs[p].fd = 0
  BY InHand DEF ReportOK, FilesHeld, HasFile
<1>2. procs'[p].at = "open" /\ procs'[p].fd = 0 /\ procs'[p].seen = s /\ Changes(p)
  BY <1>1, Takes DEF HandsOut
<1>3. \A q \in Processes : HasFile(q)' => q # p /\ HasFile(q)
  BY <1>2 DEF HasFile, Changes
<1>4. FilesHeld'
  <2>1. ASSUME NEW q \in Processes
        PROVE  /\ procs'[q].fd # 0 <=> procs'[q].at \in {"write", "replace"}
               /\ procs'[q].at = "off" => procs'[q].seen = "none"
    BY <1>2 DEF ReportOK, FilesHeld, HasFile, Changes
  <2> QED
    BY <2>1 DEF ReportOK, FilesHeld, HasFile
<1>5. ASSUME ~raced PROVE Orderly'
  <2>1. Orderly
    BY <1>5 DEF ReportOK
  <2>2. ASSUME NEW q \in Processes, NEW t \in Processes, HasFile(q)', HasFile(t)' PROVE q = t
    BY <1>3, <2>1, <2>2 DEF Orderly
  <2>3. ASSUME NEW q \in Processes
        PROVE  /\ procs'[q].at \in Updating => procs'[q].seen \in Real
               /\ HasFile(q)' => procs'[q].fd = tmpFile' /\ tmpFile' # 0
               /\ procs'[q].at = "write" => inode'[tmpFile'] = "empty"
               /\ procs'[q].at = "replace" => inode'[tmpFile'] = procs'[q].seen
    BY <1>2, <1>3, <1>5, <2>1 DEF Orderly, Changes, HasFile
  <2> QED
    BY <2>1, <2>2, <2>3 DEF Orderly
<1>6. ASSUME ~raced PROVE NotOver'
  <2>1. procs'[Child].at \notin {"off", "exit"} => procs[Child].at \notin {"off", "exit"}
    BY <1>2, Different DEF Changes
  <2> QED
    BY <1>2, <1>6, <2>1 DEF NotOver, Changes, ReportOK
<1>7. Polling'
  BY <1>2, PollingKeeps DEF ReportOK, Updating, Polling
<1>8. ~overlapped' => OnePolls'
  BY <1>2, OnePollsKeeps DEF ReportOK
<1>9. ~overlapped /\ ~raced => Final'
  BY <1>2, FinalKeeps DEF ReportOK
<1> QED
  BY <1>4, <1>5, <1>6, <1>7, <1>8, <1>9 DEF ReportOK, Stays

(* A process raises, or goes on after its update.                            *)
Lands(p) ==
  /\ Changes(p) /\ procs'[p].fd = 0 /\ procs'[p].seen = "none"
  /\ p = Submitter => procs'[p].at \in {"refused", "answered"}
  /\ p = Child => procs'[p].at \in {"off", "read", "exit", "work"}
  /\ p \in Pollers => procs'[p].at = "off"
  /\ p # Child => UNCHANGED stage
  /\ p \notin Pollers => UNCHANGED reported

LEMMA AnswersLands ==
  ASSUME HandsOut, NEW p \in Pollers, NEW answer, Answers(p, answer), UNCHANGED stage
  PROVE  Lands(p)
<1>1. p \in Processes /\ p # Child /\ p # Submitter /\ Sets(p, Off)
  BY Different DEF Answers
<1> QED
  BY <1>1, Rests DEF Lands, HandsOut

LEMMA RaisesLands ==
  ASSUME HandsOut, NEW p \in Processes, Raises(p)
  PROVE  Lands(p)
<1>1. CASE p = Submitter
  <2>1. Sets(p, [Off EXCEPT !.at = "refused"]) /\ UNCHANGED <<stage, reported>>
    BY <1>1, Different DEF Raises
  <2>2. /\ procs'[p].fd = 0 /\ procs'[p].seen = "none" /\ Changes(p)
        /\ procs'[p].at \in {"refused", "answered"}
    BY <2>1, StartsAt DEF HandsOut
  <2> QED
    BY <1>1, <2>1, <2>2, Different DEF Lands
<1>2. CASE p = Child
  <2>1. ChildRaises
    BY <1>2, Different DEF Raises
  <2>2. CASE Sets(p, Off)
    BY <1>2, <2>1, <2>2, Rests, Different DEF Lands, HandsOut, ChildRaises
  <2>3. CASE Sets(p, [Off EXCEPT !.at = "read"])
    <3>1. /\ procs'[p].fd = 0 /\ procs'[p].seen = "none" /\ Changes(p)
          /\ procs'[p].at = "read"
      BY <2>3, StartsAt DEF HandsOut
    <3> QED
      BY <1>2, <2>1, <3>1, Different DEF Lands, ChildRaises
  <2> QED
    BY <1>2, <2>1, <2>2, <2>3 DEF ChildRaises
<1>3. CASE p \in Pollers
  BY <1>3, AnswersLands, Different DEF Raises
<1> QED
  BY <1>1, <1>2, <1>3, Different

LEMMA ContinuesLands ==
  ASSUME HandsOut, NEW p \in Processes, Continues(p)
  PROVE  /\ Lands(p) /\ UNCHANGED stage
         /\ p = Child => procs'[p].at = IF stage \in Terminal THEN "exit" ELSE "work"
         /\ p \in Pollers => reported' \in {reported, "failed"}
<1>1. CASE p = Submitter
  <2>1. Sets(p, [Off EXCEPT !.at = "answered"]) /\ UNCHANGED <<stage, reported>>
    BY <1>1, Different DEF Continues
  <2>2. /\ procs'[p].fd = 0 /\ procs'[p].seen = "none" /\ Changes(p)
        /\ procs'[p].at \in {"refused", "answered"}
    BY <2>1, StartsAt DEF HandsOut
  <2> QED
    BY <1>1, <2>1, <2>2, Different DEF Lands
<1>2. CASE p = Child
  <2> DEFINE step == IF stage \in Terminal THEN "exit" ELSE "work"
  <2>1. Sets(p, [Off EXCEPT !.at = step]) /\ UNCHANGED <<stage, reported>>
    BY <1>2, Different DEF Continues
  <2>2. step \in {"exit", "work"}
    OBVIOUS
  <2>3. procs'[p].at = step /\ procs'[p].fd = 0 /\ procs'[p].seen = "none" /\ Changes(p)
    <3> HIDE DEF step
    <3> QED
      BY <2>1, StartsAt DEF HandsOut
  <2> QED
    BY <1>2, <2>1, <2>2, <2>3, Different DEF Lands
<1>3. CASE p \in Pollers
  <2>1. Answers(p, "failed") /\ UNCHANGED stage
    BY <1>3, Different DEF Continues
  <2> QED
    BY <1>3, <2>1, AnswersLands, Different DEF Answers
<1> QED
  BY <1>1, <1>2, <1>3, Different

LEMMA ReadReports ==
  ASSUME HandsOut, ReportOK, NEW p \in Processes, Read(p)
  PROVE  ReportOK' /\ Stays
<1> DEFINE status == inode[statusFile]
<1>1. /\ procs[p].at = "read" /\ procs[p] \in Process /\ procs[p].fd = 0
      /\ UNCHANGED <<inode, statusFile, tmpFile, overlapped, raced>>
  BY InHand DEF Read, In, ReportOK, FilesHeld, HasFile
<1>2. statusFile # 0 /\ status \in Texts /\ (~raced => status \in Real)
  BY <1>1, StatusRead DEF ReportOK, Orderly
<1>3. CASE status \in Garbage /\ Raises(p)
  <2>1. raced
    BY <1>2, <1>3 DEF Real
  <2>2. Lands(p)
    BY <1>3, RaisesLands
  <2>3. procs'[p].at \notin Updating \cup {"pid"}
    BY <2>2, Different DEF Lands, Updating
  <2>4. FilesHeld'
    <3>1. p = Child => procs'[p].at \in {"off", "exit"} \/ procs[p].at \notin {"off", "exit"}
      BY <1>1
    <3> QED
      BY <1>1, <2>2, <2>3, <3>1, RestsKeeps DEF Lands, Terminal
  <2>5. Polling'
    BY <1>1, <2>2, <2>3, PollingKeeps DEF ReportOK, Lands
  <2>6. ~overlapped' => OnePolls'
    BY <1>1, <2>2, OnePollsKeeps DEF ReportOK, Lands
  <2> QED
    BY <1>1, <2>1, <2>4, <2>5, <2>6 DEF ReportOK, Stays
<1>4. CASE /\ p = Submitter /\ status \notin Garbage
           /\ Sets(p, [procs[p] EXCEPT !.at = "open", !.seen = status])
           /\ UNCHANGED <<stage, reported>>
  <2>1. ~raced /\ procs[Child].at \notin {"off", "exit"} => status \notin Terminal
    BY <1>2 DEF ReportOK, NotOver
  <2> QED
    BY <1>1, <1>2, <1>4, <2>1, PreparesReport, Different
<1>5. CASE /\ p = Child /\ status \notin Garbage /\ stage # "metadata"
           /\ \E s \in Updated(status) : Sets(p, [procs[p] EXCEPT !.at = "open", !.seen = s])
           /\ UNCHANGED <<stage, reported>>
  <2>1. PICK s \in Updated(status) : Sets(p, [procs[p] EXCEPT !.at = "open", !.seen = s])
    BY <1>5
  <2>2. stage \in {"running", "phase", "done", "failed"}
    BY <1>1, <1>5, StatusRead DEF HandsOut, RunnerOK, Stages
  <2>3. s \in Texts /\ (~raced => s \in Real)
    BY <1>2, <2>2 DEF Updated, Texts, Real, Garbage
  <2>4. ~raced /\ s \in Terminal => stage \in Terminal
    <3>1. ~raced => status \notin Terminal
      BY <1>1, <1>2, <1>5 DEF ReportOK, NotOver
    <3> QED
      BY <2>2, <3>1 DEF Updated, Terminal
  <2> QED
    BY <1>1, <1>5, <2>1, <2>3, <2>4, PreparesReport, Different
<1>6. CASE p = Child /\ stage = "metadata" /\ stage' = "done" /\ UNCHANGED <<procs, reported>>
  <2>1. (~raced => Orderly') /\ FilesHeld' /\ Polling' /\ (~overlapped => OnePolls')
    BY <1>1, <1>6 DEF ReportOK, Orderly, FilesHeld, Polling, OnePolls, HasFile
  <2>2. ~raced => NotOver'
    BY <1>1, <1>6 DEF ReportOK, NotOver, Terminal
  <2>3. ~overlapped /\ ~raced => Final'
    BY <1>1, <1>6 DEF ReportOK, Final
  <2> QED
    BY <1>1, <1>6, <2>1, <2>2, <2>3 DEF ReportOK, Stays
<1>7. CASE p \in Pollers /\ status \notin Garbage /\ UNCHANGED stage /\ Reports(p, status)
  <2>1. CASE procs[p].cmd = "finalize" /\ status = "done"
    <3>1. PICK answer \in {"error", "succeeded"} : Answers(p, answer)
      BY <1>7, <2>1 DEF Reports, Finalizes
    <3> QED
      BY <1>1, <1>7, <2>1, <3>1, AnswersReports
  <2>2. CASE Answers(p, status)
    BY <1>1, <1>7, <2>2, AnswersReports
  <2> QED
    BY <1>7, <2>1, <2>2 DEF Reports
<1>8. CASE /\ p \in Pollers /\ status \notin Terminal
           /\ Sets(p, [procs[p] EXCEPT !.at = "pid", !.seen = status])
           /\ UNCHANGED <<stage, reported>>
  <2>1. procs'[p].at = "pid" /\ procs'[p].fd = 0 /\ procs'[p].seen = status /\ Changes(p)
    BY <1>1, <1>8, Takes DEF HandsOut
  <2>2. p # Child /\ p # Submitter /\ procs[Submitter].at = "answered"
    BY <1>1, <1>8, Different DEF ReportOK, Polling
  <2>3. FilesHeld' /\ (~raced' => Orderly' /\ NotOver')
    BY <1>1, <1>8, <2>1, <2>2, RestsKeeps DEF Updating
  <2>4. Polling'
    BY <1>8, <2>1, <2>2, PollingKeeps DEF ReportOK, Updating
  <2>5. ~overlapped' => OnePolls'
    BY <1>1, <2>1, OnePollsKeeps DEF ReportOK
  <2>6. ~overlapped /\ ~raced => reported \notin Terminal
    <3>1. ~overlapped /\ ~raced /\ reported \in Terminal => inode[statusFile] = reported
      BY DEF ReportOK, Final
    <3> QED
      BY <1>8, <3>1
  <2>7. ~overlapped /\ ~raced => Final'
    BY <1>8, <2>6 DEF Final
  <2> QED
    BY <1>1, <1>8, <2>3, <2>4, <2>5, <2>7 DEF ReportOK, Stays
<1> QED
  BY <1>3, <1>4, <1>5, <1>6, <1>7, <1>8 DEF Read, IsTerminal

LEMMA PidAliveReports ==
  ASSUME HandsOut, ReportOK, NEW p \in Processes, PidAlive(p)
  PROVE  ReportOK' /\ Stays
<1>1. /\ procs[p].at = "pid" /\ procs[p] \in Process
      /\ UNCHANGED <<inode, statusFile, tmpFile, stage, overlapped, raced>>
  BY InHand DEF PidAlive, In
<1>2. p \in Pollers
  BY <1>1, Different DEF ReportOK, Polling
<1>3. procs[p].seen \notin Terminal
  BY <1>1, <1>2 DEF ReportOK, Polling
<1>4. CASE Answers(p, procs[p].seen)
  BY <1>1, <1>2, <1>3, <1>4, AnswersReports
<1>5. CASE /\ procs[Child].at = "off" /\ UNCHANGED reported
           /\ Sets(p, [procs[p] EXCEPT !.at = "open", !.seen = "failed"])
  <2>1. "failed" \in Texts /\ "failed" \in Real
    BY DEF Texts, Real, Garbage
  <2> QED
    BY <1>1, <1>2, <1>5, <2>1, PreparesReport
<1> QED
  BY <1>4, <1>5 DEF PidAlive, Alive

(* Nobody replaces the status after a final answer.                          *)
LEMMA UpdatingIsOpen ==
  ASSUME ReportOK, NEW p \in Processes, procs[p].at \in Updating, ~overlapped, ~raced
  PROVE  reported \notin Terminal
<1>1. Final
  BY DEF ReportOK
<1> QED
  BY <1>1, Different DEF Final, Updating

LEMMA OpenReports ==
  ASSUME HandsOut, ReportOK, NEW p \in Processes, Open(p)
  PROVE  ReportOK' /\ Stays
<1>1. /\ procs[p].at = "open" /\ procs[p] \in Process /\ statusFile # 0
      /\ inode \in [Inodes -> Texts] /\ statusFile \in Inodes
      /\ UNCHANGED <<statusFile, stage, reported, overlapped>>
      /\ raced' = (raced \/ \E q \in Processes : procs[q].fd # 0)
  BY InHand, StatusRead DEF Open, In, HandsOut, RunnerOK
<1>2. PICK i \in Inodes :
        /\ i = IF tmpFile = 0 THEN Min(Unused) ELSE tmpFile
        /\ tmpFile' = i /\ inode' = [inode EXCEPT ![i] = "empty"]
        /\ Sets(p, [procs[p] EXCEPT !.at = "write", !.fd = i])
  <2>1. (IF tmpFile = 0 THEN Min(Unused) ELSE tmpFile) \in Inodes
    BY UnusedInode DEF Open, HandsOut, RunnerOK
  <2> QED
    BY <2>1 DEF Open
<1>3. i # 0 /\ (~raced => i # statusFile)
  <2>1. CASE tmpFile = 0
    BY <1>1, <1>2, <2>1, UnusedInode DEF Open, Unused, Inodes
  <2>2. CASE tmpFile # 0
    BY <1>1, <1>2, <2>2 DEF ReportOK, Orderly, Inodes
  <2> QED
    BY <2>1, <2>2
<1>4. /\ procs'[p].at = "write" /\ procs'[p].fd = i /\ procs'[p].seen = procs[p].seen
      /\ Changes(p)
  BY <1>1, <1>2 DEF HandsOut, RunnerOK, Sets, Changes, Process
<1>5. FilesHeld'
  <2>1. ASSUME NEW q \in Processes
        PROVE  /\ procs'[q].fd # 0 <=> procs'[q].at \in {"write", "replace"}
               /\ procs'[q].at = "off" => procs'[q].seen = "none"
    BY <1>3, <1>4 DEF ReportOK, FilesHeld, HasFile, Changes
  <2> QED
    BY <1>1, <2>1 DEF FilesHeld, HasFile
<1>6. ASSUME ~raced' PROVE Orderly' /\ NotOver'
  <2>1. Orderly /\ NotOver /\ ~raced
    BY <1>1, <1>6 DEF ReportOK
  <2>2. \A q \in Processes : ~HasFile(q)
    BY <1>1, <1>6 DEF ReportOK, FilesHeld
  <2>3. \A q \in Processes : HasFile(q)' => q = p
    BY <1>4, <2>2 DEF HasFile, Changes
  <2>4. inode'[statusFile'] = inode[statusFile] /\ inode'[i] = "empty"
    BY <1>1, <1>2, <1>3, <2>1
  <2>5. ASSUME NEW q \in Processes
        PROVE  /\ procs'[q].at \in Updating => procs'[q].seen \in Real
               /\ HasFile(q)' => procs'[q].fd = tmpFile' /\ tmpFile' # 0
               /\ procs'[q].at = "write" => inode'[tmpFile'] = "empty"
               /\ procs'[q].at = "replace" => inode'[tmpFile'] = procs'[q].seen
    BY <1>1, <1>2, <1>3, <1>4, <2>1, <2>2, <2>3, <2>4 DEF Orderly, Changes, HasFile, Updating
  <2>6. Orderly'
    BY <1>1, <1>2, <1>3, <2>1, <2>3, <2>4, <2>5 DEF Orderly
  <2>7. NotOver'
    BY <1>1, <1>4, <2>1, <2>4, Different DEF NotOver, Changes
  <2> QED
    BY <2>6, <2>7
<1>7. Polling'
  BY <1>1, <1>4, PollingKeeps DEF ReportOK, Polling, Updating
<1>8. ~overlapped' => OnePolls'
  BY <1>1, <1>4, OnePollsKeeps DEF ReportOK
<1>9. ~overlapped' /\ ~raced' => Final'
  BY <1>1, UpdatingIsOpen DEF Final, Updating
<1> QED
  BY <1>1, <1>5, <1>6, <1>7, <1>8, <1>9 DEF ReportOK, Stays

LEMMA WriteOutReports ==
  ASSUME HandsOut, ReportOK, NEW p \in Processes, WriteOut(p)
  PROVE  ReportOK' /\ Stays
<1>1. /\ procs[p].at = "write" /\ procs[p] \in Process /\ inode \in [Inodes -> Texts]
      /\ statusFile \in Inodes /\ statusFile # 0 /\ tmpFile \in Inodes \cup {0}
      /\ UNCHANGED <<statusFile, tmpFile, stage, reported, overlapped, raced>>
  BY InHand, StatusRead DEF WriteOut, In, HandsOut, RunnerOK
<1>2. Sets(p, [procs[p] EXCEPT !.at = "replace"])
  BY DEF WriteOut
<1>3. /\ procs'[p].at = "replace" /\ procs'[p].fd = procs[p].fd
      /\ procs'[p].seen = procs[p].seen /\ Changes(p)
  BY <1>1, <1>2 DEF HandsOut, RunnerOK, Sets, Changes, Process
<1>4. FilesHeld'
  <2>1. ASSUME NEW q \in Processes
        PROVE  /\ procs'[q].fd # 0 <=> procs'[q].at \in {"write", "replace"}
               /\ procs'[q].at = "off" => procs'[q].seen = "none"
    BY <1>1, <1>3 DEF ReportOK, FilesHeld, HasFile, Changes
  <2> QED
    BY <1>1, <2>1 DEF FilesHeld, HasFile
<1>5. ASSUME ~raced PROVE Orderly' /\ NotOver'
  <2>1. Orderly /\ NotOver
    BY <1>5 DEF ReportOK
  <2>2. procs[p].fd = tmpFile /\ tmpFile # 0 /\ tmpFile # statusFile /\ inode[tmpFile] = "empty"
    BY <1>1, <2>1 DEF Orderly, HasFile
  <2>3. inode' = [inode EXCEPT ![tmpFile] = procs[p].seen]
    BY <2>2 DEF WriteOut
  <2>4. inode'[statusFile'] = inode[statusFile] /\ inode'[tmpFile] = procs[p].seen
    BY <1>1, <2>2, <2>3
  <2>5. \A q \in Processes : HasFile(q)' => q = p
    BY <1>1, <1>3, <2>1 DEF HasFile, Changes, Orderly
  <2>6. ASSUME NEW q \in Processes
        PROVE  /\ procs'[q].at \in Updating => procs'[q].seen \in Real
               /\ HasFile(q)' => procs'[q].fd = tmpFile' /\ tmpFile' # 0
               /\ procs'[q].at = "write" => inode'[tmpFile'] = "empty"
               /\ procs'[q].at = "replace" => inode'[tmpFile'] = procs'[q].seen
    BY <1>1, <1>3, <2>1, <2>2, <2>4, <2>5 DEF Orderly, Changes, HasFile, Updating
  <2>7. Orderly'
    BY <1>1, <2>1, <2>2, <2>4, <2>5, <2>6 DEF Orderly
  <2>8. NotOver'
    BY <1>1, <1>3, <2>1, <2>4, Different DEF NotOver, Changes
  <2> QED
    BY <2>7, <2>8
<1>6. Polling'
  BY <1>1, <1>3, PollingKeeps DEF ReportOK, Polling, Updating
<1>7. ~overlapped' => OnePolls'
  BY <1>1, <1>3, OnePollsKeeps DEF ReportOK
<1>8. ~overlapped' /\ ~raced' => Final'
  BY <1>1, UpdatingIsOpen DEF Final, Updating
<1> QED
  BY <1>1, <1>4, <1>5, <1>6, <1>7, <1>8 DEF ReportOK, Stays

LEMMA ReplaceReports ==
  ASSUME HandsOut, ReportOK, NEW p \in Processes, Replace(p)
  PROVE  ReportOK' /\ Stays
<1>1. /\ procs[p].at = "replace" /\ statusFile \in Inodes /\ statusFile # 0
      /\ tmpFile \in Inodes \cup {0} /\ tmpFile' = 0 /\ UNCHANGED <<overlapped, raced>>
  BY StatusRead DEF Replace, In, HandsOut, RunnerOK
<1>2. Lands(p) /\ statusFile' # 0
  <2>1. CASE tmpFile = 0
    BY <1>1, <2>1, RaisesLands DEF Replace
  <2>2. CASE tmpFile # 0
    BY <2>2, ContinuesLands DEF Replace
  <2> QED
    BY <2>1, <2>2
<1>3. procs'[p].at \notin Updating \cup {"pid"}
  BY <1>2, Different DEF Lands, Updating
<1>4. FilesHeld'
  <2>1. ASSUME NEW q \in Processes
        PROVE  /\ procs'[q].fd # 0 <=> procs'[q].at \in {"write", "replace"}
               /\ procs'[q].at = "off" => procs'[q].seen = "none"
    BY <1>2, <1>3 DEF ReportOK, FilesHeld, HasFile, Changes, Lands, Updating
  <2> QED
    BY <1>2, <2>1 DEF FilesHeld, HasFile
<1>5. Polling'
  BY <1>1, <1>2, <1>3, PollingKeeps DEF ReportOK, Lands
<1>6. ~overlapped' => OnePolls'
  BY <1>1, <1>2, OnePollsKeeps DEF ReportOK, Lands
<1>7. ASSUME ~raced
      PROVE  /\ Orderly' /\ NotOver'
             /\ Continues(p) /\ inode'[statusFile'] = procs[p].seen
  <2>1. Orderly /\ NotOver
    BY <1>7 DEF ReportOK
  <2>2. tmpFile # 0 /\ inode[tmpFile] = procs[p].seen /\ procs[p].seen \in Real
    BY <1>1, <2>1 DEF Orderly, HasFile, Updating
  <2>3. Continues(p) /\ statusFile' = tmpFile
    BY <2>2 DEF Replace
  <2>4. inode'[statusFile'] = procs[p].seen
    BY <1>1, <2>2, <2>3 DEF Replace, Forget
  <2>5. \A q \in Processes : ~HasFile(q)'
    BY <1>1, <1>2, <1>3, <2>1 DEF HasFile, Changes, Lands, Orderly, Updating
  <2>6. ASSUME NEW q \in Processes
        PROVE  /\ procs'[q].at \in Updating => procs'[q].seen \in Real
               /\ procs'[q].at # "write" /\ procs'[q].at # "replace"
    BY <1>2, <1>3, <2>1, <2>5 DEF Orderly, Changes, Lands, HasFile
  <2>7. Orderly'
    BY <1>1, <1>2, <2>2, <2>4, <2>5, <2>6 DEF Orderly
  <2>8. NotOver'
    <3>1. procs'[Child].at \notin {"off", "exit"} =>
            /\ procs[Child].at \notin {"off", "exit"}
            /\ p = Child => stage \notin Terminal
      BY <1>1, <1>2, <2>3, ContinuesLands, Different DEF Lands, Changes
    <3>2. \A q \in Processes : procs'[q].seen \in Terminal =>
             q # p /\ procs'[q].seen = procs[q].seen
      BY <1>2 DEF Lands, Changes, Terminal
    <3>3. stage' = stage
      BY <2>3, ContinuesLands
    <3> QED
      BY <2>1, <2>4, <3>1, <3>2, <3>3 DEF NotOver
  <2> QED
    BY <2>3, <2>4, <2>7, <2>8
<1>8. ASSUME ~overlapped, ~raced PROVE Final' /\ reported \notin Terminal
  <2>1. reported \notin Terminal /\ OnePolls /\ Polling
    BY <1>1, <1>8, UpdatingIsOpen DEF Updating, ReportOK
  <2>2. Continues(p) /\ inode'[statusFile'] = procs[p].seen
    BY <1>7, <1>8
  <2>3. CASE p \notin Pollers
    BY <1>2, <2>1, <2>3 DEF Lands, Final
  <2>4. CASE p \in Pollers
    <3>1. procs[p].seen = "failed" /\ procs[Child].at = "off"
      BY <1>1, <2>1, <2>4 DEF Polling, Updating
    <3>2. reported' \in {reported, "failed"}
      BY <2>2, <2>4, ContinuesLands
    <3>3. CASE reported' = "failed"
      BY <1>1, <1>2, <2>1, <2>2, <2>4, <3>1, <3>3, AnswerIsFinal DEF Lands
    <3>4. CASE reported' = reported
      BY <2>1, <3>4 DEF Final
    <3> QED
      BY <3>2, <3>3, <3>4
  <2> QED
    BY <2>1, <2>3, <2>4
<1> QED
  BY <1>1, <1>4, <1>5, <1>6, <1>7, <1>8 DEF ReportOK, Stays

(* The training process at work, at its end, or killed.                      *)
LEMMA ChildReports ==
  ASSUME HandsOut, ReportOK, Work \/ Exit \/ Kill
  PROVE  ReportOK' /\ Stays
<1>1. Child \in Processes \ Pollers /\ Child # Submitter
  BY Different
<1>2. UNCHANGED <<inode, statusFile, tmpFile, reported, overlapped, raced>>
  BY DEF Work, Ends, Succeeds, BreaksOff, ChildRaises, Exit, Kill
<1>3. CASE Work
  <2>1. procs[Child].at = "work"
    BY <1>3 DEF Work, In
  <2>2. PICK step \in {"off", "read"} : Sets(Child, [Off EXCEPT !.at = step])
    BY <1>3 DEF Work, Ends, Succeeds, BreaksOff, ChildRaises, Off
  <2>3. /\ procs'[Child].at = step /\ procs'[Child].fd = 0 /\ procs'[Child].seen = "none"
        /\ Changes(Child)
    BY <1>1, <2>2, StartsAt DEF HandsOut
  <2> QED
    BY <1>1, <1>2, <2>1, <2>3, OthersReport DEF Updating
<1>4. CASE Exit \/ Kill
  <2>1. procs[Child].at # "off" /\ Sets(Child, Off)
    BY <1>4 DEF Exit, Kill, In, Alive
  <2>2. /\ procs'[Child].at = "off" /\ procs'[Child].fd = 0 /\ procs'[Child].seen = "none"
        /\ Changes(Child)
    BY <1>1, <2>1, Rests DEF HandsOut
  <2> QED
    BY <1>1, <1>2, <2>1, <2>2, OthersReport DEF Updating
<1> QED
  BY <1>3, <1>4

LEMMA CallReports ==
  ASSUME HandsOut, ReportOK, NEW p \in Processes, Call(p)
  PROVE  ReportOK' /\ Stays
<1>1. /\ p \in Pollers /\ p # Child /\ p # Submitter
      /\ procs[p].at = "off" /\ procs[Submitter].at = "answered"
      /\ UNCHANGED <<inode, statusFile, tmpFile, stage, reported, raced>>
      /\ overlapped' = (overlapped \/ \E q \in Pollers : procs[q].at # "off")
  BY Different DEF Call, In
<1>2. PICK cmd \in {"status", "finalize"} : Sets(p, [Off EXCEPT !.at = "read", !.cmd = cmd])
  BY DEF Call
<1>3. procs'[p].at = "read" /\ procs'[p].fd = 0 /\ procs'[p].seen = "none" /\ Changes(p)
  BY <1>2 DEF HandsOut, RunnerOK, Sets, Changes, Off
<1>4. FilesHeld' /\ (~raced' => Orderly' /\ NotOver')
  BY <1>1, <1>3, RestsKeeps DEF Updating, Terminal
<1>5. Polling'
  BY <1>1, <1>3, PollingKeeps DEF ReportOK, Updating
<1>6. ~overlapped' => OnePolls'
  BY <1>1, <1>3, Different DEF OnePolls, Changes
<1>7. ~overlapped' /\ ~raced' => Final'
  BY <1>1, <1>3, FinalKeeps DEF ReportOK
<1> QED
  BY <1>1, <1>4, <1>5, <1>6, <1>7 DEF ReportOK, Stays

LEMMA SubmitReports ==
  ASSUME HandsOut, ReportOK, Submit
  PROVE  ReportOK' /\ Stays
<1>1. /\ tmpFile = 0 /\ \A p \in Processes : procs[p].at = "off" /\ procs[p].fd = 0
      /\ statusFile' = 1 /\ inode'[1] = "submitted"
      /\ UNCHANGED <<tmpFile, reported, overlapped, raced>>
  BY DEF Submit, ReportOK, FilesHeld, HandsOut, Staged, RunnerOK, HasFile, Inodes
<1>2. ASSUME NEW p \in Processes
      PROVE  /\ procs'[p].fd = 0 /\ procs'[p].seen = "none"
             /\ procs'[p].at \in {"off", "read"}
             /\ p \in Pollers => procs'[p].at = "off"
  <2>1. CASE p \in {Submitter, Child}
    BY <2>1, Different DEF Submit, HandsOut, RunnerOK, Off
  <2>2. CASE p \notin {Submitter, Child}
    BY <1>1, <2>2, Different DEF Submit, HandsOut, RunnerOK, ReportOK, FilesHeld
  <2> QED
    BY <2>1, <2>2, Different
<1>3. FilesHeld'
  BY <1>1, <1>2 DEF FilesHeld, HasFile
<1>4. Polling'
  BY <1>2, Different DEF Polling, Updating
<1>5. OnePolls'
  BY <1>2, Different DEF OnePolls
<1>6. Orderly'
  BY <1>1, <1>2 DEF Orderly, HasFile, Updating, Real, Texts, Garbage
<1>7. NotOver'
  BY <1>1, <1>2 DEF NotOver, Terminal
<1>8. ~overlapped' /\ ~raced' => Final'
  BY <1>1, Different DEF ReportOK, Final
<1> QED
  BY <1>1, <1>3, <1>4, <1>5, <1>6, <1>7, <1>8 DEF ReportOK, Stays

LEMMA NextReports == HandsOut /\ ReportOK /\ [Next]_vars => ReportOK' /\ Stays
<1> SUFFICES ASSUME HandsOut, ReportOK, [Next]_vars PROVE ReportOK' /\ Stays
  OBVIOUS
<1>1. ASSUME NEW p \in Processes, RunnerStep(p)
      PROVE  ReportOK' /\ Stays
  BY <1>1, ReadReports, PidAliveReports, OpenReports, WriteOutReports, ReplaceReports,
     ChildReports, CallReports DEF RunnerStep
<1>2. CASE UNCHANGED runnerVars
  BY <1>2 DEF ReportOK, FilesHeld, Polling, OnePolls, Orderly, NotOver, Final, HasFile,
              Stays, runnerVars
<1>3. ASSUME NEW c \in Callers, Sync(c) \/ BreakSync(c) \/ Launch(c)
      PROVE  ReportOK' /\ Stays
  BY <1>2, <1>3, SubmitReports DEF Sync, BreakSync, Launch
<1> QED
  BY <1>1, <1>2, <1>3, ChildReports DEF Next, Command, KillChild, vars

(* A final answer of the status command stays, whatever the training process *)
(* and the commands do, as long as commands do not overlap and no two        *)
(* writers of status.json collide.                                           *)
THEOREM AnswersStay == Spec => ReportIsFinal
<1>1. Init => HandsOut /\ ReportOK
  <2> SUFFICES ASSUME Init PROVE HandsOut /\ ReportOK
    OBVIOUS
  <2>1. HandsOut
    BY HandsOutStarts
  <2>2. /\ statusFile = 0 /\ tmpFile = 0 /\ reported = "none"
        /\ \A p \in Processes : procs[p].at = "off" /\ procs[p].fd = 0 /\ procs[p].seen = "none"
    BY DEF Init, RunnerInit, Off
  <2>3. FilesHeld /\ Polling /\ OnePolls /\ Final
    BY <2>2, Different DEF FilesHeld, HasFile, Polling, OnePolls, Final, Updating, Terminal
  <2>4. Orderly /\ NotOver
    BY <2>2, Different DEF Orderly, NotOver, HasFile, Updating, Terminal
  <2> QED
    BY <2>1, <2>3, <2>4 DEF ReportOK
<1>2. HandsOut /\ ReportOK /\ [Next]_vars => HandsOut' /\ ReportOK'
  BY NextHandsOut, NextReports
<1>3. HandsOut /\ ReportOK /\ [Next]_vars =>
        [(reported \in Terminal /\ ~overlapped' /\ ~raced') => (reported' = reported)]_runnerVars
  BY NextReports DEF Stays
<1> QED
  BY <1>1, <1>2, <1>3, PTL DEF Spec, ReportIsFinal
===============================================================================
