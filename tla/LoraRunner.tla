------------------------------ MODULE LoraRunner ------------------------------
(* train_style_lora_runner.py on the GPU machine, for one job: the command   *)
(* that submits it, the detached process that trains, and the status and     *)
(* finalize commands that poll it.  They share status.json, which each of    *)
(* them reads, changes and writes again through one status.json.tmp.         *)
EXTENDS Naturals, FiniteSetsExt

CONSTANTS
  Submitter, Child,  \* the submit command, and the process it starts
  Pollers,           \* status and finalize commands that run at the same time
  MaxKills           \* bound: 1 if the training process may be killed

ASSUME RunnerAssumption ==
  /\ MaxKills \in {0, 1}
  /\ Submitter # Child /\ {Submitter, Child} \cap Pollers = {}

VARIABLES
  inode,      \* what the files hold that status.json or its .tmp is, or was
  statusFile, tmpFile,   \* which inode each name has; 0 for none
  procs,      \* the processes
  stage,      \* the update the training process is at
  output,     \* what is in output/: [model, metadata]
  trained,    \* the training has ended well
  reported, finalized,   \* what the last status and finalize commands answered
  kills, overlapped, raced

runnerVars == <<inode, statusFile, tmpFile, procs, stage, output, trained,
                reported, finalized, kills, overlapped, raced>>

Processes == {Submitter, Child} \cup Pollers
Inodes == 1..4

Terminal == {"done", "failed"}
Garbage == {"empty", "torn"}

Off == [at |-> "off", cmd |-> "none", seen |-> "none", fd |-> 0]

In(p, step) == procs[p].at = step
Sets(p, record) == procs' = [procs EXCEPT ![p] = record]
Alive == procs[Child].at # "off"

RunnerInit ==
  /\ inode = [i \in Inodes |-> "empty"] /\ statusFile = 0 /\ tmpFile = 0
  /\ procs = [p \in Processes |-> Off]
  /\ stage = "none" /\ output = [model |-> "none", metadata |-> FALSE] /\ trained = FALSE
  /\ reported = "none" /\ finalized = "none"
  /\ kills = 0 /\ overlapped = FALSE /\ raced = FALSE

(* submit(): the directory and the first status.json, then the process that  *)
(* trains, its pid.json, and a status.json with the pid.                     *)
Submit ==
  /\ statusFile = 0
  /\ statusFile' = 1 /\ inode' = [inode EXCEPT ![1] = "submitted"]
  /\ stage' = "running"
  /\ procs' = [procs EXCEPT ![Submitter] = [Off EXCEPT !.at = "read"],
                            ![Child] = [Off EXCEPT !.at = "read"]]
  /\ UNCHANGED <<tmpFile, output, trained, reported, finalized, kills, overlapped, raced>>

-----------------------------------------------------------------------------
(* What follows an answer or an exception.                                   *)

(* main() prints the answer of a status or a finalize command.               *)
Answers(p, answer) ==
  /\ Sets(p, Off)
  /\ IF procs[p].cmd = "finalize"
     THEN finalized' = answer /\ UNCHANGED reported
     ELSE reported' = answer /\ UNCHANGED finalized

(* The training process reports its exception, and dies of a second one.     *)
ChildRaises ==
  /\ IF stage = "failed"
     THEN Sets(Child, Off) /\ UNCHANGED stage
     ELSE Sets(Child, [Off EXCEPT !.at = "read"]) /\ stage' = "failed"
  /\ UNCHANGED <<reported, finalized>>

Raises(p) ==
  \/ p = Submitter /\ Sets(p, [Off EXCEPT !.at = "refused"])
     /\ UNCHANGED <<stage, reported, finalized>>
  \/ p = Child /\ ChildRaises
  \/ p \in Pollers /\ Answers(p, "error") /\ UNCHANGED stage

(* The updates of run_job, in their order.                                   *)
Continues(p) ==
  \/ p = Submitter /\ Sets(p, [Off EXCEPT !.at = "answered"])
     /\ UNCHANGED <<stage, reported, finalized>>
  \/ /\ p = Child
     /\ Sets(p, [Off EXCEPT !.at = IF stage \in Terminal THEN "exit" ELSE "work"])
     /\ UNCHANGED <<stage, reported, finalized>>
  \/ p \in Pollers /\ Answers(p, "failed") /\ UNCHANGED stage

-----------------------------------------------------------------------------
(* read_status, and what each does with it.                                  *)

(* update_status: the later phases only add to what is there.                *)
Updated(status) ==
  IF stage = "phase" THEN {status, "running"} ELSE {stage}

(* The metadata of finalize, if the training process had no time for it.     *)
Finalizes(p) ==
  IF output.model = "none"
  THEN Answers(p, "error") /\ UNCHANGED output
  ELSE Answers(p, "succeeded") /\ output' = [output EXCEPT !.metadata = TRUE]

Reports(p, status) ==
  IF procs[p].cmd = "finalize" /\ status = "done"
  THEN Finalizes(p)
  ELSE Answers(p, status) /\ UNCHANGED output

(* Faulty variant: any status of a dead process is replaced.                 *)
NothingIsTerminal(status) == FALSE

IsTerminal(status) == status \in Terminal

Read(p) ==
  /\ In(p, "read")
  /\ LET status == inode[statusFile]
     IN  \/ status \in Garbage /\ Raises(p) /\ UNCHANGED output
         \/ /\ p = Submitter /\ status \notin Garbage
            /\ Sets(p, [procs[p] EXCEPT !.at = "open", !.seen = status])
            /\ UNCHANGED <<stage, output, reported, finalized>>
         \/ /\ p = Child /\ status \notin Garbage /\ stage # "metadata"
            /\ \E s \in Updated(status) : Sets(p, [procs[p] EXCEPT !.at = "open", !.seen = s])
            /\ UNCHANGED <<stage, output, reported, finalized>>
         \/ /\ p = Child /\ status \notin Garbage /\ stage = "metadata"
            /\ stage' = "done" /\ output' = [output EXCEPT !.metadata = TRUE]
            /\ UNCHANGED <<procs, reported, finalized>>
         \/ /\ p \in Pollers /\ status \notin Garbage
            /\ UNCHANGED stage
            /\ IF IsTerminal(status)
               THEN Reports(p, status)
               ELSE /\ Sets(p, [procs[p] EXCEPT !.at = "pid", !.seen = status])
                    /\ UNCHANGED <<output, reported, finalized>>
  /\ UNCHANGED <<inode, statusFile, tmpFile, trained, kills, overlapped, raced>>

(* Faulty variant: what the file says is good enough.                        *)
TrustsFile(p) ==
  /\ In(p, "pid") /\ Answers(p, procs[p].seen)
  /\ UNCHANGED <<inode, statusFile, tmpFile, stage, output, trained, kills, overlapped, raced>>

(* status() of a process that is gone: what was read may be stale by now.    *)
PidAlive(p) ==
  /\ In(p, "pid")
  /\ IF Alive
     THEN Answers(p, procs[p].seen)
     ELSE /\ Sets(p, [procs[p] EXCEPT !.at = "open", !.seen = "failed"])
          /\ UNCHANGED <<reported, finalized>>
  /\ UNCHANGED <<inode, statusFile, tmpFile, stage, output, trained, kills, overlapped, raced>>

-----------------------------------------------------------------------------
(* write_json: the .tmp is opened, which truncates it, written, and renamed. *)

Unused == {i \in Inodes \ {statusFile, tmpFile} : \A p \in Processes : procs[p].fd # i}

Open(p) ==
  /\ In(p, "open") /\ (tmpFile # 0 \/ Unused # {})   \* bound: Inodes
  /\ LET i == IF tmpFile = 0 THEN Min(Unused) ELSE tmpFile
     IN  /\ tmpFile' = i /\ inode' = [inode EXCEPT ![i] = "empty"]
         /\ Sets(p, [procs[p] EXCEPT !.at = "write", !.fd = i])
  /\ raced' = (raced \/ \E q \in Processes : procs[q].fd # 0)
  /\ UNCHANGED <<statusFile, stage, output, trained, reported, finalized, kills, overlapped>>

(* What no name and no process refers to any more is gone.                   *)
Forget(file, others) ==
  [i \in Inodes |-> IF i = file \/ \E p \in others : procs[p].fd = i THEN inode[i] ELSE "empty"]

(* A shorter text leaves the end of a longer one.                            *)
WriteOut(p) ==
  /\ In(p, "write")
  /\ \E text \in {procs[p].seen} \cup (IF inode[procs[p].fd] = "empty" THEN {} ELSE {"torn"}) :
       inode' = [inode EXCEPT ![procs[p].fd] = text]
  /\ Sets(p, [procs[p] EXCEPT !.at = "replace"])
  /\ UNCHANGED <<statusFile, tmpFile, stage, output, trained, reported, finalized,
                 kills, overlapped, raced>>

Replace(p) ==
  /\ In(p, "replace")
  /\ IF tmpFile = 0 THEN Raises(p) /\ UNCHANGED statusFile
                    ELSE Continues(p) /\ statusFile' = tmpFile
  /\ tmpFile' = 0 /\ inode' = Forget(statusFile', Processes \ {p})
  /\ UNCHANGED <<output, trained, kills, overlapped, raced>>

-----------------------------------------------------------------------------
(* The training process between two updates.                                 *)

NextStage == IF stage = "running" THEN "phase" ELSE "metadata"

(* The dataset and the caches, or the training, which may leave a checkpoint *)
(* when it breaks off.  Its name for the model need not be the one expected. *)
Leaves(model) ==
  output' \in {output} \cup
    (IF stage = "phase" THEN {[output EXCEPT !.model = model]} ELSE {})

Succeeds ==
  /\ stage' = NextStage /\ Sets(Child, [Off EXCEPT !.at = "read"])
  /\ trained' = (stage = "phase") /\ Leaves("final")
  /\ UNCHANGED <<reported, finalized>>

BreaksOff == ChildRaises /\ Leaves("checkpoint") /\ UNCHANGED trained

(* Faulty variant: exit codes are not looked at.                             *)
BreaksOffUnnoticed ==
  /\ stage' = NextStage /\ Sets(Child, [Off EXCEPT !.at = "read"])
  /\ Leaves("checkpoint")
  /\ UNCHANGED <<trained, reported, finalized>>

EndsUnnoticed == Succeeds \/ BreaksOffUnnoticed

Ends == Succeeds \/ BreaksOff

Work ==
  /\ In(Child, "work") /\ Ends
  /\ UNCHANGED <<inode, statusFile, tmpFile, kills, overlapped, raced>>

(* The last line of the log is written after the last status.                *)
Exit ==
  /\ In(Child, "exit") /\ Sets(Child, Off)
  /\ UNCHANGED <<inode, statusFile, tmpFile, stage, output, trained, reported, finalized,
                 kills, overlapped, raced>>

Kill ==
  /\ Alive /\ kills < MaxKills /\ kills' = kills + 1
  /\ Sets(Child, Off)
  /\ UNCHANGED <<inode, statusFile, tmpFile, stage, output, trained, reported, finalized,
                 overlapped, raced>>

(* The worker polls once it has the job id, and finalizes what is done.      *)
Call(p) ==
  /\ p \in Pollers /\ In(p, "off") /\ In(Submitter, "answered")
  /\ \E cmd \in {"status"} \cup (IF reported = "done" THEN {"finalize"} ELSE {}) :
       Sets(p, [Off EXCEPT !.at = "read", !.cmd = cmd])
  /\ overlapped' = (overlapped \/ \E q \in Pollers : ~In(q, "off"))
  /\ UNCHANGED <<inode, statusFile, tmpFile, stage, output, trained, reported, finalized,
                 kills, raced>>

RunnerStep(p) ==
  \/ Read(p) \/ PidAlive(p) \/ Open(p) \/ WriteOut(p) \/ Replace(p)
  \/ (p = Child /\ (Work \/ Exit)) \/ Call(p)

-----------------------------------------------------------------------------
(* A job that finalize calls succeeded was trained to its end and has a model *)
(* and its metadata, whatever commands overlap: a checkpoint of a training    *)
(* that failed or was killed is never handed out.                             *)
SucceededIsTrained ==
  finalized = "succeeded" => trained /\ output.model # "none" /\ output.metadata

(* A final answer stays, as long as status commands do not overlap and        *)
(* nothing else wrote status.json at the same time as the training process.   *)
ReportIsFinal ==
  [][(reported \in Terminal /\ ~overlapped' /\ ~raced') => (reported' = reported)]_runnerVars

(* A job whose id is known is reported done or failed at last, also when its  *)
(* process was killed, unless writers of status.json collided.                *)
EveryJobReported == In(Submitter, "answered") ~> (reported \in Terminal \/ raced)
=============================================================================
