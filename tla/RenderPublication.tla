-------------------------- MODULE RenderPublication --------------------------
(* A render_panel run whose job is completed: it uploads the image,          *)
(* publishes it as an output of the panel, and records what it does in the   *)
(* task's row, log and attempts.  The cancellation, the poll and the         *)
(* follow-ups that come before, and their saves, are in StephenTask.         *)
EXTENDS TaskLog, StoryboardOutputs

CONSTANTS
  Deliveries,   \* bound: runs that are delivered
  MaxMishaps    \* bound: crashes, rejected calls and rejections

ASSUME PublicationAssumption == Deliveries \in Nat /\ MaxMishaps \in Nat

VARIABLES
  row,         \* of each task: the status of its row
  at,          \* of each run: the step it is at
  attempt,     \* of each run: context.attempts
  outcome,     \* of each run: what it makes of the task
  uploaded,    \* the runs whose image is in the asset store
  mishaps,     \* how many there were
  overlapped,  \* tasks that have had two runs at work together (history)
  raced,       \* whether two runs were inside the sidecar together (history)
  cutShort     \* tasks with a run that could not record its outcome (history)

runVars == <<row, at, attempt, outcome, uploaded>>
history == <<overlapped, raced, cutShort>>
vars == <<logVars, outputVars, runVars, mishaps, history>>

Terminal == {"succeeded", "rejected", "failed"}
Failures == {"retry_waiting", "rejected", "failed"}

Ended == {"done", "thrown", "dead"}
AtWork(r) == at[r] \notin Ended \cup {"never", "idle"}

Init ==
  /\ LogInit /\ OutputsInit
  /\ row = [t \in Tasks |-> "queued"]
  /\ \E R \in SUBSET Runs :
       /\ Cardinality(R) = Deliveries
       /\ at = [r \in Runs |-> IF r \in R THEN "idle" ELSE "never"]
  /\ attempt = [r \in Runs |-> 1]
  /\ outcome = [r \in Runs |-> "none"]
  /\ uploaded = {} /\ mishaps = 0
  /\ overlapped = {} /\ raced = FALSE /\ cutShort = {}

Goes(r, step) == at' = [at EXCEPT ![r] = step]

Others(r) == {s \in Runs \ {r} : TaskOf[s] = TaskOf[r]}

(* The handler reads the row, and returns when it is finished; the envelope  *)
(* may be a copy that has any number of attempts.                            *)
Begin(r) ==
  /\ at[r] = "idle"
  /\ \/ row[TaskOf[r]] \in Terminal /\ Goes(r, "done") /\ UNCHANGED <<attempt, overlapped>>
     \/ /\ row[TaskOf[r]] \notin Terminal
        /\ Goes(r, "running")
        /\ \E n \in 1..MaxAttempts : attempt' = [attempt EXCEPT ![r] = n]
        /\ overlapped' = overlapped \cup {TaskOf[s] : s \in {s \in Others(r) : AtWork(s)}}
  /\ UNCHANGED <<logVars, outputVars, row, outcome, uploaded, mishaps, raced, cutShort>>

-----------------------------------------------------------------------------
(* What the calls of a run do.                                               *)

SaveRow(r, status) ==
  /\ row' = [row EXCEPT ![TaskOf[r]] = status]
  /\ UNCHANGED <<logVars, outputVars, uploaded>>

(* finalizeStephenImageWorkflow: uploadAsset asks the platform for a signed  *)
(* URL and puts the image there, or puts it straight into the bucket.        *)
Upload(r) ==
  /\ uploaded' = uploaded \cup {r}
  /\ UNCHANGED <<logVars, outputVars, row>>

(* What the last event and the attempt say of an outcome.                    *)
EventOf(status) == IF status = "retry_waiting" THEN "retry_scheduled" ELSE status

AttemptOf(status) == IF status = "retry_waiting" THEN "released" ELSE status

EventAt(r) ==
  CASE at[r] = "asset" -> "asset_uploaded"
    [] at[r] = "metadata" -> "metadata_written"
    [] at[r] = "log" -> EventOf(outcome[r])

SaveAttempt(r) ==
  /\ UpsertAttempt(TaskOf[r], attempt[r], AttemptOf(outcome[r]))
  /\ UNCHANGED <<events, appending, appended, outputVars, row, uploaded>>

Effect(r) ==
  CASE at[r] = "running" -> SaveRow(r, "running")
    [] at[r] = "upload" -> Upload(r)
    [] at[r] = "save90" -> SaveRow(r, "running")
    [] at[r] = "publish" -> AddArtifact(r) /\ UNCHANGED <<logVars, row, uploaded>>
    [] at[r] = "read" -> ReadSidecar(r) /\ UNCHANGED <<logVars, row, uploaded>>
    [] at[r] = "open" -> OpenTemporary(r) /\ UNCHANGED <<logVars, row, uploaded>>
    [] at[r] = "write" -> WriteTemporary(r) /\ UNCHANGED <<logVars, row, uploaded>>
    [] at[r] = "rename" -> Rename /\ UNCHANGED <<logVars, row, uploaded>>
    [] at[r] = "save" -> SaveRow(r, outcome[r])
    [] at[r] = "attempt" -> SaveAttempt(r)

Calls == {"running", "upload", "save90", "publish", "read", "open", "write", "rename",
          "save", "attempt"}
Appends == {"asset", "metadata", "log"}

(* What follows when the step at hand succeeds.                              *)
Then(r) ==
  CASE at[r] = "running" -> "upload"
    [] at[r] = "upload" -> "asset"
    [] at[r] = "asset" -> "save90"
    [] at[r] = "save90" -> IF platform THEN "publish" ELSE "read"
    [] at[r] = "read" -> "open"
    [] at[r] = "open" -> "write"
    [] at[r] = "write" -> "rename"
    [] at[r] \in {"publish", "rename"} -> "metadata"
    [] at[r] = "metadata" -> "save"
    [] at[r] = "save" -> "log"
    [] at[r] = "log" -> "attempt"
    [] at[r] = "attempt" -> IF outcome[r] \in {"succeeded", "rejected"} THEN "done" ELSE "thrown"

(* Between its read of the sidecar and its rename.                           *)
InSidecar(r) == at[r] \in {"open", "write", "rename"}

Proceed(r) ==
  /\ Goes(r, Then(r))
  /\ outcome' = [outcome EXCEPT ![r] = IF at[r] = "metadata" THEN "succeeded" ELSE @]
  /\ raced' = (raced \/ (at[r] = "read" /\ \E s \in Runs \ {r} : InSidecar(s)))
  /\ UNCHANGED <<attempt, overlapped, cutShort>>

Call(r) ==
  /\ at[r] \in Calls
  /\ Effect(r)
  /\ Proceed(r)
  /\ UNCHANGED mishaps

-----------------------------------------------------------------------------
(* The catch block.                                                          *)

Failure(r) == IF attempt[r] >= MaxAttempts THEN "failed" ELSE "retry_waiting"

(* An error that is no TaskRejectedError fails the attempt, whatever the run *)
(* has saved before.                                                         *)
Catch(r, failure) ==
  /\ outcome[r] \notin Failures
  /\ outcome' = [outcome EXCEPT ![r] = failure]
  /\ Goes(r, "save")
  /\ UNCHANGED <<attempt, history>>

(* What the catch block throws itself ends the run.                          *)
EndAbruptly(r) ==
  /\ outcome[r] \in Failures
  /\ Goes(r, "thrown")
  /\ cutShort' = cutShort \cup {TaskOf[r]}
  /\ UNCHANGED <<attempt, outcome, overlapped, raced>>

Fails(r) == Catch(r, Failure(r)) \/ EndAbruptly(r)

(* appendEvent.                                                              *)
AppendEvent(r) ==
  /\ at[r] \in Appends
  /\ \/ (ReadSequence(r) \/ TryAgain(r)) /\ UNCHANGED <<at, outcome, attempt, history>>
     \/ InsertEvent(r, EventAt(r)) /\ Returns(r, EventAt(r)) /\ Proceed(r)
     \/ /\ GivesUp(r) /\ Abandon(r) /\ Fails(r)
        /\ UNCHANGED <<events, attempts, appended>>
  /\ UNCHANGED <<outputVars, row, uploaded, mishaps>>

(* The platform does not accept the batch, which changes nothing then.       *)
BatchRefused(r) == at[r] = "publish"

(* Faulty variant: response.validation is not looked at.                     *)
IgnoreRefusal(r) ==
  /\ BatchRefused(r)
  /\ Proceed(r)
  /\ UNCHANGED <<logVars, outputVars, row, uploaded, mishaps>>

Refused(r) ==
  /\ BatchRefused(r)
  /\ Catch(r, Failure(r))
  /\ UNCHANGED <<logVars, outputVars, row, uploaded, mishaps>>

(* ENOENT: another run has renamed the temporary file away.                  *)
RenameFails(r) ==
  /\ at[r] = "rename" /\ ~CanRename
  /\ Catch(r, Failure(r))
  /\ UNCHANGED <<logVars, outputVars, row, uploaded, mishaps>>

Mishap == mishaps < MaxMishaps /\ mishaps' = mishaps + 1

(* A call is rejected, before it took effect or after.                       *)
Throws(r) ==
  /\ Mishap
  /\ \/ /\ at[r] \in Calls
        /\ Effect(r) \/ UNCHANGED <<logVars, outputVars, row, uploaded>>
     \/ /\ at[r] \in Appends
        /\ InsertEvent(r, EventAt(r)) \/ UNCHANGED events
        /\ Abandon(r)
        /\ UNCHANGED <<attempts, appended, outputVars, row, uploaded>>
  /\ Fails(r)

(* The shot's directory or manifest is missing, which is found out after the *)
(* upload: a TaskRejectedError.                                              *)
Rejects(r) ==
  /\ Mishap
  /\ at[r] = "upload"
  /\ Upload(r)
  /\ Catch(r, "rejected")

Crash(r) ==
  /\ Mishap
  /\ AtWork(r)
  /\ Goes(r, "dead")
  /\ Abandon(r)
  /\ cutShort' = cutShort \cup {TaskOf[r]}
  /\ UNCHANGED <<events, attempts, appended, outputVars, row, attempt, outcome, uploaded,
                 overlapped, raced>>

Next ==
  \E r \in Runs :
    \/ Begin(r) \/ Call(r) \/ AppendEvent(r) \/ Refused(r) \/ RenameFails(r)
    \/ Throws(r) \/ Rejects(r) \/ Crash(r)

Spec == Init /\ [][Next]_vars

-----------------------------------------------------------------------------
(* Properties.                                                               *)

(* The log of a task has no gap and no event is lost: what a run appended is *)
(* in it, in the order in which the run appended it, whoever else appends.   *)
(* (An append whose reply was lost may have left an event more.)             *)
EventsBy(r) == {n \in NumbersOf(TaskOf[r]) : events[TaskOf[r]][n].by = r}

LogIsComplete ==
  /\ \A t \in Tasks : NumbersOf(t) = 1..Cardinality(NumbersOf(t))
  /\ \A r \in Runs :
       /\ Cardinality(EventsBy(r)) <= Len(appended[r]) + mishaps
       /\ \E number \in [DOMAIN appended[r] -> EventsBy(r)] :
            /\ \A m, n \in DOMAIN appended[r] : m < n => number[m] < number[n]
            /\ \A n \in DOMAIN appended[r] :
                 events[TaskOf[r]][number[n]].type = appended[r][n]

(* The row, the last event and the attempt tell the same story of a task     *)
(* nobody works on, if its runs came one after the other and each got to     *)
(* record its outcome.                                                       *)
RecordsAgree ==
  \A t \in Tasks \ (overlapped \cup cutShort) :
    (row[t] # "queued" /\ \A r \in Runs : TaskOf[r] = t => ~AtWork(r)) =>
      LET last == events[t][Max(NumbersOf(t))] IN
      /\ last.type = EventOf(row[t])
      /\ attempts[t][attempt[last.by]] = AttemptOf(row[t])

(* A task that is reported as succeeded has an output in the panel's list    *)
(* whose image was uploaded; only runs that are inside the sidecar together  *)
(* can lose it.                                                              *)
SucceededIsListed ==
  \A t \in Tasks : row[t] = "succeeded" /\ (platform \/ ~raced) =>
    \E r \in Published \cap uploaded : TaskOf[r] = t

(* Redeliveries list a task once in the sidecar, and a run adds one artifact *)
(* at most to the manifest (another delivery adds another one).              *)
ListedOnce ==
  IF platform
  THEN \A m, n \in DOMAIN artifacts : artifacts[m] = artifacts[n] => m = n
  ELSE \A r, s \in Listed : TaskOf[r] = TaskOf[s] => r = s

(* The sidecar is never seen half written, and keeps what was listed, through*)
(* crashes and failed writes, unless two runs are inside it together.        *)
Lists(entries, t) == \E r \in entries : TaskOf[r] = t

OutputsKept ==
  [][~raced' => /\ sidecar' # NoFile => content'[sidecar'].text = "whole"
                /\ \A t \in Tasks : Lists(Listed, t) => Lists(Listed', t)]_vars
=============================================================================
