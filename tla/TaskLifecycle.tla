---------------------------- MODULE TaskLifecycle ----------------------------
(***************************************************************************)
(* One task, seen by everything that reads and writes its row: the POST     *)
(* /tasks requests of the API process that carry its task_id, and the runs  *)
(* of its handler in the queue workers.  Rows of other tasks are never      *)
(* touched on the way, so one task is enough.                               *)
(*                                                                          *)
(* taskStore.save writes the WHOLE row from the record its caller holds, so *)
(* what matters is which record that is: the one read at the start of the   *)
(* run (stale by then) or one read again just before.  A record is kept     *)
(* here as its status and the provider job its payload names.  Events and   *)
(* attempts are left out, their failures are not: a call that is rejected   *)
(* throws where it stands.                                                  *)
(*                                                                          *)
(* This module has the row, the queue as QueueWorkers provides it, the      *)
(* submission and what the handlers have in common; StephenTask and         *)
(* TrainerTask add the two kinds of handlers.                               *)
(***************************************************************************)
EXTENDS Integers, Sequences, FiniteSets

CONSTANTS
  Requests,      \* POST /tasks requests with this task_id
  Workers,       \* the workers of all processes
  MaxAttempts,   \* envelope.maxAttempts
  AtProvider,    \* requiresStephenSubmission: submitTask calls the provider
  NoRow,
  \* Bounds of the environment.
  Mishaps,       \* the kinds of mishaps that happen
  MaxMishaps,    \* how many happen
  MaxEnvelopes,  \* envelopes of the task in the queue at a time
  MaxJobs        \* provider jobs of the task

ASSUME TaskAssumption ==
  /\ MaxAttempts \in Nat \ {0}
  /\ AtProvider \in BOOLEAN
  /\ Mishaps \subseteq {"crash", "zombie", "store", "api", "late", "cancel"}
  /\ MaxMishaps \in Nat
  /\ MaxEnvelopes \in Nat \ {0}
  /\ MaxJobs \in Nat \ {0}

VARIABLES
  row,           \* the row of worker_tasks, or NoRow
  envelopes,     \* the envelopes of the task in Redis, with their attempts
  jobs,          \* the jobs the provider has for the task, and their states
  failedJobs,    \* did the worker give an envelope up (a row of failed_jobs)
  results,       \* how often the outcome was published (artifact, take, LoRA)
  requests,      \* what each request is doing, its record, what it enqueued
  runs,          \* what each worker is doing, its envelope (with the attempts it was
                 \* delivered with), record, job, follow-up
  mishaps        \* how many mishaps happened

vars == <<row, envelopes, failedJobs, jobs, results, requests, runs, mishaps>>

Terminal == {"succeeded", "rejected", "failed", "cancelled"}

Statuses == {"accepted", "queued", "retry_waiting", "running", "cancel_requested"} \cup Terminal

Records == [status : Statuses, job : Nat]

ASSUME NoRowAssumption == NoRow \notin Records

NoEnvelope == 0

Idle == [at |-> "idle", envelope |-> NoEnvelope, attempts |-> 0, record |-> NoRow, job |-> 0,
         enqueued |-> NoEnvelope]

Mishap(kind) == kind \in Mishaps /\ mishaps < MaxMishaps /\ mishaps' = mishaps + 1

Finished == row # NoRow /\ row.status \in Terminal

(* taskStore.save: the row becomes the record, whatever it was.             *)
Save(record) == row' = record

(* One more envelope of the task in the queue.                              *)
NewEnvelope == CHOOSE e \in 1..MaxEnvelopes : e \notin DOMAIN envelopes

Enqueue(attempts) ==
  /\ DOMAIN envelopes # 1..MaxEnvelopes
  /\ envelopes' = [x \in DOMAIN envelopes \cup {NewEnvelope} |->
                     IF x = NewEnvelope THEN attempts ELSE envelopes[x]]

(* driver.enqueue of a new envelope, as enqueueTaskRecord does FIRST: the   *)
(* record is saved after it.                                                *)
Publish == Enqueue(0)

Remove(e) == envelopes' = [x \in DOMAIN envelopes \ {e} |-> envelopes[x]]

Init ==
  /\ row = NoRow
  /\ envelopes = [e \in {} |-> 0]
  /\ failedJobs = FALSE
  /\ jobs = <<>>
  /\ results = 0
  /\ requests = [r \in Requests |-> [at |-> "lookup", record |-> NoRow, enqueued |-> NoEnvelope]]
  /\ runs = [w \in Workers |-> Idle]
  /\ mishaps = 0

-----------------------------------------------------------------------------
(* submitTask, step by step.                                                *)

RequestAt(r, step) == requests[r].at = step

RequestGoes(r, step, record) ==
  requests' = [requests EXCEPT ![r].at = step, ![r].record = record]

(* An existing task is answered as it is; it is not enqueued again.         *)
Lookup(r) ==
  /\ RequestAt(r, "lookup")
  /\ RequestGoes(r, IF row = NoRow THEN "create" ELSE "answered", NoRow)
  /\ UNCHANGED <<row, envelopes, jobs, results, runs, mishaps, failedJobs>>

(* Faulty variant: an insert that overwrites (ON CONFLICT DO UPDATE).       *)
CreateAnyway(r) ==
  LET record == [status |-> "accepted", job |-> 0]
  IN  /\ RequestAt(r, "create")
      /\ Save(record)
      /\ RequestGoes(r, IF AtProvider THEN "submit" ELSE "enqueue", record)
      /\ UNCHANGED <<envelopes, jobs, results, runs, mishaps, failedJobs>>

(* taskStore.create: INSERT ... ON CONFLICT DO NOTHING.                     *)
Create(r) ==
  LET record == [status |-> "accepted", job |-> 0]
  IN  /\ RequestAt(r, "create")
      /\ \/ /\ row = NoRow
            /\ Save(record)
            /\ RequestGoes(r, IF AtProvider THEN "submit" ELSE "enqueue", record)
         \/ /\ row # NoRow
            /\ RequestGoes(r, "answered", NoRow)
            /\ UNCHANGED row
      /\ UNCHANGED <<envelopes, jobs, results, runs, mishaps, failedJobs>>

(* The job a provider makes of a submission.                                *)
NewJob == Len(jobs) < MaxJobs /\ jobs' = Append(jobs, "pending")

(* submitProviderJob: the provider takes the job, or refuses it.            *)
SubmitToProvider(r) ==
  /\ RequestAt(r, "submit")
  /\ \/ /\ NewJob
        /\ RequestGoes(r, "saveSubmitted",
             [requests[r].record EXCEPT !.status = "running", !.job = Len(jobs')])
     \/ /\ \E status \in {"rejected", "failed"} :
             RequestGoes(r, "saveRefused", [requests[r].record EXCEPT !.status = status])
        /\ UNCHANGED jobs
  /\ UNCHANGED <<row, envelopes, results, runs, mishaps, failedJobs>>

SaveSubmitted(r) ==
  /\ RequestAt(r, "saveSubmitted")
  /\ Save(requests[r].record)
  /\ RequestGoes(r, "enqueue", requests[r].record)
  /\ UNCHANGED <<envelopes, jobs, results, runs, mishaps, failedJobs>>

SaveRefused(r) ==
  /\ RequestAt(r, "saveRefused")
  /\ Save(requests[r].record)
  /\ RequestGoes(r, "answered", NoRow)
  /\ UNCHANGED <<envelopes, jobs, results, runs, mishaps, failedJobs>>

(* enqueueTaskRecord: the envelope is in the queue before the row says so.  *)
EnqueueFirst(r) ==
  /\ RequestAt(r, "enqueue")
  /\ Publish
  /\ requests' = [requests EXCEPT
                    ![r].at = "savePublished", ![r].enqueued = NewEnvelope,
                    ![r].record.status = IF AtProvider THEN @ ELSE "queued"]
  /\ UNCHANGED <<row, jobs, results, runs, mishaps, failedJobs>>

SavePublished(r) ==
  /\ RequestAt(r, "savePublished")
  /\ Save(requests[r].record)
  /\ RequestGoes(r, "answered", NoRow)
  /\ UNCHANGED <<envelopes, jobs, results, runs, mishaps, failedJobs>>

(* What the request does when one of its calls throws: before the job is at *)
(* the provider the submission failed, after it the publication did.  The   *)
(* call may have done its work before it threw.                             *)
RequestThrows(r) ==
  /\ Mishap("api")
  /\ \/ /\ RequestAt(r, "submit")
        /\ NewJob
        /\ RequestGoes(r, "saveRefused", [requests[r].record EXCEPT !.status = "failed"])
        /\ UNCHANGED <<row, envelopes>>
     \/ /\ RequestAt(r, "saveSubmitted")
        /\ (Save(requests[r].record) \/ UNCHANGED row)
        /\ RequestGoes(r, "saveRefused", [status |-> "failed", job |-> 0])
        /\ UNCHANGED <<envelopes, jobs>>
     \/ /\ RequestAt(r, "enqueue")
        /\ (Publish \/ UNCHANGED envelopes)
        /\ RequestGoes(r, "saveRefused", [requests[r].record EXCEPT !.status = "failed"])
        /\ UNCHANGED <<row, jobs>>
     \/ /\ RequestAt(r, "savePublished")
        /\ (Save(requests[r].record) \/ UNCHANGED row)
        /\ RequestGoes(r, "saveRefused", [requests[r].record EXCEPT !.status = "failed"])
        /\ UNCHANGED <<envelopes, jobs>>
  /\ UNCHANGED <<results, runs, failedJobs>>

(* The API process dies, or the row cannot be saved even as failed.         *)
RequestDies(r) ==
  /\ ~RequestAt(r, "answered") /\ ~RequestAt(r, "dead")
  /\ Mishap("api")
  /\ RequestGoes(r, "dead", NoRow)
  /\ UNCHANGED <<row, envelopes, jobs, results, runs, failedJobs>>

RequestNext(r) ==
  \/ Lookup(r) \/ Create(r) \/ SubmitToProvider(r) \/ SaveSubmitted(r)
  \/ SaveRefused(r) \/ EnqueueFirst(r) \/ SavePublished(r)

-----------------------------------------------------------------------------
(* A run of the handler, as far as all handlers are the same.               *)

RunAt(w, step) == runs[w].at = step

Goes(w, step) == runs' = [runs EXCEPT ![w].at = step]

Holds(w, step, record) == runs' = [runs EXCEPT ![w].at = step, ![w].record = record]

Held == {runs[w].envelope : w \in Workers}

(* Whoever enqueued the envelope has not saved the row since.               *)
Unsaved(e) ==
  \/ \E r \in Requests : RequestAt(r, "savePublished") /\ requests[r].enqueued = e
  \/ \E w \in Workers : RunAt(w, "saveFollowup") /\ runs[w].enqueued = e

(* The queue hands an envelope that nobody holds to a worker and counts it. *)
(* It is a mishap ("late") if that is before the save that follows the      *)
(* enqueue: nothing but the delay of the envelope keeps it from happening.  *)
Deliver(w, e) ==
  /\ RunAt(w, "idle")
  /\ e \in DOMAIN envelopes \ Held
  /\ IF Unsaved(e) THEN Mishap("late") ELSE UNCHANGED mishaps
  /\ envelopes' = [envelopes EXCEPT ![e] = @ + 1]
  /\ runs' = [runs EXCEPT ![w].at = "begin", ![w].envelope = e, ![w].attempts = envelopes[e] + 1]
  /\ UNCHANGED <<row, jobs, results, requests, failedJobs>>

(* Faulty variant: the handler does not look whether the task is finished.  *)
BeginAnyway(w, first) ==
  /\ RunAt(w, "begin")
  /\ runs' = [runs EXCEPT ![w].at = first, ![w].record = row, ![w].job = row.job]
  /\ UNCHANGED <<row, envelopes, jobs, results, requests, mishaps, failedJobs>>

(* The handler reads the row: it leaves a finished task alone, cancels one  *)
(* that somebody asked to cancel, and goes on with "first" otherwise.       *)
Begin(w, first) ==
  /\ RunAt(w, "begin")
  /\ IF Finished THEN Goes(w, "ack")
     ELSE runs' = [runs EXCEPT
                     ![w].at = IF row.status = "cancel_requested" THEN "cancel" ELSE first,
                     ![w].record = row, ![w].job = row.job]
  /\ UNCHANGED <<row, envelopes, jobs, results, requests, mishaps, failedJobs>>

SaveCancelled(w) ==
  /\ RunAt(w, "cancel")
  /\ Save([runs[w].record EXCEPT !.status = "cancelled"])
  /\ Goes(w, "ack")
  /\ UNCHANGED <<envelopes, jobs, results, requests, mishaps, failedJobs>>

(* The step that saves the record as it is at "step" and goes on to "next". *)
SaveAs(w, step, status, job, next) ==
  /\ RunAt(w, step)
  /\ Save([status |-> status, job |-> job])
  /\ Goes(w, next)
  /\ UNCHANGED <<envelopes, jobs, results, requests, mishaps, failedJobs>>

(* Faulty variant: the handler saves the follow-up it never enqueued.        *)
FollowUpForgotten(w) ==
  /\ RunAt(w, "followup")
  /\ Goes(w, "saveFollowup")
  /\ UNCHANGED <<row, envelopes, jobs, results, requests, mishaps, failedJobs>>

(* The follow-up: a new envelope, with attempts of its own, then the save.  *)
FollowUp(w) ==
  /\ RunAt(w, "followup")
  /\ Publish
  /\ runs' = [runs EXCEPT ![w].at = "saveFollowup", ![w].enqueued = NewEnvelope]
  /\ UNCHANGED <<row, jobs, results, requests, mishaps, failedJobs>>

(* Faulty variant: the row is saved without the job that was submitted.      *)
SaveFollowUpStale(w) == SaveAs(w, "saveFollowup", "running", runs[w].record.job, "ack")

SaveFollowUp(w) == SaveAs(w, "saveFollowup", "running", runs[w].job, "ack")

(* Faulty variant: the ack does not match the reserved payload.             *)
AckNothing(w) ==
  /\ RunAt(w, "ack")
  /\ runs' = [runs EXCEPT ![w] = Idle]
  /\ UNCHANGED <<row, envelopes, jobs, results, requests, mishaps, failedJobs>>

(* The worker acks its envelope, unless it has lost it (a zombie).          *)
AckEnvelope(w) ==
  /\ RunAt(w, "ack")
  /\ Remove(runs[w].envelope)
  /\ runs' = [runs EXCEPT ![w] = Idle]
  /\ UNCHANGED <<row, jobs, results, requests, mishaps, failedJobs>>

(* Faulty variant: an error is swallowed and the envelope dropped.          *)
ReleaseAndDrop(w) ==
  /\ RunAt(w, "release")
  /\ Remove(runs[w].envelope)
  /\ runs' = [runs EXCEPT ![w] = Idle]
  /\ UNCHANGED <<row, jobs, results, requests, mishaps, failedJobs>>

LastAttempt(w) == runs[w].attempts >= MaxAttempts

(* The handler threw: the worker releases the envelope or, after the last   *)
(* attempt, records it in failed_jobs and removes it.                       *)
ReleaseHeld(w) ==
  /\ runs[w].envelope # NoEnvelope
  /\ IF LastAttempt(w) THEN Remove(runs[w].envelope) /\ failedJobs' = TRUE
     ELSE UNCHANGED <<envelopes, failedJobs>>

(* A worker that has lost its envelope does the same: the release adds a    *)
(* copy to the queue.  It does nothing if the handler timed out: then the   *)
(* worker has settled the envelope already.                                 *)
ReleaseLost(w) ==
  /\ runs[w].envelope = NoEnvelope
  /\ \/ ~LastAttempt(w) /\ Enqueue(runs[w].attempts) /\ UNCHANGED failedJobs
     \/ LastAttempt(w) /\ failedJobs' = TRUE /\ UNCHANGED envelopes
     \/ UNCHANGED <<envelopes, failedJobs>>

ReleaseEnvelope(w) ==
  /\ RunAt(w, "release")
  /\ ReleaseHeld(w) \/ ReleaseLost(w)
  /\ runs' = [runs EXCEPT ![w] = Idle]
  /\ UNCHANGED <<row, jobs, results, requests, mishaps>>

(* The process of the worker dies; the reservation expires.                 *)
Crash(w) ==
  /\ ~RunAt(w, "idle")
  /\ Mishap("crash")
  /\ runs' = [runs EXCEPT ![w] = Idle]
  /\ UNCHANGED <<row, envelopes, jobs, results, requests, failedJobs>>

(* The handler outlives its timeout or its reservation: it goes on, while   *)
(* its envelope is served again or, when the timeout was that of the last   *)
(* attempt, in failed_jobs.  (Both, one after the other, would be two       *)
(* mishaps of a run; a run has one.)                                        *)
OutlivesReservation(w) ==
  /\ runs[w].envelope # NoEnvelope
  /\ Mishap("zombie")
  /\ \/ UNCHANGED <<envelopes, failedJobs>>
     \/ LastAttempt(w) /\ Remove(runs[w].envelope) /\ failedJobs' = TRUE
  /\ runs' = [runs EXCEPT ![w].envelope = NoEnvelope]
  /\ UNCHANGED <<row, jobs, results, requests>>

-----------------------------------------------------------------------------
(* Around them: the provider, and whoever asks to cancel (nothing in src).  *)

ProviderMoves(j, states) ==
  /\ j \in DOMAIN jobs
  /\ jobs[j] \in {"pending", "overdue"}
  /\ \E state \in states \ {jobs[j]} : jobs' = [jobs EXCEPT ![j] = state]
  /\ UNCHANGED <<row, envelopes, results, requests, runs, mishaps, failedJobs>>

AskToCancel ==
  /\ row # NoRow /\ ~Finished /\ row.status # "cancel_requested"
  /\ Mishap("cancel")
  /\ Save([row EXCEPT !.status = "cancel_requested"])
  /\ UNCHANGED <<envelopes, jobs, results, requests, runs, failedJobs>>

-----------------------------------------------------------------------------
(* Properties of every kind of task.                                        *)

(* Somebody who read the row before it was finished may still write it.     *)
Writing == {"create", "submit", "saveSubmitted", "saveRefused", "enqueue", "savePublished"}

StaleRequest(r) == requests[r].record # NoRow /\ requests[r].at \in Writing

ReadUnfinished(w) == runs[w].record # NoRow /\ runs[w].record.status \notin Terminal

LeavesFinishedAlone(Stale(_)) ==
  (Finished /\ (\A r \in Requests : ~StaleRequest(r)) /\ (\A w \in Workers : ~Stale(w)))
    => row' = row /\ results' = results

(* A task that is not finished is driven by somebody, a request that is     *)
(* submitting it or an envelope in the queue, unless failed_jobs tells that *)
(* the queue gave it up.  A row nobody drives stays "running" for ever:     *)
(* nothing scans the table.                                                 *)
Driven ==
  row # NoRow /\ ~Finished =>
    \/ failedJobs
    \/ DOMAIN envelopes # {}
    \/ \E r \in Requests : StaleRequest(r)

(* The polling chains of a task: an envelope in the queue is one, unless    *)
(* the run that holds it has enqueued its follow-up already.  A task has    *)
(* one, and each mishap adds one at most: a crash between the follow-up and *)
(* the ack leaves both envelopes in the queue, and the chains never merge.  *)
Chains ==
  {e \in DOMAIN envelopes :
     \A w \in Workers : runs[w].envelope = e => runs[w].at \notin {"saveFollowup", "ack"}}

ChainsAccounted == Cardinality(Chains) <= 1 + mishaps

(* The outcome is published once, and once more per mishap at most.         *)
ResultsAccounted == results <= 1 + mishaps
=============================================================================
