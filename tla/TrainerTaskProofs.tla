--------------------------- MODULE TrainerTaskProofs ---------------------------
(***************************************************************************)
(* Proofs about the tasks whose handler submits the provider job itself.    *)
(*                                                                          *)
(*  1. Trained: every record that somebody holds names a job that exists,   *)
(*     a run works with the record of an unfinished task, and one past the  *)
(*     poll with a job that is done.                                        *)
(*  2. Single: as long as nothing goes wrong, one run or one waiting        *)
(*     envelope is all there is of a task, and it knows of the job.         *)
(*  3. Account: with Trained, the chains and the outcomes that are          *)
(*     finalized are within what the mishaps allow (Counted).               *)
(*  4. Alive: no step of a run leaves an unfinished task to nobody.         *)
(***************************************************************************)
EXTENDS TrainerTask, TaskLifecycleProofs

TrainerStates == {"pending", "overdue", "done", "failed"}

Recorded == InTry \cup {"cancel", "route", "saveFailure"}

HasJob ==
  {"followup", "saveFollowup", "check", "poll", "saveFailed", "finalizing", "finalize", "saveDone"}

JobIsDone == {"finalizing", "finalize", "saveDone"}

IsJob(j) == j \in 0..Len(jobs)

RunOK(w) ==
  /\ IsJob(runs[w].job)
  /\ runs[w].at \in Recorded =>
       /\ runs[w].record \in Records /\ runs[w].record.status \notin Terminal
       /\ IsJob(runs[w].record.job)
  /\ runs[w].at \in HasJob => runs[w].job # 0
  /\ runs[w].at \in JobIsDone => jobs[runs[w].job] = "done"
  /\ RunAt(w, "saveDone") => results > 0

RequestOK(r) ==
  /\ requests[r].at \notin {"submit", "saveSubmitted"}
  /\ requests[r].record # NoRow =>
       requests[r].record.job = 0 /\ requests[r].record.status # "succeeded"

RowOK ==
  row # NoRow =>
    /\ IsJob(row.job)
    /\ row.status = "succeeded" => results > 0 /\ row.job # 0 /\ jobs[row.job] = "done"

Trained ==
  /\ TaskOK /\ jobs \in Seq(TrainerStates) /\ RowOK
  /\ \A w \in Workers : RunOK(w)
  /\ \A r \in Requests : RequestOK(r)

(* Jobs come, and stay what they are once they are done.                    *)
JobsGo ==
  /\ jobs' \in Seq(TrainerStates) /\ Len(jobs) <= Len(jobs')
  /\ \A j \in 1..Len(jobs) : jobs[j] = "done" => jobs'[j] = "done"
  /\ results' \in Nat /\ results <= results'

LEMMA JobsStay ==
  ASSUME Trained, UNCHANGED jobs, results' \in {results, results + 1}
  PROVE  JobsGo
  BY DEF Trained, TaskOK, TaskTypes, JobsGo

LEMMA JobComes ==
  ASSUME Trained, NewJob, UNCHANGED results
  PROVE  JobsGo /\ Len(jobs') = Len(jobs) + 1 /\ jobs' \in Seq(JobStates)
<1>1. jobs' = Append(jobs, "pending") /\ jobs \in Seq(TrainerStates) /\ results \in Nat
  BY DEF NewJob, Trained, TaskOK, TaskTypes
<1>2. /\ jobs' \in Seq(TrainerStates) /\ Len(jobs') = Len(jobs) + 1
      /\ \A j \in 1..Len(jobs) : jobs'[j] = jobs[j]
  BY <1>1 DEF TrainerStates
<1>3. jobs' \in Seq(JobStates)
  BY NewJobType DEF Trained, TaskOK
<1> QED
  BY <1>1, <1>2, <1>3 DEF JobsGo

LEMMA OthersStay ==
  ASSUME Trained, JobsGo, NEW w \in Workers, runs'[w] = runs[w]
  PROVE  RunOK(w)'
<1>1. /\ Len(jobs) \in Nat /\ Len(jobs') \in Nat /\ results \in Nat
      /\ jobs \in Seq(TrainerStates)
  BY DEF Trained, JobsGo, TaskOK, TaskTypes
<1>2. runs[w].at \in JobIsDone => runs[w].job \in 1..Len(jobs)
  BY <1>1 DEF Trained, RunOK, IsJob, JobIsDone, HasJob
<1> QED
  BY <1>1, <1>2 DEF Trained, RunOK, RunAt, IsJob, JobsGo

LEMMA RowStays ==
  ASSUME Trained, JobsGo, row' = row
  PROVE  RowOK'
<1>1. /\ Len(jobs) \in Nat /\ Len(jobs') \in Nat /\ results \in Nat
      /\ jobs \in Seq(TrainerStates)
  BY DEF Trained, JobsGo, TaskOK, TaskTypes
<1> QED
  BY <1>1 DEF Trained, RowOK, IsJob, JobsGo

-----------------------------------------------------------------------------
(* The steps of a run.                                                      *)
Saves(w) ==
  \/ UNCHANGED row
  \/ /\ row' \in Records /\ IsJob(row'.job)
     /\ row'.status = "succeeded" => results > 0 /\ row'.job # 0 /\ jobs[row'.job] = "done"

RunEffect(w) ==
  /\ ~RunAt(w, "idle") /\ Moves(w) /\ runs'[w].at # "idle"
  /\ mishaps' \in Nat /\ UNCHANGED requests
  /\ UNCHANGED envelopes \/ (Publish /\ UNCHANGED <<row, jobs, results>>)
  /\ JobsGo /\ jobs' \in Seq(JobStates)
  /\ Saves(w)
  /\ RunOK(w)'

LEMMA EffectKeeps ==
  ASSUME Trained, NEW w \in Workers, RunEffect(w)
  PROVE  Trained'
<1>1. TaskOK'
  <2>1. CASE UNCHANGED envelopes
    BY <2>1, RunMoves DEF RunEffect, Trained, JobsGo, Saves
  <2>2. CASE Publish /\ UNCHANGED <<row, jobs, results>>
    BY <2>2, PublishKeeps DEF RunEffect, Trained
  <2> QED
    BY <2>1, <2>2 DEF RunEffect
<1>2. RowOK'
  <2>1. CASE UNCHANGED row
    BY <2>1, RowStays DEF RunEffect
  <2>2. CASE /\ row' \in Records /\ IsJob(row'.job)
             /\ row'.status = "succeeded" => results > 0 /\ row'.job # 0 /\ jobs[row'.job] = "done"
    BY <2>2 DEF RunEffect, RowOK, IsJob, JobsGo, Trained, TaskOK, TaskTypes
  <2> QED
    BY <2>1, <2>2 DEF RunEffect, Saves
<1>3. \A v \in Workers : RunOK(v)'
  BY OthersStay DEF RunEffect, Moves
<1>4. \A r \in Requests : RequestOK(r)'
  BY DEF RunEffect, Trained, RequestOK
<1> QED
  BY <1>1, <1>2, <1>3, <1>4 DEF Trained, RunEffect, JobsGo

LEMMA SaveAsEffect ==
  ASSUME Trained, NEW w \in Workers, NEW step \in Steps \ {"idle"}, NEW status \in Statuses,
         NEW job, IsJob(job), NEW next \in Steps \ {"idle", "saveDone"},
         SaveAs(w, step, status, job, next),
         next \in Recorded => step \in Recorded, next \in HasJob => step \in HasJob,
         next \in JobIsDone => step \in JobIsDone,
         status = "succeeded" => step = "saveDone" /\ job = runs[w].job
  PROVE  RunEffect(w)
<1>0. TaskTypes /\ job \in Nat /\ runs[w] \in Run /\ mishaps \in Nat
  BY DEF Trained, TaskOK, TaskTypes, IsJob
<1>1. /\ Moves(w) /\ runs'[w] = [runs[w] EXCEPT !.at = next]
      /\ row' \in Records /\ row' = [status |-> status, job |-> job] /\ runs[w].at = step
      /\ UNCHANGED <<envelopes, jobs, results, requests, mishaps, failedJobs>>
  BY <1>0, SaveAsMoves
<1>2. runs'[w].at = next /\ runs'[w].record = runs[w].record /\ runs'[w].job = runs[w].job
  BY <1>0, <1>1 DEF Run
<1>3. JobsGo
  BY <1>1, JobsStay
<1>4. RunOK(w)'
  BY <1>1, <1>2 DEF Trained, RunOK, RunAt, IsJob
<1>5. Saves(w)
  BY <1>1 DEF Saves, Trained, RunOK, RunAt, HasJob, JobIsDone
<1> QED
  BY <1>0, <1>1, <1>2, <1>3, <1>4, <1>5 DEF RunEffect, RunAt, Trained, TaskOK, TaskTypes

LEMMA GoesEffect ==
  ASSUME Trained, NEW w \in Workers, NEW step \in Steps \ {"idle"}, NEW next \in Steps \ {"idle"},
         RunAt(w, step), Goes(w, next), mishaps' \in Nat,
         next \in Recorded => step \in Recorded,
         next \in HasJob => runs[w].job # 0,
         next \in JobIsDone => jobs[runs[w].job] = "done",
         next = "saveDone" => results' > 0,
         UNCHANGED <<envelopes, jobs, requests>>, results' \in {results, results + 1}, Saves(w)
  PROVE  RunEffect(w)
<1>0. TaskTypes /\ runs[w] \in Run
  BY DEF Trained, TaskOK, TaskTypes
<1>1. Moves(w) /\ runs'[w] = [runs[w] EXCEPT !.at = next]
  BY <1>0, GoesMoves
<1>2. runs'[w].at = next /\ runs'[w].record = runs[w].record /\ runs'[w].job = runs[w].job
  BY <1>0, <1>1 DEF Run
<1>3. JobsGo
  BY JobsStay
<1>4. RunOK(w)'
  BY <1>2 DEF Trained, RunOK, RunAt, IsJob
<1> QED
  BY <1>0, <1>1, <1>2, <1>3, <1>4 DEF RunEffect, RunAt, Trained, TaskOK, TaskTypes

LEMMA WorkEffect ==
  ASSUME Trained, NEW w \in Workers, runs[w].at # "idle"
  PROVE  /\ runs[w] \in Run /\ runs \in [Workers -> Run] /\ TaskTypes /\ mishaps \in Nat
         /\ row \in Records /\ row # NoRow /\ IsJob(row.job) /\ IsJob(0) /\ IsJob(runs[w].job)
         /\ runs[w].at \in Recorded => IsJob(runs[w].record.job)
<1>1. row \in Records
  BY DEF Trained, TaskOK, TaskTypes, NothingYet, RunAt
<1>2. Len(jobs) \in Nat
  BY DEF Trained
<1> QED
  BY <1>1, <1>2, NoRowAssumption DEF Trained, TaskOK, TaskTypes, RowOK, RunOK, IsJob

LEMMA BeginEffect ==
  ASSUME Trained, NEW w \in Workers, Begin(w, "route")
  PROVE  RunEffect(w)
<1>0. /\ runs[w].at = "begin" /\ UNCHANGED <<row, envelopes, jobs, results, requests, mishaps>>
      /\ Saves(w)
  BY DEF Begin, RunAt, Saves
<1>1. /\ runs[w] \in Run /\ runs \in [Workers -> Run] /\ mishaps \in Nat
      /\ row \in Records /\ row # NoRow /\ IsJob(row.job)
  BY <1>0, WorkEffect
<1>2. CASE Finished
  <2>1. Goes(w, "ack")
    BY <1>2 DEF Begin
  <2> QED
    BY <1>0, <1>1, <2>1, GoesEffect
    DEF Begin, Steps, Recorded, InTry, HasJob, JobIsDone
<1>3. CASE ~Finished
  <2>1. PICK step \in {"route", "cancel"} :
          runs' = [runs EXCEPT ![w].at = step, ![w].record = row, ![w].job = row.job]
    BY <1>3 DEF Begin
  <2>2. /\ runs'[w] = [runs[w] EXCEPT !.at = step, !.record = row, !.job = row.job]
        /\ \A v \in Workers \ {w} : runs'[v] = runs[v]
    BY <1>1, <2>1
  <2>3. step \in Steps /\ row.job \in Nat
    BY <1>1 DEF Steps, Records
  <2>4. [runs[w] EXCEPT !.at = step, !.record = row, !.job = row.job] \in Run
    BY <1>1, <2>3 DEF Run
  <2>5. Moves(w)
    BY <1>1, <2>1, <2>2, <2>4 DEF Moves, Run
  <2>6. runs'[w].at = step /\ runs'[w].record = row /\ runs'[w].job = row.job
    BY <1>1, <2>2 DEF Run
  <2>7. row.status \notin Terminal
    BY <1>1, <1>3 DEF Finished
  <2>8. RunOK(w)'
    BY <1>0, <1>1, <2>6, <2>7 DEF RunOK, RunAt, HasJob, JobIsDone, IsJob
  <2>9. JobsGo /\ jobs' \in Seq(JobStates)
    BY <1>0, JobsStay DEF Trained, TaskOK, TaskTypes
  <2> QED
    BY <1>0, <1>1, <2>5, <2>6, <2>8, <2>9 DEF RunEffect, RunAt
<1> QED
  BY <1>2, <1>3

LEMMA SaveCancelledEffect ==
  ASSUME Trained, NEW w \in Workers, SaveCancelled(w)
  PROVE  RunEffect(w)
<1>0. /\ runs[w].at = "cancel" /\ Goes(w, "ack")
      /\ row' = [runs[w].record EXCEPT !.status = "cancelled"]
      /\ UNCHANGED <<envelopes, jobs, results, requests, mishaps>>
  BY DEF SaveCancelled, RunAt, Save
<1>1. runs[w].record \in Records /\ IsJob(runs[w].record.job) /\ mishaps \in Nat
  BY <1>0, WorkEffect DEF Trained, RunOK, Recorded
<1>2. row' \in Records /\ row'.status = "cancelled" /\ row'.job = runs[w].record.job
  BY <1>0, <1>1 DEF Records, Statuses, Terminal
<1>3. Saves(w)
  BY <1>1, <1>2 DEF Saves
<1> QED
  BY <1>0, <1>1, <1>3, GoesEffect DEF RunAt, Steps, Recorded, InTry, HasJob, JobIsDone

LEMMA SubmitEffect ==
  ASSUME Trained, NEW w \in Workers, Submit(w)
  PROVE  RunEffect(w)
<1>0. runs[w].at = "submit" /\ UNCHANGED <<row, envelopes, results, requests, mishaps>> /\ Saves(w)
  BY DEF Submit, RunAt, Saves
<1>1. runs[w] \in Run /\ runs \in [Workers -> Run] /\ mishaps \in Nat
  BY <1>0, WorkEffect
<1>2. CASE NewJob /\ runs' = [runs EXCEPT ![w].at = "followup", ![w].job = Len(jobs')]
  <2>1. /\ JobsGo /\ Len(jobs') = Len(jobs) + 1 /\ jobs' \in Seq(JobStates)
        /\ Len(jobs) \in Nat /\ Len(jobs') \in Nat
    BY <1>0, <1>2, JobComes DEF Trained, JobsGo
  <2>2. /\ runs'[w] = [runs[w] EXCEPT !.at = "followup", !.job = Len(jobs')]
        /\ \A v \in Workers \ {w} : runs'[v] = runs[v]
    BY <1>1, <1>2
  <2>3. [runs[w] EXCEPT !.at = "followup", !.job = Len(jobs')] \in Run
    BY <1>1, <2>1 DEF Run, Steps
  <2>4. Moves(w)
    BY <1>1, <1>2, <2>2, <2>3 DEF Moves, Run
  <2>5. /\ runs'[w].at = "followup" /\ runs'[w].record = runs[w].record
        /\ runs'[w].job = Len(jobs')
    BY <1>1, <2>2 DEF Run
  <2>6. RunOK(w)'
    BY <1>0, <2>1, <2>5 DEF Trained, RunOK, RunAt, Recorded, InTry, JobIsDone, IsJob
  <2> QED
    BY <1>0, <1>1, <2>1, <2>4, <2>5, <2>6 DEF RunEffect, RunAt
<1>3. CASE UNCHANGED jobs /\ Goes(w, "fail")
  BY <1>0, <1>1, <1>3, GoesEffect DEF RunAt, Steps, Recorded, InTry, HasJob, JobIsDone
<1> QED
  BY <1>2, <1>3 DEF Submit

LEMMA PollEffect ==
  ASSUME Trained, NEW w \in Workers, Poll(w)
  PROVE  RunEffect(w)
<1>0. /\ runs[w].at = "poll" /\ UNCHANGED <<row, envelopes, jobs, results, requests, mishaps>>
      /\ Saves(w)
  BY DEF Poll, RunAt, Saves
<1>1. runs[w].job \in 1..Len(jobs) /\ jobs \in Seq(TrainerStates) /\ mishaps \in Nat
  BY <1>0, WorkEffect DEF Trained, RunOK, HasJob, IsJob
<1>2. jobs[runs[w].job] \in TrainerStates
  BY <1>1
<1>3. PICK next \in {"followup", "saveFailed", "finalizing"} :
        Goes(w, next) /\ (next = "finalizing" => jobs[runs[w].job] = "done")
  BY <1>2 DEF Poll, TrainerStates
<1> QED
  BY <1>0, <1>1, <1>3, GoesEffect DEF RunAt, Steps, Recorded, InTry, HasJob, JobIsDone

LEMMA FinalizeEffect ==
  ASSUME Trained, NEW w \in Workers, Finalize(w)
  PROVE  RunEffect(w)
<1>0. /\ runs[w].at = "finalize" /\ UNCHANGED <<row, envelopes, jobs, requests, mishaps>> /\ Saves(w)
      /\ results \in Nat /\ mishaps \in Nat /\ runs[w].job # 0 /\ jobs[runs[w].job] = "done"
  BY DEF Finalize, RunAt, Saves, Trained, TaskOK, TaskTypes, RunOK, HasJob, JobIsDone
<1>1. CASE results' = results + 1 /\ Goes(w, "saveDone")
  BY <1>0, <1>1, GoesEffect DEF RunAt, Steps, Recorded, InTry
<1>2. CASE UNCHANGED results /\ Goes(w, "fail")
  BY <1>0, <1>2, GoesEffect DEF RunAt, Steps, Recorded, InTry, HasJob, JobIsDone
<1> QED
  BY <1>1, <1>2 DEF Finalize

LEMMA FailEffect ==
  ASSUME Trained, NEW w \in Workers, Fail(w)
  PROVE  RunEffect(w)
<1>0. /\ runs[w].at = "fail" /\ UNCHANGED <<row, envelopes, jobs, results, requests, mishaps>>
      /\ Saves(w)
  BY DEF Fail, RunAt, Saves
<1>1. /\ runs[w] \in Run /\ TaskTypes /\ mishaps \in Nat
      /\ row \in Records /\ row # NoRow /\ IsJob(row.job)
  BY <1>0, WorkEffect
<1>2. CASE Finished
  <2>1. Goes(w, "ack")
    BY <1>2 DEF Fail
  <2> QED
    BY <1>0, <1>1, <2>1, GoesEffect DEF RunAt, Steps, Recorded, InTry, HasJob, JobIsDone
<1>3. CASE ~Finished
  <2>1. Holds(w, "saveFailure", row)
    BY <1>3 DEF Fail
  <2>2. \A record \in Records : Holds(w, "saveFailure", record) =>
          Moves(w) /\ runs'[w] = [runs[w] EXCEPT !.at = "saveFailure", !.record = record]
    BY <1>1, HoldsMoves DEF Steps
  <2>3. Moves(w) /\ runs'[w] = [runs[w] EXCEPT !.at = "saveFailure", !.record = row]
    BY <1>1, <2>1, <2>2
  <2>4. runs'[w].at = "saveFailure" /\ runs'[w].record = row /\ runs'[w].job = runs[w].job
    BY <1>1, <2>3 DEF Run
  <2>5. RunOK(w)'
    BY <1>0, <1>1, <1>3, <2>4 DEF Finished, Trained, RunOK, RunAt, HasJob, JobIsDone, IsJob
  <2>6. JobsGo /\ jobs' \in Seq(JobStates)
    BY <1>0, <1>1, JobsStay DEF TaskTypes
  <2> QED
    BY <1>0, <1>1, <2>3, <2>4, <2>5, <2>6 DEF RunEffect, RunAt
<1> QED
  BY <1>2, <1>3

LEMMA FollowUpEffect ==
  ASSUME Trained, NEW w \in Workers, FollowUp(w)
  PROVE  RunEffect(w)
<1>0. /\ runs[w].at = "followup" /\ Publish /\ UNCHANGED <<row, jobs, results, requests, mishaps>>
      /\ runs' = [runs EXCEPT ![w].at = "saveFollowup", ![w].enqueued = NewEnvelope]
  BY DEF FollowUp, RunAt
<1>1. runs[w] \in Run /\ runs \in [Workers -> Run] /\ mishaps \in Nat
  BY <1>0, WorkEffect
<1>2. NewEnvelope \in Nat
  BY <1>0, NewEnvelopeIsNew DEF Trained, TaskOK, EnvelopesHeld
<1>3. /\ Moves(w) /\ runs'[w].at = "saveFollowup" /\ runs'[w].record = runs[w].record
      /\ runs'[w].job = runs[w].job
  BY <1>0, <1>1, <1>2 DEF Moves, Run, Steps
<1>4. RunOK(w)'
  BY <1>0, <1>3 DEF Trained, RunOK, RunAt, Recorded, InTry, HasJob, JobIsDone, IsJob
<1>5. JobsGo /\ jobs' \in Seq(JobStates)
  BY <1>0, JobsStay DEF Trained, TaskOK, TaskTypes
<1> QED
  BY <1>0, <1>1, <1>3, <1>4, <1>5 DEF RunEffect, RunAt, Saves

LEMMA SavedFirstRecord ==
  ASSUME Trained, NEW w \in Workers, NEW record \in SavedFirst(w)
  PROVE  record \in Records /\ IsJob(record.job) /\ record.status # "succeeded"
<1>1. CASE RunAt(w, "start") \/ RunAt(w, "cancel") \/ RunAt(w, "saveFailure")
  <2>1. runs[w].record \in Records /\ IsJob(runs[w].record.job)
    BY <1>1 DEF Trained, RunOK, Recorded, InTry, RunAt
  <2>2. \E status \in Statuses \ {"succeeded"} : record = [runs[w].record EXCEPT !.status = status]
    BY <1>1 DEF SavedFirst, RunAt, Statuses, Terminal
  <2> QED
    BY <2>1, <2>2 DEF Records
<1>2. CASE RunAt(w, "saveFollowup")
  <2>1. runs[w].job \in Nat /\ IsJob(runs[w].job)
    BY DEF Trained, RunOK, TaskOK, TaskTypes, Run
  <2> QED
    BY <1>2, <2>1 DEF SavedFirst, RunAt, Records, Statuses
<1> QED
  BY <1>1, <1>2 DEF SavedFirst

LEMMA ThrowsEffect ==
  ASSUME Trained, NEW w \in Workers, Throws(w)
  PROVE  RunEffect(w)
<1>0. /\ runs[w].at # "idle" /\ UNCHANGED requests /\ mishaps' \in Nat
      /\ runs[w] \in Run /\ TaskTypes /\ results \in Nat
  BY MishapKeepsType DEF Throws, InTry, OutsideTry, Trained, TaskOK, TaskTypes
<1>1. PICK step \in {"fail", "release"} : Goes(w, step)
  BY DEF Throws
<1>2. Moves(w) /\ runs'[w].at = step /\ runs'[w].job = runs[w].job
  <2>1. Moves(w) /\ runs'[w] = [runs[w] EXCEPT !.at = step]
    BY <1>0, <1>1, GoesMoves DEF Steps
  <2> QED
    BY <1>0, <2>1 DEF Run
<1>3. JobsGo /\ jobs' \in Seq(JobStates)
  <2>1. CASE UNCHANGED jobs
    BY <1>0, <2>1, JobsStay DEF Throws, TaskTypes
  <2>2. CASE NewJob /\ UNCHANGED results
    BY <2>2, JobComes
  <2> QED
    BY <2>1, <2>2 DEF Throws
<1>4. Saves(w)
  <2>1. CASE UNCHANGED row
    BY <2>1 DEF Saves
  <2>2. CASE \E record \in SavedFirst(w) : Save(record)
    BY <2>2, SavedFirstRecord DEF Save, Saves
  <2> QED
    BY <2>1, <2>2 DEF Throws
<1>5. UNCHANGED envelopes \/ (Publish /\ UNCHANGED <<row, jobs, results>>)
  BY DEF Throws
<1>6. RunOK(w)'
  BY <1>2, <1>3 DEF Trained, RunOK, RunAt, JobsGo, IsJob, Recorded, InTry, HasJob, JobIsDone
<1> QED
  BY <1>0, <1>2, <1>3, <1>4, <1>5, <1>6 DEF RunEffect, RunAt

(* The steps of a run up to its end.                                        *)
Works(w) ==
  \/ Begin(w, "route") \/ SaveCancelled(w) \/ Route(w)
  \/ Start(w) \/ Submit(w) \/ FollowUp(w) \/ SaveFollowUp(w)
  \/ Check(w) \/ Poll(w) \/ SaveFailed(w) \/ Finalizing(w) \/ Finalize(w) \/ SaveDone(w)
  \/ RecordAttempt(w) \/ Fail(w) \/ SaveFailure(w)

LEMMA WorksEffect ==
  ASSUME Trained, NEW w \in Workers, Works(w)
  PROVE  RunEffect(w)
<1> USE DEF RunAt, Steps, Recorded, InTry, HasJob, JobIsDone
<1>1. CASE Route(w)
  <2>1. /\ runs[w].at = "route" /\ UNCHANGED <<row, envelopes, jobs, results, requests, mishaps>>
        /\ mishaps \in Nat /\ Saves(w)
    BY <1>1 DEF Route, Saves, Trained, TaskOK, TaskTypes
  <2>2. PICK next \in {"start", "check", "fail"} : Goes(w, next) /\ (next = "check" => runs[w].job # 0)
    BY <1>1 DEF Route
  <2> QED
    BY <2>1, <2>2, GoesEffect
<1>2. CASE RecordAttempt(w)
  <2>1. /\ runs[w].at = "record" /\ UNCHANGED <<row, envelopes, jobs, results, requests, mishaps>>
        /\ mishaps \in Nat /\ Saves(w) /\ Goes(w, "ack")
    BY <1>2 DEF RecordAttempt, Saves, Trained, TaskOK, TaskTypes
  <2> QED
    BY <2>1, GoesEffect
<1>3. CASE \/ Start(w) \/ SaveFollowUp(w) \/ Check(w) \/ SaveFailed(w) \/ SaveDone(w)
           \/ SaveFailure(w) \/ SaveAs(w, "finalizing", "running", runs[w].job, "finalize")
  <2>1. PICK step \in {"start", "saveFollowup", "check", "saveFailed", "saveDone", "saveFailure", "finalizing"},
             status \in {"running", "failed", "rejected", "succeeded"},
             job \in {0, runs[w].job, runs[w].record.job},
             next \in {"submit", "ack", "poll", "record", "finalize"} :
          /\ SaveAs(w, step, status, job, next)
          /\ next \in Recorded => step \in Recorded
          /\ next \in HasJob => step \in HasJob
          /\ next \in JobIsDone => step \in JobIsDone
          /\ status = "succeeded" => step = "saveDone" /\ job = runs[w].job
          /\ job = runs[w].record.job => step \in Recorded
    BY <1>3 DEF Start, SaveFollowUp, Check, SaveFailed, SaveDone, SaveFailure
  <2>2. runs[w].at = step
    BY <2>1 DEF SaveAs
  <2>3. IsJob(job) /\ status \in Statuses
    BY <2>1, <2>2, WorkEffect DEF Statuses, Terminal
  <2> QED
    BY <2>1, <2>3, SaveAsEffect
<1>4. CASE Goes(w, "fail") /\ Finalizing(w) /\ RunAt(w, "finalizing")
           /\ UNCHANGED <<row, envelopes, jobs, results, requests, mishaps, failedJobs>>
  <2>1. mishaps \in Nat /\ Saves(w)
    BY <1>4 DEF Saves, Trained, TaskOK, TaskTypes
  <2> QED
    BY <1>4, <2>1, GoesEffect
<1> QED
  BY <1>1, <1>2, <1>3, <1>4, BeginEffect, SaveCancelledEffect, SubmitEffect, PollEffect,
     FinalizeEffect, FailEffect, FollowUpEffect
  DEF Works, Finalizing

(* A run begins, ends, or loses its reservation.                            *)
LEMMA EnvelopeTrained ==
  ASSUME Trained, NEW w \in Workers,
         \/ \E e \in 1..MaxEnvelopes : Deliver(w, e)
         \/ AckEnvelope(w) \/ ReleaseEnvelope(w) \/ Crash(w) \/ OutlivesReservation(w)
  PROVE  Trained'
<1>0. TaskOK /\ TaskTypes /\ runs \in [Workers -> Run] /\ runs[w] \in Run /\ mishaps \in Nat
  BY DEF Trained, TaskOK, TaskTypes
<1>1. UNCHANGED <<row, jobs, results, requests>>
  BY DEF Deliver, AckEnvelope, ReleaseEnvelope, Crash, OutlivesReservation
<1>2. TaskOK'
  <2>1. CASE AckEnvelope(w) \/ ReleaseEnvelope(w) \/ Crash(w)
    <3>1. mishaps' \in Nat
      BY <1>0, <2>1, MishapKeepsType DEF AckEnvelope, ReleaseEnvelope, Crash
    <3>2. ~RunAt(w, "idle") /\ runs' = [runs EXCEPT ![w] = Idle]
      BY <2>1 DEF AckEnvelope, ReleaseEnvelope, Crash, RunAt
    <3>3. Settled(w)
      BY <2>1, ReleaseSettles DEF AckEnvelope, Crash, Settled
    <3> QED
      BY <1>0, <1>1, <3>1, <3>2, <3>3, EndKeeps
  <2> QED
    BY <1>0, <2>1, DeliverKeeps, OutlivesKeeps
<1>3. JobsGo
  BY <1>1, JobsStay
<1>4. RowOK'
  BY <1>1, <1>3, RowStays
<1>5. RunOK(w)'
  <2>1. CASE \E e \in 1..MaxEnvelopes : Deliver(w, e)
    <3>1. runs'[w].at = "begin" /\ runs'[w].job = runs[w].job
      BY <1>0, <2>1, DeliverMoves
    <3> QED
      BY <1>1, <3>1 DEF Trained, RunOK, RunAt, IsJob, Recorded, InTry, HasJob, JobIsDone
  <2>2. CASE AckEnvelope(w) \/ ReleaseEnvelope(w) \/ Crash(w)
    <3>1. runs'[w] = Idle /\ Len(jobs) \in Nat
      BY <1>0, <2>2 DEF AckEnvelope, ReleaseEnvelope, Crash, Trained
    <3> QED
      BY <1>1, <3>1 DEF Idle, RunOK, RunAt, IsJob, Recorded, InTry, HasJob, JobIsDone
  <2>3. CASE OutlivesReservation(w)
    <3>1. runs'[w].at = runs[w].at /\ runs'[w].job = runs[w].job /\ runs'[w].record = runs[w].record
      BY <1>0, <2>3 DEF OutlivesReservation, Run
    <3> QED
      BY <1>1, <3>1 DEF Trained, RunOK, RunAt, IsJob
  <2> QED
    BY <2>1, <2>2, <2>3
<1>6. \A v \in Workers \ {w} : runs'[v] = runs[v]
  BY <1>0 DEF Deliver, AckEnvelope, ReleaseEnvelope, Crash, OutlivesReservation
<1>7. \A v \in Workers : RunOK(v)'
  BY <1>3, <1>5, <1>6, OthersStay
<1> QED
  BY <1>1, <1>2, <1>3, <1>4, <1>7 DEF Trained, JobsGo, RequestOK

LEMMA RequestTrained ==
  ASSUME Trained, NEW r \in Requests, RequestNext(r) \/ RequestThrows(r) \/ RequestDies(r)
  PROVE  Trained'
<1>0. /\ TaskOK /\ TaskTypes /\ requests \in [Requests -> Request] /\ requests[r] \in Request
      /\ requests[r].record # NoRow <=> requests[r].at \in Submitting
      /\ requests[r].record # NoRow =>
           /\ requests[r].record \in Records /\ requests[r].record.job = 0
           /\ requests[r].record.status # "succeeded"
      /\ ~RequestAt(r, "submit") /\ ~RequestAt(r, "saveSubmitted") /\ IsJob(0)
  BY DEF Trained, TaskOK, TaskTypes, Request, OneCreator, RequestOK, RequestAt, IsJob
<1>1. UNCHANGED <<jobs, results, runs>>
  BY <1>0 DEF RequestNext, Lookup, Create, SubmitToProvider, SaveSubmitted, SaveRefused, EnqueueFirst,
              SavePublished, RequestThrows, RequestDies
<1>2. TaskOK'
  BY <1>0, RequestKeeps, RequestThrowsKeeps
<1>3. row' = row \/ (row'.job = 0 /\ row'.status # "succeeded")
  BY <1>0
  DEF RequestNext, Lookup, Create, SubmitToProvider, SaveSubmitted, SaveRefused, EnqueueFirst,
      SavePublished, RequestThrows, RequestDies, Save, RequestAt, Submitting
<1>4. /\ \A s \in Requests \ {r} : requests'[s] = requests[s]
      /\ RequestOK(r)'
  <2>1. CASE \E step \in RequestSteps \ {"submit", "saveSubmitted"} : RequestGoes(r, step, NoRow)
    BY <1>0, <2>1 DEF RequestGoes, RequestOK, Request
  <2>2. CASE RequestGoes(r, "enqueue", [status |-> "accepted", job |-> 0])
    BY <1>0, <2>2 DEF RequestGoes, RequestOK, Request
  <2>3. CASE /\ requests[r].record \in Records /\ requests[r].record.job = 0
             /\ RequestGoes(r, "saveRefused", [requests[r].record EXCEPT !.status = "failed"])
    BY <1>0, <2>3 DEF RequestGoes, RequestOK, Request, Records
  <2>4. CASE EnqueueFirst(r)
    <3>1. /\ requests' = [requests EXCEPT
                            ![r].at = "savePublished", ![r].enqueued = NewEnvelope,
                            ![r].record.status = "queued"]
          /\ requests[r].record \in Records
      BY <1>0, <2>4, TrainerAssumption DEF EnqueueFirst, RequestAt, Submitting
    <3>2. /\ requests'[r].at = "savePublished"
          /\ requests'[r].record = [requests[r].record EXCEPT !.status = "queued"]
          /\ \A s \in Requests \ {r} : requests'[s] = requests[s]
      BY <1>0, <3>1 DEF Request
    <3>3. requests[r].record # NoRow
      BY <1>0, <2>4 DEF EnqueueFirst, RequestAt, Submitting
    <3>4. requests'[r].record.job = 0 /\ requests'[r].record.status = "queued"
      BY <1>0, <3>2, <3>3 DEF Records
    <3> QED
      BY <3>2, <3>4 DEF RequestOK
  <2>5. CASE Lookup(r) \/ SaveRefused(r) \/ SavePublished(r) \/ RequestDies(r) \/ (Create(r) /\ row # NoRow)
    <3>1. \E step \in {"create", "answered", "dead"} : RequestGoes(r, step, NoRow)
      BY <2>5 DEF Lookup, SaveRefused, SavePublished, RequestDies, Create
    <3> QED
      BY <2>1, <3>1 DEF RequestSteps
  <2>6. CASE Create(r) /\ row = NoRow
    BY <2>2, <2>6, TrainerAssumption DEF Create
  <2>7. CASE RequestThrows(r)
    BY <1>0, <2>3, <2>7 DEF RequestThrows, RequestAt, Submitting
  <2> QED
    BY <1>0, <2>4, <2>5, <2>6, <2>7 DEF RequestNext, SubmitToProvider, SaveSubmitted
<1>5. JobsGo
  BY <1>1, JobsStay
<1>6. RowOK'
  BY <1>0, <1>1, <1>3, <1>5, RowStays DEF RowOK, IsJob
<1>7. \A w \in Workers : RunOK(w)'
  BY <1>1, <1>5, OthersStay
<1>8. \A s \in Requests : RequestOK(s)'
  BY <1>4 DEF Trained, RequestOK
<1> QED
  BY <1>2, <1>5, <1>6, <1>7, <1>8 DEF Trained, JobsGo

(* The provider and its clock, an operator who asks to cancel, or nothing.  *)
LEMMA OutsideTrained ==
  ASSUME Trained, Settles \/ DeadlinePasses \/ AskToCancel \/ UNCHANGED vars
  PROVE  Trained'
<1>0. TaskOK /\ TaskTypes /\ mishaps \in Nat /\ jobs \in Seq(TrainerStates)
  BY DEF Trained, TaskOK, TaskTypes
<1>1. UNCHANGED <<envelopes, results, requests, runs>>
  BY DEF Settles, DeadlinePasses, ProviderMoves, AskToCancel, vars
<1>2. mishaps' \in Nat
  BY <1>0, MishapKeepsType DEF Settles, DeadlinePasses, ProviderMoves, AskToCancel, vars
<1>3. JobsGo /\ jobs' \in Seq(JobStates)
  <2>1. CASE Settles \/ DeadlinePasses
    <3>1. PICK j \in DOMAIN jobs, state \in TrainerStates :
            jobs' = [jobs EXCEPT ![j] = state] /\ jobs[j] # "done"
      BY <2>1 DEF Settles, DeadlinePasses, ProviderMoves, TrainerStates
    <3>2. jobs' \in Seq(TrainerStates) /\ Len(jobs') = Len(jobs)
      BY <1>0, <3>1
    <3>3. jobs \in Seq(JobStates) /\ state \in JobStates
      BY <1>0 DEF TaskTypes, TrainerStates, JobStates
    <3>4. jobs' \in Seq(JobStates)
      BY <3>1, <3>3
    <3>5. \A k \in 1..Len(jobs) : jobs[k] = "done" => jobs'[k] = "done"
      BY <1>0, <3>1
    <3> QED
      BY <1>0, <1>1, <3>2, <3>4, <3>5 DEF JobsGo, TaskTypes
  <2>2. CASE UNCHANGED jobs
    BY <1>0, <1>1, <2>2, JobsStay DEF TaskTypes
  <2> QED
    BY <2>1, <2>2 DEF AskToCancel, vars
<1>4. row' = row \/ (row \in Records /\ row' \in Records /\ row'.job = row.job /\ row'.status = "cancel_requested")
  <2>1. CASE AskToCancel
    <3>1. row' = [row EXCEPT !.status = "cancel_requested"] /\ row \in Records
      BY <1>0, <2>1 DEF AskToCancel, Save, TaskTypes
    <3> QED
      BY <3>1 DEF Records, Statuses
  <2> QED
    BY <2>1 DEF Settles, DeadlinePasses, ProviderMoves, vars
<1>5. row = NoRow => UNCHANGED <<row, jobs>>
  <2>1. row = NoRow => jobs = <<>>
    BY <1>0 DEF TaskOK, NothingYet
  <2> QED
    BY <1>4, <2>1, NoRowAssumption DEF Settles, DeadlinePasses, ProviderMoves, AskToCancel, vars
<1>6. TaskOK'
  BY <1>0, <1>1, <1>2, <1>3, <1>4, <1>5, OutsideKeeps
<1>7. RowOK'
  <2>1. CASE row' = row
    BY <1>3, <2>1, RowStays
  <2>2. CASE row \in Records /\ row' \in Records /\ row'.job = row.job /\ row'.status = "cancel_requested"
    BY <1>3, <2>2, NoRowAssumption DEF Trained, RowOK, IsJob, JobsGo
  <2> QED
    BY <1>4, <2>1, <2>2
<1>8. \A w \in Workers : RunOK(w)'
  BY <1>1, <1>3, OthersStay
<1> QED
  BY <1>1, <1>3, <1>6, <1>7, <1>8 DEF Trained, JobsGo, RequestOK

LEMMA TrainedStep == Trained /\ [Next]_vars => Trained'
<1> SUFFICES ASSUME Trained, [Next]_vars PROVE Trained'
  OBVIOUS
<1>1. ASSUME NEW w \in Workers, Progress(w)
      PROVE  Trained'
  BY <1>1, WorksEffect, EffectKeeps, EnvelopeTrained DEF Progress, Works
<1>2. ASSUME NEW w \in Workers, Throws(w)
      PROVE  Trained'
  BY <1>2, ThrowsEffect, EffectKeeps
<1> QED
  BY <1>1, <1>2, RequestTrained, EnvelopeTrained, OutsideTrained DEF Next

LEMMA TrainedAtFirst == Init => Trained
<1> SUFFICES ASSUME Init PROVE Trained
  OBVIOUS
<1>1. TaskOK
  BY TaskStarts
<1>2. /\ row = NoRow /\ jobs = <<>> /\ jobs \in Seq(TrainerStates) /\ Len(jobs) = 0
      /\ \A r \in Requests : requests[r].at = "lookup" /\ requests[r].record = NoRow
      /\ \A w \in Workers : runs[w].at = "idle" /\ runs[w].job = 0
  BY DEF Init, Idle
<1>3. \A w \in Workers : RunOK(w)
  BY <1>2 DEF RunOK, RunAt, IsJob, Recorded, InTry, HasJob, JobIsDone
<1> QED
  BY <1>1, <1>2, <1>3 DEF Trained, RowOK, RequestOK

(* A task that succeeded names a job that is done, and its outcome was      *)
(* published, whatever went wrong on the way and whoever saved last.        *)
THEOREM SucceededTasksAreDone == Spec => []SucceededIsDone
<1>1. Trained => SucceededIsDone
  BY DEF Trained, RowOK, SucceededIsDone
<1> QED
  BY <1>1, TrainedAtFirst, TrainedStep, PTL DEF Spec

-----------------------------------------------------------------------------
LEMMA FinishedStep == Trained /\ [Next]_vars => [LeavesFinishedAlone(ReadUnfinished)]_vars
<1> SUFFICES ASSUME Trained, Next, Finished,
                    \A r \in Requests : ~StaleRequest(r), \A w \in Workers : ~ReadUnfinished(w)
             PROVE  row' = row /\ results' = results
  BY DEF LeavesFinishedAlone
<1>1. row # NoRow /\ row.status \in Terminal
  BY DEF Finished
<1>2. \A r \in Requests : requests[r].at \notin Submitting
  BY DEF Trained, TaskOK, OneCreator, StaleRequest, Writing, Submitting
<1>3. ASSUME NEW r \in Requests, RequestNext(r) \/ RequestThrows(r) \/ RequestDies(r)
      PROVE  row' = row /\ results' = results
  BY <1>1, <1>2, <1>3
  DEF RequestNext, Lookup, Create, SubmitToProvider, SaveSubmitted, SaveRefused, EnqueueFirst,
      SavePublished, RequestThrows, RequestDies, RequestAt, Submitting
<1>4. \A w \in Workers : runs[w].at \notin Recorded
  BY NoRowAssumption DEF Trained, RunOK, ReadUnfinished
<1>5. ASSUME NEW w \in Workers, Progress(w)
      PROVE  row' = row /\ results' = results
  BY <1>4, <1>5
  DEF Progress, Begin, SaveCancelled, Route, Start, SaveAs, Submit, FollowUp, SaveFollowUp, Check,
      Poll, SaveFailed, Finalizing, Finalize, SaveDone, RecordAttempt, Fail, SaveFailure,
      AckEnvelope, ReleaseEnvelope, RunAt, Recorded, InTry
<1>6. ASSUME NEW w \in Workers, Throws(w)
      PROVE  row' = row /\ results' = results
  <2>1. SavedFirst(w) = {} /\ ~RunAt(w, "finalize")
    BY <1>4 DEF SavedFirst, RunAt, Recorded, InTry
  <2> QED
    BY <1>6, <2>1 DEF Throws
<1>7. ASSUME NEW w \in Workers,
             \/ \E e \in 1..MaxEnvelopes : Deliver(w, e)
             \/ Crash(w) \/ OutlivesReservation(w)
      PROVE  row' = row /\ results' = results
  BY <1>7 DEF Deliver, Crash, OutlivesReservation
<1>8. CASE Settles \/ DeadlinePasses \/ AskToCancel
  BY <1>8 DEF Settles, DeadlinePasses, ProviderMoves, AskToCancel
<1> QED
  BY <1>3, <1>5, <1>6, <1>7, <1>8 DEF Next

(* A finished task stays finished, with the results that it has, once       *)
(* nobody is left who read its row before.                                  *)
THEOREM FinishedTasksStay == Spec => FinishedIsFinal
  BY TrainedAtFirst, TrainedStep, FinishedStep, PTL DEF Spec, FinishedIsFinal

-----------------------------------------------------------------------------
(* One provider job, as long as nothing goes wrong.                         *)
Going(w) == runs[w].at \notin {"idle", "ack"}

ChainOfRun(w) ==
  /\ ~RunAt(w, "idle") => runs[w].envelope # NoEnvelope
  /\ ~RunAt(w, "release")
  /\ RunAt(w, "saveFollowup") => runs[w].enqueued \in Unheld
  /\ Going(w) /\ ~RunAt(w, "saveFollowup") => Unheld = {}

(* The request that creates the row puts the first envelope into the queue. *)
ChainOfRequest(r) ==
  /\ ~RequestAt(r, "saveRefused")
  /\ RequestAt(r, "savePublished") => requests[r].enqueued \in Unheld
  /\ RequestAt(r, "enqueue") => Unheld = {}
  /\ requests[r].at \in {"enqueue", "savePublished"} =>
       jobs = <<>> /\ \A w \in Workers : ~Going(w)

OneChain ==
  /\ \A v, w \in Workers : Going(v) /\ Going(w) => v = w
  /\ \A d, e \in Unheld : d = e
  /\ \A w \in Workers : ChainOfRun(w)
  /\ \A r \in Requests : ChainOfRequest(r)

(* No job where none is recorded, but in the run that submits it.           *)
JobOfRun(w) ==
  /\ runs[w].at \in {"start", "submit"} => jobs = <<>>
  /\ RunAt(w, "route") /\ runs[w].job = 0 => jobs = <<>>
  /\ runs[w].at \in {"cancel", "saveFailure"} /\ runs[w].record.job = 0 => jobs = <<>>

JobOfRow ==
  row # NoRow /\ row.job = 0 =>
    jobs = <<>> \/ \E w \in Workers : runs[w].at \in {"followup", "saveFollowup"}

One ==
  /\ OneChain
  /\ Len(jobs) <= 1 /\ JobOfRow
  /\ \A w \in Workers : JobOfRun(w)

Single == mishaps = 0 => One

(* A step of the one run that goes on, which leaves the envelopes alone.    *)
Quiet(w) ==
  /\ Going(w)
  /\ RunAt(w, "saveFollowup") => runs'[w].at = "ack"
  /\ \A v \in Workers \ {w} : runs'[v] = runs[v]
  /\ runs'[w].envelope = runs[w].envelope
  /\ runs'[w].at \notin {"idle", "saveFollowup", "release"}
  /\ UNCHANGED <<envelopes, requests>>
  /\ JobOfRun(w)' /\ Len(jobs') <= 1 /\ JobOfRow'

LEMMA QuietKeeps ==
  ASSUME One, NEW w \in Workers, Quiet(w)
  PROVE  One'
<1>1. \A v \in Workers : runs'[v].envelope = runs[v].envelope
  BY DEF Quiet
<1>2. Held' = Held
  BY <1>1 DEF Held
<1>3. Unheld' = Unheld
  BY <1>2 DEF Unheld, Quiet
<1>4. \A v \in Workers \ {w} : runs[v].at \in {"idle", "ack"}
  BY DEF One, OneChain, Quiet, Going
<1>5. \A v \in Workers : Going(v)' => v = w
  BY <1>4 DEF Quiet, Going
<1>6. \A v \in Workers \ {w} : ChainOfRun(v)' /\ JobOfRun(v)'
  BY <1>3, <1>4 DEF Quiet, One, OneChain, ChainOfRun, JobOfRun, RunAt, Going
<1>7. ChainOfRun(w)'
  BY <1>3 DEF Quiet, One, OneChain, ChainOfRun, RunAt, Going
<1>8. ASSUME NEW r \in Requests
      PROVE  ChainOfRequest(r)'
  <2>1. requests[r].at \notin {"enqueue", "savePublished"} /\ ~RequestAt(r, "saveRefused")
    BY DEF One, OneChain, ChainOfRequest, Quiet
  <2> QED
    BY <2>1 DEF ChainOfRequest, RequestAt, Quiet
<1>9. OneChain'
  BY <1>3, <1>5, <1>6, <1>7, <1>8 DEF OneChain, One
<1> QED
  BY <1>6, <1>9 DEF One, Quiet

(* Where the job of the row is 0, no job is known, unless a run has just    *)
(* submitted it.                                                            *)
LEMMA RowTellsJob ==
  ASSUME One, NEW w \in Workers, Going(w), runs[w].at \notin {"followup", "saveFollowup"},
         row # NoRow, row.job = 0
  PROVE  jobs = <<>>
  BY DEF One, OneChain, JobOfRow, Going

LEMMA GoesQuiet ==
  ASSUME Trained, One, NEW w \in Workers, Going(w),
         runs[w].at \notin {"followup", "saveFollowup"},
         NEW next \in Steps \ {"idle", "saveFollowup", "release", "submit", "route", "cancel",
                               "saveFailure"},
         Goes(w, next), next = "start" => runs[w].at = "route" /\ runs[w].job = 0,
         UNCHANGED <<row, jobs, envelopes, requests>>
  PROVE  Quiet(w)
<1>0. TaskTypes /\ runs[w] \in Run
  BY DEF Trained, TaskOK, TaskTypes
<1>1. Moves(w) /\ runs'[w] = [runs[w] EXCEPT !.at = next]
  BY <1>0, GoesMoves
<1>2. runs'[w].at = next
  BY <1>0, <1>1 DEF Run
<1>3. JobOfRun(w)'
  BY <1>2 DEF JobOfRun, RunAt, One
<1>4. JobOfRow' /\ Len(jobs') <= 1
  BY RowTellsJob DEF JobOfRow, One
<1> QED
  BY <1>1, <1>2, <1>3, <1>4 DEF Quiet, Moves, RunAt

LEMMA SavesQuiet ==
  ASSUME Trained, One, NEW w \in Workers, Going(w),
         NEW next \in {"submit", "ack", "poll", "record", "finalize"},
         Goes(w, next), next # "ack" => ~RunAt(w, "saveFollowup"),
         next = "submit" => jobs = <<>>,
         row'.job = 0 => jobs = <<>>, UNCHANGED <<jobs, envelopes, requests>>
  PROVE  Quiet(w)
<1>0. TaskTypes /\ runs[w] \in Run /\ next \in Steps
  BY DEF Trained, TaskOK, TaskTypes, Steps
<1>1. Moves(w) /\ runs'[w] = [runs[w] EXCEPT !.at = next]
  BY <1>0, GoesMoves
<1>2. runs'[w].at = next
  BY <1>0, <1>1 DEF Run
<1>3. JobOfRun(w)'
  BY <1>2 DEF JobOfRun, RunAt
<1>4. JobOfRow' /\ Len(jobs') <= 1
  BY DEF JobOfRow, One
<1> QED
  BY <1>1, <1>2, <1>3, <1>4 DEF Quiet, Moves, RunAt


LEMMA BeginQuiet ==
  ASSUME Trained, One, NEW w \in Workers, Begin(w, "route")
  PROVE  Quiet(w)
<1>0. /\ runs[w].at = "begin" /\ Going(w) /\ UNCHANGED <<row, envelopes, jobs, requests>>
  BY DEF Begin, RunAt, Going
<1>1. /\ runs[w] \in Run /\ runs \in [Workers -> Run] /\ row \in Records /\ row # NoRow
  BY <1>0, WorkEffect
<1>2. CASE Finished
  <2>1. Goes(w, "ack")
    BY <1>2 DEF Begin
  <2> QED
    BY <1>0, <2>1, GoesQuiet DEF Steps
<1>3. CASE ~Finished
  <2>1. PICK step \in {"route", "cancel"} :
          runs' = [runs EXCEPT ![w].at = step, ![w].record = row, ![w].job = row.job]
    BY <1>3 DEF Begin
  <2>2. /\ runs'[w] = [runs[w] EXCEPT !.at = step, !.record = row, !.job = row.job]
        /\ \A v \in Workers \ {w} : runs'[v] = runs[v]
    BY <1>1, <2>1
  <2>3. /\ runs'[w].at = step /\ runs'[w].record = row /\ runs'[w].job = row.job
        /\ runs'[w].envelope = runs[w].envelope
    BY <1>1, <2>2 DEF Run
  <2>4. row.job = 0 => jobs = <<>>
    BY <1>0, <1>1, RowTellsJob
  <2>5. JobOfRun(w)'
    BY <1>0, <2>3, <2>4 DEF JobOfRun, RunAt
  <2>6. JobOfRow' /\ Len(jobs') <= 1
    BY <1>0, <2>4 DEF JobOfRow, One
  <2> QED
    BY <1>0, <2>2, <2>3, <2>5, <2>6 DEF Quiet, RunAt
<1> QED
  BY <1>2, <1>3

LEMMA SaveCancelledQuiet ==
  ASSUME Trained, One, NEW w \in Workers, SaveCancelled(w)
  PROVE  Quiet(w)
<1>0. /\ runs[w].at = "cancel" /\ Going(w) /\ Goes(w, "ack")
      /\ row' = [runs[w].record EXCEPT !.status = "cancelled"]
      /\ UNCHANGED <<envelopes, jobs, requests>>
  BY DEF SaveCancelled, RunAt, Save, Going
<1>1. runs[w].record \in Records
  BY <1>0 DEF Trained, RunOK, Recorded
<1>2. row'.job = runs[w].record.job
  BY <1>0, <1>1 DEF Records
<1>3. row'.job = 0 => jobs = <<>>
  BY <1>0, <1>2 DEF One, JobOfRun
<1> QED
  BY <1>0, <1>3, SavesQuiet DEF RunAt

LEMMA SubmitQuiet ==
  ASSUME Trained, One, NEW w \in Workers, Submit(w)
  PROVE  Quiet(w)
<1>0. /\ runs[w].at = "submit" /\ Going(w) /\ UNCHANGED <<row, envelopes, requests>>
      /\ jobs = <<>>
  BY DEF Submit, RunAt, Going, One, JobOfRun
<1>1. runs[w] \in Run /\ runs \in [Workers -> Run]
  BY <1>0, WorkEffect
<1>2. CASE NewJob /\ runs' = [runs EXCEPT ![w].at = "followup", ![w].job = Len(jobs')]
  <2>1. Len(jobs') = 1
    BY <1>0, <1>2 DEF NewJob
  <2>2. /\ runs'[w] = [runs[w] EXCEPT !.at = "followup", !.job = Len(jobs')]
        /\ \A v \in Workers \ {w} : runs'[v] = runs[v]
    BY <1>1, <1>2
  <2>3. runs'[w].at = "followup" /\ runs'[w].envelope = runs[w].envelope
    BY <1>1, <2>2 DEF Run
  <2>4. JobOfRun(w)' /\ JobOfRow'
    BY <2>3 DEF JobOfRun, JobOfRow, RunAt
  <2> QED
    BY <1>0, <2>1, <2>2, <2>3, <2>4 DEF Quiet, RunAt
<1>3. CASE UNCHANGED jobs /\ Goes(w, "fail")
  BY <1>0, <1>3, GoesQuiet DEF Steps
<1> QED
  BY <1>2, <1>3 DEF Submit

LEMMA FailQuiet ==
  ASSUME Trained, One, NEW w \in Workers, Fail(w)
  PROVE  Quiet(w)
<1>0. /\ runs[w].at = "fail" /\ Going(w) /\ UNCHANGED <<row, envelopes, jobs, requests>>
  BY DEF Fail, RunAt, Going
<1>1. runs[w] \in Run /\ TaskTypes /\ row \in Records /\ row # NoRow
  BY <1>0, WorkEffect
<1>2. CASE Finished
  <2>1. Goes(w, "ack")
    BY <1>2 DEF Fail
  <2> QED
    BY <1>0, <2>1, GoesQuiet DEF Steps
<1>3. CASE ~Finished
  <2>1. Holds(w, "saveFailure", row)
    BY <1>3 DEF Fail
  <2>2. \A record \in Records : Holds(w, "saveFailure", record) =>
          Moves(w) /\ runs'[w] = [runs[w] EXCEPT !.at = "saveFailure", !.record = record]
    BY <1>1, HoldsMoves DEF Steps
  <2>3. Moves(w) /\ runs'[w] = [runs[w] EXCEPT !.at = "saveFailure", !.record = row]
    BY <1>1, <2>1, <2>2
  <2>4. runs'[w].at = "saveFailure" /\ runs'[w].record = row
    BY <1>1, <2>3 DEF Run
  <2>5. row.job = 0 => jobs = <<>>
    BY <1>0, <1>1, RowTellsJob
  <2>6. JobOfRun(w)'
    BY <1>0, <2>4, <2>5 DEF JobOfRun, RunAt
  <2>7. JobOfRow' /\ Len(jobs') <= 1
    BY <1>0, <2>5 DEF JobOfRow, One
  <2> QED
    BY <1>0, <2>3, <2>4, <2>6, <2>7 DEF Quiet, Moves, RunAt
<1> QED
  BY <1>2, <1>3

(* The saves of the record with the job of the run.                         *)
LEMMA SaveAsQuiet ==
  ASSUME Trained, One, NEW w \in Workers, NEW step, step \in HasJob \/ step = "start",
         NEW status, NEW job, NEW next \in {"submit", "ack", "poll", "record", "finalize"},
         SaveAs(w, step, status, job, next),
         step = "saveFollowup" => next = "ack", next = "submit" => step = "start",
         step # "start" => job = runs[w].job
  PROVE  Quiet(w)
<1>1. /\ runs[w].at = step /\ Going(w) /\ Goes(w, next) /\ row'.job = job
      /\ UNCHANGED <<jobs, envelopes, requests>>
  BY DEF SaveAs, RunAt, Save, Going, HasJob
<1>2. step = "start" => jobs = <<>>
  BY <1>1 DEF One, JobOfRun
<1>3. step # "start" => row'.job # 0
  BY <1>1 DEF Trained, RunOK
<1> QED
  BY <1>1, <1>2, <1>3, SavesQuiet DEF RunAt

LEMMA WorksQuiet ==
  ASSUME Trained, One, NEW w \in Workers, Works(w), ~FollowUp(w)
  PROVE  Quiet(w)
<1>1. CASE Begin(w, "route") \/ SaveCancelled(w) \/ Submit(w) \/ Fail(w)
  BY <1>1, BeginQuiet, SaveCancelledQuiet, SubmitQuiet, FailQuiet
<1>2. CASE Route(w)
  <2>1. /\ RunAt(w, "route") /\ Going(w) /\ UNCHANGED <<row, envelopes, jobs, requests>>
        /\ \/ runs[w].job = 0 /\ Goes(w, "start")
           \/ Goes(w, "check")
           \/ Goes(w, "fail")
    BY <1>2 DEF Route, RunAt, Going
  <2> QED
    BY <2>1, GoesQuiet DEF RunAt, Steps
<1>3. CASE Start(w) \/ SaveFollowUp(w) \/ Check(w) \/ SaveFailed(w) \/ SaveDone(w)
  BY <1>3, SaveAsQuiet DEF Start, SaveFollowUp, Check, SaveFailed, SaveDone, HasJob
<1>4. CASE Poll(w)
  <2>1. PICK next \in {"followup", "saveFailed", "finalizing"} : Goes(w, next)
    BY <1>4 DEF Poll
  <2>2. /\ runs[w].at = "poll" /\ Going(w) /\ UNCHANGED <<row, envelopes, jobs, requests>>
        /\ next \in Steps \ {"idle", "saveFollowup", "release", "submit", "route", "cancel",
                             "saveFailure"}
    BY <1>4 DEF Poll, RunAt, Going, Steps
  <2> QED
    BY <2>1, <2>2, GoesQuiet
<1>5. CASE Finalizing(w)
  <2>1. CASE SaveAs(w, "finalizing", "running", runs[w].job, "finalize")
    BY <2>1, SaveAsQuiet DEF HasJob
  <2>2. CASE RunAt(w, "finalizing") /\ Goes(w, "fail") /\ UNCHANGED <<row, envelopes, jobs, requests>>
    BY <2>2, GoesQuiet DEF RunAt, Going, Steps
  <2> QED
    BY <1>5, <2>1, <2>2 DEF Finalizing
<1>6. CASE Finalize(w) \/ RecordAttempt(w)
  <2>1. /\ runs[w].at \in {"finalize", "record"} /\ Going(w)
        /\ UNCHANGED <<row, envelopes, jobs, requests>>
        /\ Goes(w, "saveDone") \/ Goes(w, "fail") \/ Goes(w, "ack")
    BY <1>6 DEF Finalize, RecordAttempt, RunAt, Going
  <2> QED
    BY <2>1, GoesQuiet DEF Steps
<1>7. CASE SaveFailure(w)
  <2>1. PICK status \in {"rejected", "failed"} :
          SaveAs(w, "saveFailure", status, runs[w].record.job, "ack")
    BY <1>7 DEF SaveFailure
  <2>2. /\ runs[w].at = "saveFailure" /\ Going(w) /\ Goes(w, "ack")
        /\ row'.job = runs[w].record.job /\ UNCHANGED <<jobs, envelopes, requests>>
    BY <2>1 DEF SaveAs, RunAt, Save, Going
  <2>3. row'.job = 0 => jobs = <<>>
    BY <2>2 DEF One, JobOfRun
  <2> QED
    BY <2>2, <2>3, SavesQuiet DEF RunAt
<1> QED
  BY <1>1, <1>2, <1>3, <1>4, <1>5, <1>6, <1>7 DEF Works


LEMMA FollowUpOne ==
  ASSUME Trained, One, NEW w \in Workers, FollowUp(w)
  PROVE  One'
<1>0. /\ runs[w].at = "followup" /\ Going(w) /\ Publish /\ Unheld = {}
      /\ UNCHANGED <<row, jobs, requests>>
  BY DEF FollowUp, RunAt, Going, One, OneChain, ChainOfRun
<1>1. /\ runs \in [Workers -> Run] /\ runs[w].envelope # NoEnvelope
      /\ \A v \in Workers : runs[v].envelope \in DOMAIN envelopes \cup {NoEnvelope}
  BY <1>0 DEF Trained, TaskOK, TaskTypes, EnvelopesHeld, One, OneChain, ChainOfRun, RunAt
<1>2. /\ NewEnvelope \notin DOMAIN envelopes \cup {NoEnvelope}
      /\ DOMAIN envelopes' = DOMAIN envelopes \cup {NewEnvelope}
  BY <1>0, NewEnvelopeIsNew DEF Trained, TaskOK, EnvelopesHeld
<1>3. /\ runs'[w] = [runs[w] EXCEPT !.at = "saveFollowup", !.enqueued = NewEnvelope]
      /\ \A v \in Workers \ {w} : runs'[v] = runs[v]
  BY <1>1 DEF FollowUp
<1>4. /\ runs'[w].at = "saveFollowup" /\ runs'[w].enqueued = NewEnvelope
      /\ runs'[w].envelope = runs[w].envelope
  BY <1>1, <1>3 DEF Run
<1>5. Held' = Held
  BY <1>3, <1>4 DEF Held
<1>6. Unheld' = {NewEnvelope}
  BY <1>0, <1>1, <1>2, <1>5 DEF Unheld, Held
<1>7. \A v \in Workers \ {w} : runs[v].at \in {"idle", "ack"}
  BY <1>0 DEF One, OneChain, Going
<1>8. \A v \in Workers : ChainOfRun(v)' /\ JobOfRun(v)' /\ (Going(v)' => v = w)
  <2>1. ChainOfRun(w)' /\ JobOfRun(w)'
    BY <1>1, <1>4, <1>6 DEF ChainOfRun, JobOfRun, Going, RunAt
  <2>2. ASSUME NEW v \in Workers \ {w}
        PROVE  ChainOfRun(v)' /\ JobOfRun(v)' /\ ~Going(v)'
    <3>1. runs'[v] = runs[v] /\ runs[v].at \in {"idle", "ack"}
      BY <1>3, <1>7
    <3>2. runs[v].at # "idle" => runs[v].envelope # NoEnvelope
      BY DEF One, OneChain, ChainOfRun, RunAt
    <3> QED
      BY <3>1, <3>2 DEF ChainOfRun, JobOfRun, Going, RunAt
  <2> QED
    BY <2>1, <2>2
<1>9. \A r \in Requests : ChainOfRequest(r)'
  BY <1>0 DEF One, OneChain, ChainOfRequest, RequestAt
<1> QED
  BY <1>0, <1>4, <1>6, <1>8, <1>9 DEF One, OneChain, JobOfRow

(* An acknowledgement takes an envelope out that the run held.              *)
LEMMA AckOne ==
  ASSUME Trained, One, NEW w \in Workers, AckEnvelope(w)
  PROVE  One'
<1>0. /\ runs[w].at = "ack" /\ UNCHANGED <<row, jobs, requests>>
      /\ runs \in [Workers -> Run] /\ DOMAIN envelopes \subseteq 1..MaxEnvelopes
  BY DEF AckEnvelope, RunAt, Trained, TaskOK, TaskTypes, EnvelopesHeld
<1>1. /\ runs'[w] = Idle /\ \A v \in Workers \ {w} : runs'[v] = runs[v]
      /\ DOMAIN envelopes' = DOMAIN envelopes \ {runs[w].envelope}
  BY <1>0 DEF AckEnvelope, Remove
<1>2. runs'[w].at = "idle" /\ runs'[w].envelope = NoEnvelope
  BY <1>1 DEF Idle
<1>3. NoEnvelope \notin DOMAIN envelopes
  BY <1>0 DEF NoEnvelope
<1>4. Unheld' = Unheld
  <2>1. ASSUME NEW e \in Unheld
        PROVE  e \in Unheld'
    BY <1>1, <1>2, <1>3, <2>1 DEF Unheld, Held
  <2>2. ASSUME NEW e \in Unheld'
        PROVE  e \in Unheld
    BY <1>1, <1>2, <2>2 DEF Unheld, Held
  <2> QED
    BY <2>1, <2>2
<1>5. \A v \in Workers : ChainOfRun(v)' /\ JobOfRun(v)' /\ (Going(v)' => Going(v))
  BY <1>0, <1>1, <1>2, <1>4 DEF One, OneChain, ChainOfRun, JobOfRun, Going, RunAt
<1>6. \A r \in Requests : ChainOfRequest(r)'
  BY <1>0, <1>4, <1>5 DEF One, OneChain, ChainOfRequest, RequestAt
<1>7. JobOfRow'
  BY <1>0, <1>1 DEF One, JobOfRow
<1> QED
  BY <1>0, <1>4, <1>5, <1>6, <1>7 DEF One, OneChain

(* A waiting envelope that is not late is all there is of the task.         *)
LEMMA DeliverOne ==
  ASSUME Trained, One, NEW w \in Workers, NEW e \in 1..MaxEnvelopes, Deliver(w, e), ~Unsaved(e)
  PROVE  One'
<1>0. /\ e \in Unheld /\ UNCHANGED <<row, jobs, requests>> /\ runs \in [Workers -> Run]
      /\ e # NoEnvelope
  BY DEF Deliver, Unheld, Trained, TaskOK, TaskTypes, NoEnvelope
<1>1. Unheld = {e}
  BY <1>0 DEF One, OneChain
<1>2. \A v \in Workers : ~Going(v)
  BY <1>1 DEF One, OneChain, ChainOfRun, Unsaved
<1>3. \A r \in Requests : requests[r].at \notin {"enqueue", "savePublished"}
  BY <1>1 DEF One, OneChain, ChainOfRequest, Unsaved, RequestAt
<1>4. /\ \A v \in Workers \ {w} : runs'[v] = runs[v]
      /\ runs'[w].at = "begin" /\ runs'[w].envelope = e /\ runs[w].at = "idle"
  BY DeliverMoves DEF Trained, TaskOK
<1>5. DOMAIN envelopes' = DOMAIN envelopes
  BY DEF Deliver
<1>6. runs[w].envelope = NoEnvelope /\ NoEnvelope \notin DOMAIN envelopes
  BY <1>4 DEF Trained, TaskOK, EnvelopesHeld, Idle, NoEnvelope
<1>7. Unheld' = {}
  <2>1. ASSUME NEW d \in Unheld'
        PROVE  FALSE
    <3>1. d \in DOMAIN envelopes /\ \A v \in Workers : d # runs'[v].envelope
      BY <1>5, <2>1 DEF Unheld, Held
    <3>2. \A v \in Workers : d # runs[v].envelope
      BY <1>4, <1>6, <3>1
    <3>3. d \in Unheld
      BY <3>1, <3>2 DEF Unheld, Held
    <3> QED
      BY <1>1, <1>4, <3>1, <3>3
  <2> QED
    BY <2>1
<1>8. \A v \in Workers : ChainOfRun(v)' /\ JobOfRun(v)' /\ (Going(v)' => v = w)
  BY <1>0, <1>2, <1>4, <1>5, <1>7 DEF One, OneChain, ChainOfRun, JobOfRun, Going, RunAt
<1>9. \A r \in Requests : ChainOfRequest(r)'
  BY <1>0, <1>3 DEF One, OneChain, ChainOfRequest, RequestAt
<1>10. JobOfRow'
  BY <1>0, <1>2 DEF One, JobOfRow, Going
<1> QED
  BY <1>0, <1>7, <1>8, <1>9, <1>10 DEF One, OneChain

LEMMA RequestOne ==
  ASSUME Trained, One, NEW r \in Requests, RequestNext(r)
  PROVE  One'
<1>0. /\ requests \in [Requests -> Request] /\ runs \in [Workers -> Run]
      /\ \A s \in Requests : requests[s].at \notin {"submit", "saveSubmitted", "saveRefused"}
      /\ UNCHANGED <<runs, jobs>>
  BY DEF Trained, TaskOK, TaskTypes, RequestOK, One, OneChain, ChainOfRequest, RequestAt,
         RequestNext, Lookup, Create, SubmitToProvider, SaveSubmitted, SaveRefused, EnqueueFirst,
         SavePublished
<1>1. Held' = Held /\ \A w \in Workers : Going(w)' <=> Going(w)
  BY <1>0 DEF Held, Going
<1>2. ASSUME UNCHANGED envelopes, row' = row \/ (row'.job = 0 => jobs = <<>>),
             \A s \in Requests \ {r} : requests'[s] = requests[s],
             requests'[r].at \notin {"enqueue", "savePublished", "saveRefused"}
      PROVE  One'
  <2>1. Unheld' = Unheld
    BY <1>1, <1>2 DEF Unheld
  <2>2. \A w \in Workers : ChainOfRun(w)' /\ JobOfRun(w)'
    BY <1>0, <2>1 DEF One, OneChain, ChainOfRun, JobOfRun, Going, RunAt
  <2>3. \A s \in Requests : ChainOfRequest(s)'
    BY <1>0, <1>1, <1>2, <2>1 DEF One, OneChain, ChainOfRequest, RequestAt
  <2>4. JobOfRow'
    BY <1>0, <1>2 DEF One, JobOfRow
  <2> QED
    BY <1>0, <1>1, <2>1, <2>2, <2>3, <2>4 DEF One, OneChain
<1>3. CASE Create(r) /\ row = NoRow
  <2>1. /\ DOMAIN envelopes = {} /\ jobs = <<>> /\ UNCHANGED envelopes
        /\ \A w \in Workers : RunAt(w, "idle")
    BY <1>3 DEF Trained, TaskOK, NothingYet, Create
  <2>2. Unheld = {} /\ Unheld' = {}
    BY <2>1 DEF Unheld
  <2>3. \A w \in Workers : ChainOfRun(w)' /\ JobOfRun(w)' /\ ~Going(w)'
    BY <1>0, <2>1, <2>2 DEF ChainOfRun, JobOfRun, Going, RunAt
  <2>4. \A s \in Requests \ {r} : requests'[s] = requests[s]
    BY <1>0, <1>3 DEF Create, RequestGoes
  <2>5. requests'[r].at \in {"enqueue", "answered"}
    BY <1>0, <1>3, TrainerAssumption DEF Create, RequestGoes, Request
  <2>6. \A s \in Requests : ChainOfRequest(s)'
    BY <1>0, <2>1, <2>2, <2>3, <2>4, <2>5 DEF One, OneChain, ChainOfRequest, RequestAt
  <2>7. JobOfRow' /\ Len(jobs') <= 1
    BY <1>0, <2>1 DEF One, JobOfRow
  <2> QED
    BY <2>2, <2>3, <2>6, <2>7 DEF One, OneChain
<1>4. CASE EnqueueFirst(r)
  <2>1. /\ Publish /\ Unheld = {} /\ jobs = <<>> /\ UNCHANGED row
        /\ \A w \in Workers : ~Going(w)
    BY <1>4 DEF EnqueueFirst, RequestAt, One, OneChain, ChainOfRequest
  <2>2. /\ NewEnvelope \notin DOMAIN envelopes \cup {NoEnvelope}
        /\ DOMAIN envelopes' = DOMAIN envelopes \cup {NewEnvelope}
    BY <2>1, NewEnvelopeIsNew DEF Trained, TaskOK, EnvelopesHeld
  <2>3. \A w \in Workers : runs[w].envelope \in DOMAIN envelopes \cup {NoEnvelope}
    BY DEF Trained, TaskOK, EnvelopesHeld
  <2>4. Unheld' = {NewEnvelope}
    BY <1>1, <2>1, <2>2, <2>3 DEF Unheld, Held
  <2>5. /\ requests'[r].at = "savePublished" /\ requests'[r].enqueued = NewEnvelope
        /\ \A s \in Requests \ {r} : requests'[s] = requests[s]
    BY <1>0, <1>4 DEF EnqueueFirst, Request
  <2>6. \A s \in Requests \ {r} : requests[s].at \notin {"enqueue", "savePublished"}
    BY <1>4 DEF Trained, TaskOK, OneCreator, EnqueueFirst, RequestAt, Submitting
  <2>7. \A w \in Workers : ChainOfRun(w)' /\ JobOfRun(w)' /\ ~Going(w)'
    BY <1>0, <2>1 DEF One, OneChain, ChainOfRun, JobOfRun, Going, RunAt
  <2>8. \A s \in Requests : ChainOfRequest(s)'
    BY <1>0, <2>1, <2>4, <2>5, <2>6, <2>7 DEF One, OneChain, ChainOfRequest, RequestAt
  <2>9. JobOfRow' /\ Len(jobs') <= 1
    BY <1>0, <2>1 DEF One, JobOfRow
  <2> QED
    BY <2>4, <2>7, <2>8, <2>9 DEF One, OneChain
<1>5. CASE Lookup(r) \/ (Create(r) /\ row # NoRow)
  <2>1. /\ UNCHANGED <<envelopes, row>> /\ \A s \in Requests \ {r} : requests'[s] = requests[s]
        /\ requests'[r].at \in {"create", "answered"}
    BY <1>0, <1>5 DEF Lookup, Create, RequestGoes, Request
  <2> QED
    BY <1>2, <2>1
<1>6. CASE SavePublished(r)
  <2>1. /\ requests[r].at = "savePublished" /\ UNCHANGED envelopes /\ row' = requests[r].record
        /\ \A s \in Requests \ {r} : requests'[s] = requests[s]
        /\ requests'[r].at = "answered"
    BY <1>0, <1>6 DEF SavePublished, RequestGoes, Request, RequestAt, Save
  <2>2. jobs = <<>>
    BY <2>1 DEF One, OneChain, ChainOfRequest
  <2> QED
    BY <1>2, <2>1, <2>2
<1> QED
  BY <1>0, <1>3, <1>4, <1>5, <1>6
  DEF RequestNext, SubmitToProvider, SaveSubmitted, SaveRefused, RequestAt

LEMMA ProviderOne ==
  ASSUME Trained, One, Settles \/ DeadlinePasses
  PROVE  One'
<1>1. /\ UNCHANGED <<row, envelopes, requests, runs>>
      /\ jobs # <<>> /\ Len(jobs') = Len(jobs)
  BY DEF Settles, DeadlinePasses, ProviderMoves, Trained
<1>2. Unheld' = Unheld
  BY <1>1 DEF Unheld, Held
<1>3. \A w \in Workers : ChainOfRun(w)' /\ JobOfRun(w)' /\ (Going(w)' => Going(w))
  BY <1>1, <1>2 DEF One, OneChain, ChainOfRun, JobOfRun, Going, RunAt
<1>4. \A r \in Requests : ChainOfRequest(r)'
  BY <1>1, <1>2 DEF One, OneChain, ChainOfRequest, RequestAt
<1>5. JobOfRow'
  BY <1>1 DEF One, JobOfRow, RunAt
<1> QED
  BY <1>1, <1>2, <1>3, <1>4, <1>5 DEF One, OneChain

(* Without a mishap, a step is one of these.                                *)
LEMMA SingleStep == Trained /\ Single /\ [Next]_vars => Single'
<1> SUFFICES ASSUME Trained, Single, [Next]_vars, mishaps' = 0 PROVE One'
  BY DEF Single
<1>0. mishaps \in Nat
  BY DEF Trained, TaskOK, TaskTypes
<1>1. CASE UNCHANGED vars
  <2>1. One
    BY <1>1 DEF Single, One, vars
  <2> QED
    BY <1>1, <2>1
    DEF vars, One, OneChain, ChainOfRun, ChainOfRequest, JobOfRun, JobOfRow, Going, Unheld, Held,
        RunAt, RequestAt
<1>2. CASE Next
  <2>1. \A kind : ~Mishap(kind)
    BY <1>0 DEF Mishap
  <2>2. \/ \E r \in Requests : RequestNext(r)
        \/ \E w \in Workers : \E e \in 1..MaxEnvelopes : Deliver(w, e) /\ ~Unsaved(e)
        \/ \E w \in Workers : Progress(w)
        \/ Settles \/ DeadlinePasses
    BY <1>2, <2>1
    DEF Next, RequestThrows, RequestDies, Deliver, Throws, Crash, OutlivesReservation, AskToCancel
  <2>3. UNCHANGED mishaps
    BY <2>2
    DEF RequestNext, Lookup, Create, SubmitToProvider, SaveSubmitted, SaveRefused, EnqueueFirst,
        SavePublished, Deliver, Progress, Begin, SaveCancelled, Route, Start, SaveAs, Submit,
        FollowUp, SaveFollowUp, Check, Poll, SaveFailed, Finalizing, Finalize, SaveDone,
        RecordAttempt, Fail, SaveFailure, AckEnvelope, ReleaseEnvelope, Settles, DeadlinePasses,
        ProviderMoves
  <2>4. One
    BY <2>3 DEF Single, One
  <2>5. ASSUME NEW w \in Workers, Progress(w)
        PROVE  One'
    <3>1. ~ReleaseEnvelope(w)
      BY <2>4 DEF One, OneChain, ChainOfRun, ReleaseEnvelope
    <3>2. CASE AckEnvelope(w)
      BY <2>4, <3>2, AckOne
    <3>3. CASE FollowUp(w)
      BY <2>4, <3>3, FollowUpOne
    <3>4. CASE Works(w) /\ ~FollowUp(w)
      BY <2>4, <3>4, WorksQuiet, QuietKeeps
    <3> QED
      BY <2>5, <3>1, <3>2, <3>3, <3>4 DEF Progress, Works
  <2> QED
    BY <2>2, <2>4, <2>5, RequestOne, DeliverOne, ProviderOne
<1> QED
  BY <1>1, <1>2

LEMMA SingleAtFirst == Init => Single
<1> SUFFICES ASSUME Init PROVE One
  BY DEF Single, One
<1>1. /\ row = NoRow /\ jobs = <<>> /\ DOMAIN envelopes = {}
      /\ \A w \in Workers : runs[w] = Idle /\ runs[w].at = "idle"
      /\ \A r \in Requests : requests[r].at = "lookup"
  BY DEF Init, Idle
<1>2. Unheld = {}
  BY <1>1 DEF Unheld
<1> QED
  BY <1>1, <1>2
  DEF One, OneChain, ChainOfRun, ChainOfRequest, JobOfRun, JobOfRow, Going, RunAt, RequestAt

(* As long as nothing goes wrong, the worker submits one job: the run that  *)
(* submits it is the only one there is, and the next one reads its number.  *)
THEOREM OneJobPerTask == Spec => []OneJob
<1>1. Single => OneJob
  BY DEF Single, One, OneJob
<1> QED
  BY <1>1, TrainedAtFirst, TrainedStep, SingleAtFirst, SingleStep, PTL DEF Spec

-----------------------------------------------------------------------------
(* The account of chains and results, as mishaps come.                      *)
HasPublished == EndsChain \cup {"saveDone", "record"}

Account == Trained /\ Counted(HasPublished)

LEMMA GoesTo ==
  ASSUME TaskOK, NEW w \in Workers, NEW next \in Steps, Goes(w, next)
  PROVE  runs'[w].at = next
<1>1. runs'[w] = [runs[w] EXCEPT !.at = next] /\ runs[w] \in Run
  BY GoesMoves DEF TaskOK, TaskTypes
<1> QED
  BY <1>1 DEF Run

LEMMA WorksCounted ==
  ASSUME Account, NEW w \in Workers, Works(w)
  PROVE  Counted(HasPublished)'
<1>0. /\ TaskOK /\ ~RunAt(w, "idle") /\ Moves(w) /\ UNCHANGED requests
      /\ row' \in Records \/ UNCHANGED row
  BY WorksEffect DEF Account, Trained, RunEffect, Saves
<1>1. CASE FollowUp(w)
  <2>1. /\ runs[w].at = "followup" /\ Publish /\ runs'[w].at = "saveFollowup"
        /\ UNCHANGED <<row, results, requests, mishaps>>
    BY <1>0, <1>1, FollowUpMoves
  <2> QED
    BY <1>0, <2>1, FollowUpCounted DEF Account, HasPublished, EndsChain
<1>2. CASE Finalize(w)
  <2>1. runs[w].at = "finalize" /\ UNCHANGED <<row, envelopes, requests, mishaps>>
    BY <1>2 DEF Finalize, RunAt
  <2>2. CASE results' = results + 1 /\ Goes(w, "saveDone")
    <3>1. runs'[w].at = "saveDone"
      BY <1>0, <2>2, GoesTo DEF Steps
    <3> QED
      BY <1>0, <2>1, <2>2, <3>1, ResultCounted DEF Account, HasPublished, EndsChain
  <2>3. CASE UNCHANGED results
    BY <1>0, <2>1, <2>3, MoveCounted DEF Account, HasPublished, EndsChain
  <2> QED
    BY <1>2, <2>2, <2>3 DEF Finalize
<1>3. CASE ~FollowUp(w) /\ ~Finalize(w)
  <2>1. UNCHANGED <<envelopes, results, mishaps>>
    BY <1>3 DEF Works, Begin, SaveCancelled, Route, Start, SaveAs, Submit, SaveFollowUp, Check, Poll,
                SaveFailed, Finalizing, SaveDone, RecordAttempt, Fail, SaveFailure
  <2>2. /\ runs[w].at \in {"saveFollowup", "record"} => Goes(w, "ack")
        /\ runs[w].at = "saveDone" => Goes(w, "record")
        /\ runs[w].at # "ack"
    BY DEF Works, Begin, SaveCancelled, Route, Start, SaveAs, Submit, FollowUp, SaveFollowUp, Check,
           Poll, SaveFailed, Finalizing, Finalize, SaveDone, RecordAttempt, Fail, SaveFailure, RunAt
  <2>3. /\ runs[w].at \in {"saveFollowup", "record"} => runs'[w].at = "ack"
        /\ runs[w].at = "saveDone" => runs'[w].at = "record"
    BY <1>0, <2>2, GoesTo DEF Steps
  <2> QED
    BY <1>0, <2>1, <2>2, <2>3, MoveCounted DEF Account, HasPublished, EndsChain
<1> QED
  BY <1>1, <1>2, <1>3

(* What is thrown, wherever the run is.                                     *)
LEMMA ThrowsMoves ==
  ASSUME Trained, NEW w \in Workers, Throws(w)
  PROVE  /\ ~RunAt(w, "idle") /\ Moves(w) /\ runs'[w].at \in {"fail", "release"}
         /\ RunAt(w, "followup") => runs'[w].at = "fail"
         /\ mishaps' = mishaps + 1 /\ UNCHANGED <<requests, failedJobs>>
         /\ row' \in Records \/ UNCHANGED row
<1>1. TaskOK /\ ~RunAt(w, "idle") /\ Moves(w) /\ (row' \in Records \/ UNCHANGED row)
  BY ThrowsEffect DEF Trained, RunEffect, Saves
<1>2. PICK step \in {"fail", "release"} :
        Goes(w, step) /\ (RunAt(w, "followup") => step = "fail")
  BY DEF Throws, InTry, OutsideTry, RunAt
<1>3. runs'[w].at = step
  BY <1>1, <1>2, GoesTo DEF Steps
<1> QED
  BY <1>1, <1>2, <1>3 DEF Throws, Mishap

LEMMA ThrowsCounted ==
  ASSUME Account, NEW w \in Workers, Throws(w)
  PROVE  Counted(HasPublished)'
<1>0. /\ TaskOK /\ ~RunAt(w, "idle") /\ Moves(w) /\ UNCHANGED requests /\ mishaps' = mishaps + 1
      /\ RunAt(w, "followup") => runs'[w].at = "fail"
      /\ row' \in Records \/ UNCHANGED row
  BY ThrowsMoves DEF Account, Trained
<1>1. CASE UNCHANGED <<envelopes, results>>
  BY <1>0, <1>1, MoveCounted DEF Account
<1>2. CASE RunAt(w, "followup") /\ Publish /\ UNCHANGED <<row, results>>
  BY <1>0, <1>2, FollowUpCounted DEF Account, RunAt, HasPublished, EndsChain
<1>3. CASE RunAt(w, "finalize") /\ results' = results + 1 /\ UNCHANGED <<row, envelopes>>
  BY <1>0, <1>3, ResultCounted DEF Account, RunAt, HasPublished, EndsChain
<1> QED
  BY <1>1, <1>2, <1>3 DEF Throws

LEMMA OutsideCounted ==
  ASSUME Account, Settles \/ DeadlinePasses \/ AskToCancel \/ UNCHANGED vars
  PROVE  Counted(HasPublished)'
<1>0. TaskOK /\ TaskTypes
  BY DEF Account, Trained, TaskOK
<1>1. /\ UNCHANGED <<envelopes, requests, runs, results>>
      /\ mishaps' \in {mishaps, mishaps + 1}
  BY DEF Settles, DeadlinePasses, ProviderMoves, AskToCancel, vars, Mishap
<1>2. row' \in Records \/ UNCHANGED row
  BY <1>0, RecordTypes
  DEF Settles, DeadlinePasses, ProviderMoves, AskToCancel, vars, Save, TaskTypes, Statuses
<1> QED
  BY <1>0, <1>1, <1>2, StillCounted DEF Account

LEMMA AccountStep == Account /\ [Next]_vars => Account'
<1> SUFFICES ASSUME Account, [Next]_vars PROVE Counted(HasPublished)'
  BY TrainedStep DEF Account
<1>0. TaskOK /\ Counted(HasPublished) /\ "release" \notin HasPublished
  BY DEF Account, Trained, HasPublished, EndsChain
<1>1. ASSUME NEW w \in Workers, Progress(w)
      PROVE  Counted(HasPublished)'
  BY <1>0, <1>1, WorksCounted, EnvelopeCounted DEF Progress, Works
<1> QED
  BY <1>0, <1>1, RequestCounted, EnvelopeCounted, ThrowsCounted, OutsideCounted DEF Next

LEMMA AccountStarts == Init => Account
  BY TrainedAtFirst, CountedAtFirst DEF Account

(* A training or modelling task has one polling chain, and one more per     *)
(* mishap at most: for any number of requests, workers and mishaps of any   *)
(* kind.                                                                    *)
THEOREM TrainerChainsAreAccounted == Spec => []ChainsAccounted
<1>1. Account => ChainsAccounted
  BY CountedBounds DEF Account, Trained
<1> QED
  BY <1>1, AccountStarts, AccountStep, PTL DEF Spec

(* A job is finalized once, and once more per mishap at most.               *)
THEOREM TrainerResultsAreAccounted == Spec => []ResultsAccounted
<1>1. Account => ResultsAccounted
  BY CountedBounds DEF Account, Trained
<1> QED
  BY <1>1, AccountStarts, AccountStep, PTL DEF Spec

-----------------------------------------------------------------------------
(* A task is driven (Alive) as long as runs crash and calls of a run fail.   *)
LEMMA WorksAlive ==
  ASSUME Trained, Alive, NEW w \in Workers, Works(w)
  PROVE  Alive'
<1>0. TaskOK /\ ~RunAt(w, "idle") /\ Moves(w) /\ runs[w] \in Run /\ runs \in [Workers -> Run]
  BY WorksEffect DEF Trained, RunEffect, TaskOK, TaskTypes
<1>1. CASE FollowUp(w)
  BY <1>0, <1>1, FollowUpMoves, PublishAlive
<1> DEFINE Drives(next) == /\ next \in Steps \ {"idle", "saveFollowup"}
                           /\ runs'[w].at = next
                           /\ \/ row'.status \in Terminal
                              \/ next \notin {"record", "ack"}
                              \/ UNCHANGED row /\ runs[w].at \in {"record", "ack"}
                              \/ runs[w].at = "saveFollowup"
<1>2. ASSUME NEW next, Drives(next), UNCHANGED <<envelopes, requests, failedJobs>>
      PROVE  Alive'
  BY <1>0, <1>2, MoveAlive
<1>3. ASSUME NEW next \in Steps \ {"idle", "saveFollowup", "record", "ack"}, Goes(w, next)
      PROVE  Drives(next)
  BY <1>0, <1>3, GoesTo
<1>4. ASSUME NEW step, NEW status, NEW job, NEW next \in Steps \ {"idle", "saveFollowup"},
             SaveAs(w, step, status, job, next),
             status \in Terminal \/ next \notin {"record", "ack"} \/ step = "saveFollowup"
      PROVE  Alive'
  <2>1. /\ runs'[w].at = next /\ row'.status = status /\ runs[w].at = step
        /\ UNCHANGED <<envelopes, requests, failedJobs>>
    BY <1>0, <1>4, GoesTo DEF SaveAs, Save, RunAt
  <2> QED
    BY <1>2, <1>4, <2>1
<1>5. CASE Begin(w, "route")
  <2>1. UNCHANGED <<row, envelopes, requests, failedJobs>>
    BY <1>5 DEF Begin
  <2>2. CASE Finished
    <3>1. runs'[w].at = "ack"
      BY <1>0, <1>5, <2>2, GoesTo DEF Begin, Steps
    <3> QED
      BY <1>2, <2>1, <2>2, <3>1 DEF Finished, Steps
  <2>3. CASE ~Finished
    <3>1. PICK step \in {"route", "cancel"} :
            runs' = [runs EXCEPT ![w].at = step, ![w].record = row, ![w].job = row.job]
      BY <1>5, <2>3 DEF Begin
    <3>2. runs'[w].at = step
      BY <1>0, <3>1 DEF Run
    <3> QED
      BY <1>2, <2>1, <3>2 DEF Steps
  <2> QED
    BY <2>2, <2>3
<1>6. CASE SaveCancelled(w)
  <2>1. runs[w].record \in Records /\ UNCHANGED <<envelopes, requests, failedJobs>>
    BY <1>6 DEF SaveCancelled, RunAt, Trained, RunOK, Recorded
  <2>2. row'.status = "cancelled" /\ runs'[w].at = "ack"
    BY <1>0, <1>6, <2>1, GoesTo DEF SaveCancelled, Save, Records, Steps
  <2> QED
    BY <1>2, <2>1, <2>2 DEF Terminal, Steps
<1>7. CASE \/ Start(w) \/ Check(w) \/ SaveFollowUp(w) \/ SaveFailed(w) \/ SaveDone(w) \/ SaveFailure(w)
           \/ SaveAs(w, "finalizing", "running", runs[w].job, "finalize")
  BY <1>4, <1>7 DEF Start, Check, SaveFollowUp, SaveFailed, SaveDone, SaveFailure, Steps, Terminal
<1>8. CASE Submit(w)
  <2>1. UNCHANGED <<row, envelopes, requests, failedJobs>>
    BY <1>8 DEF Submit
  <2>2. runs'[w].at \in {"followup", "fail"}
    <3>1. CASE runs' = [runs EXCEPT ![w].at = "followup", ![w].job = Len(jobs')]
      BY <1>0, <3>1 DEF Run
    <3>2. CASE Goes(w, "fail")
      BY <1>0, <3>2, GoesTo DEF Steps
    <3> QED
      BY <1>8, <3>1, <3>2 DEF Submit
  <2> QED
    BY <1>2, <2>1, <2>2 DEF Steps
<1>9. CASE \/ Route(w) \/ Poll(w) \/ Finalize(w)
           \/ /\ Finalizing(w) /\ Goes(w, "fail")
              /\ UNCHANGED <<row, envelopes, jobs, results, requests, mishaps, failedJobs>>
  <2>1. UNCHANGED <<envelopes, requests, failedJobs>>
    BY <1>9 DEF Route, Poll, Finalize
  <2>2. PICK next \in {"start", "check", "fail", "followup", "saveFailed", "finalizing", "saveDone"} :
          Goes(w, next)
    BY <1>9 DEF Route, Poll, Finalize
  <2> QED
    BY <1>2, <1>3, <2>1, <2>2 DEF Steps
<1>10. CASE RecordAttempt(w)
  <2>1. /\ runs[w].at = "record" /\ Goes(w, "ack") /\ UNCHANGED <<row, envelopes, requests, failedJobs>>
    BY <1>10 DEF RecordAttempt, RunAt
  <2>2. runs'[w].at = "ack"
    BY <1>0, <2>1, GoesTo DEF Steps
  <2> QED
    BY <1>2, <2>1, <2>2 DEF Steps
<1>11. CASE Fail(w)
  <2>1. UNCHANGED <<row, envelopes, requests, failedJobs>>
    BY <1>11 DEF Fail
  <2>2. CASE Finished
    <3>1. runs'[w].at = "ack"
      BY <1>0, <1>11, <2>2, GoesTo DEF Fail, Steps
    <3> QED
      BY <1>2, <2>1, <2>2, <3>1 DEF Finished, Steps
  <2>3. CASE ~Finished
    <3>1. runs'[w].at = "saveFailure"
      BY <1>0, <1>11, <2>3 DEF Fail, Holds, Run
    <3> QED
      BY <1>2, <2>1, <3>1 DEF Steps
  <2> QED
    BY <2>2, <2>3
<1> QED
  BY <1>1, <1>5, <1>6, <1>7, <1>8, <1>9, <1>10, <1>11 DEF Works, Finalizing

LEMMA ThrowsAlive ==
  ASSUME Trained, Alive, NEW w \in Workers, Throws(w)
  PROVE  Alive'
<1>1. /\ TaskOK /\ ~RunAt(w, "idle") /\ Moves(w) /\ runs'[w].at \in {"fail", "release"}
      /\ RunAt(w, "followup") => runs'[w].at = "fail"
      /\ UNCHANGED <<requests, failedJobs>>
  BY ThrowsMoves DEF Trained
<1>2. CASE UNCHANGED envelopes
  BY <1>1, <1>2, MoveAlive
<1>3. CASE RunAt(w, "followup") /\ Publish /\ UNCHANGED row
  BY <1>1, <1>3, PublishAlive DEF RunAt
<1> QED
  BY <1>2, <1>3 DEF Throws

LEMMA AliveStep == RunsOnly /\ Trained /\ Alive /\ [Next]_vars => Alive'
<1> SUFFICES ASSUME RunsOnly, Trained, Alive, [Next]_vars PROVE Alive'
  OBVIOUS
<1>0. TaskOK
  BY DEF Trained
<1>1. ASSUME NEW w \in Workers, Progress(w)
      PROVE  Alive'
  BY <1>0, <1>1, WorksAlive, EndAlive DEF Progress, Works
<1>2. ASSUME NEW r \in Requests
      PROVE  ~RequestThrows(r) /\ ~RequestDies(r)
  BY DEF RequestThrows, RequestDies, Mishap, RunsOnly
<1>3. ASSUME NEW w \in Workers
      PROVE  ~OutlivesReservation(w)
  BY DEF OutlivesReservation, Mishap, RunsOnly
<1>4. CASE UNCHANGED <<envelopes, requests, runs, failedJobs>> /\ (Unfinished' => Unfinished)
  BY <1>4 DEF Alive, Waits, IsDriven, Driving, Unheld, Held, StaleRequest, RunAt, RequestAt
<1>5. CASE Settles \/ DeadlinePasses \/ AskToCancel \/ UNCHANGED vars
  BY <1>4, <1>5 DEF Settles, DeadlinePasses, ProviderMoves, AskToCancel, vars, Unfinished, Finished
<1> QED
  BY <1>0, <1>1, <1>2, <1>3, <1>5, RequestAlive, ThrowsAlive, EndAlive, DeliverAlive DEF Next

(* A training or modelling task that is not finished is driven, by an       *)
(* envelope or the request that enqueues it, or given up in failed_jobs,    *)
(* however often runs crash, calls of theirs fail, and somebody cancels.    *)
THEOREM TrainerTasksAreDriven == ASSUME RunsOnly PROVE Spec => []Driven
<1>1. Init => Alive
  BY DEF Init, Alive, Waits, Unfinished, RunAt, RequestAt, Idle
<1>2. Alive => Driven
  BY DEF Alive, Unfinished, IsDriven, Driving, Driven, Finished
<1>3. Trained /\ Alive /\ [Next]_vars => Alive'
  BY AliveStep
<1> QED
  BY <1>1, <1>2, <1>3, TrainedAtFirst, TrainedStep, PTL DEF Spec
===============================================================================
