----------------------------- MODULE TrainerTask -----------------------------
(***************************************************************************)
(* Tasks whose handler submits the provider job itself: train_style_lora    *)
(* (loraTrainTaskExecution.ts) and hunyuan3d_three_view                     *)
(* (threeView3dTaskExecution.ts).  The two handlers take the same steps;    *)
(* only the second has a deadline for polling.                              *)
(*                                                                          *)
(* Every save uses the record read at the start of the run, the one after a *)
(* failure excepted.  Nothing is thrown on to the queue worker but what is  *)
(* thrown outside the try block.                                            *)
(***************************************************************************)
EXTENDS TaskLifecycle

CONSTANT HasDeadline  \* HUNYUAN3D_MODELING_MAX_DURATION_SECONDS guards the polling

ASSUME TrainerAssumption == ~AtProvider /\ HasDeadline \in BOOLEAN

InTry == {"start", "submit", "followup", "saveFollowup", "check", "poll", "saveFailed",
          "finalizing", "finalize", "saveDone", "record"}
OutsideTry == {"begin", "cancel", "fail", "saveFailure"}

(* A payload that is not valid is rejected; a task without a job submits    *)
(* one, a task with a job checks on it.                                     *)
Route(w) ==
  /\ RunAt(w, "route")
  /\ \/ Goes(w, IF runs[w].job = 0 THEN "start" ELSE "check")
     \/ Goes(w, "fail")
  /\ UNCHANGED <<row, envelopes, jobs, results, requests, mishaps, failedJobs>>

Start(w) == SaveAs(w, "start", "running", 0, "submit")

(* submitLoraTrainerJob, or resolveViewImages and submitModelingJob.        *)
Submit(w) ==
  /\ RunAt(w, "submit")
  /\ \/ NewJob /\ runs' = [runs EXCEPT ![w].at = "followup", ![w].job = Len(jobs')]
     \/ UNCHANGED jobs /\ Goes(w, "fail")
  /\ UNCHANGED <<row, envelopes, results, requests, mishaps, failedJobs>>

Check(w) == SaveAs(w, "check", "running", runs[w].job, "poll")

(* Faulty variant: no deadline.                                             *)
PollForEver(w) ==
  /\ RunAt(w, "poll")
  /\ Goes(w, CASE jobs[runs[w].job] \in {"pending", "overdue"} -> "followup"
               [] jobs[runs[w].job] = "failed" -> "saveFailed"
               [] OTHER -> "finalizing")
  /\ UNCHANGED <<row, envelopes, jobs, results, requests, mishaps, failedJobs>>

Poll(w) ==
  /\ RunAt(w, "poll")
  /\ Goes(w, CASE jobs[runs[w].job] = "pending" -> "followup"
               [] jobs[runs[w].job] = "overdue" ->
                    IF HasDeadline THEN "saveFailed" ELSE "followup"
               [] jobs[runs[w].job] = "failed" -> "saveFailed"
               [] OTHER -> "finalizing")
  /\ UNCHANGED <<row, envelopes, jobs, results, requests, mishaps, failedJobs>>

SaveFailed(w) == SaveAs(w, "saveFailed", "failed", runs[w].job, "record")

(* Faulty variant: success is reported before the job is finalized.         *)
SaveSuccessEarly(w) == SaveAs(w, "finalizing", "succeeded", runs[w].job, "finalize")

(* validateMetricModelResult may refuse the model before anything is saved. *)
Finalizing(w) ==
  \/ SaveAs(w, "finalizing", "running", runs[w].job, "finalize")
  \/ /\ RunAt(w, "finalizing")
     /\ Goes(w, "fail")
     /\ UNCHANGED <<row, envelopes, jobs, results, requests, mishaps, failedJobs>>

(* finalizeLoraTrainerJob, or the download, the upload and                  *)
(* registerEntityModel3d; initializeGeneratedModelPlacement never throws.   *)
Finalize(w) ==
  /\ RunAt(w, "finalize")
  /\ \/ results' = results + 1 /\ Goes(w, "saveDone")
     \/ UNCHANGED results /\ Goes(w, "fail")
  /\ UNCHANGED <<row, envelopes, jobs, requests, mishaps, failedJobs>>

SaveDone(w) == SaveAs(w, "saveDone", "succeeded", runs[w].job, "record")

RecordAttempt(w) ==
  /\ RunAt(w, "record")
  /\ Goes(w, "ack")
  /\ UNCHANGED <<row, envelopes, jobs, results, requests, mishaps, failedJobs>>

(* markRejectedOrFailed reads the row again and leaves a finished one.      *)
Fail(w) ==
  /\ RunAt(w, "fail")
  /\ IF Finished THEN Goes(w, "ack") ELSE Holds(w, "saveFailure", row)
  /\ UNCHANGED <<row, envelopes, jobs, results, requests, mishaps, failedJobs>>

SaveFailure(w) ==
  \E status \in {"rejected", "failed"} :
    SaveAs(w, "saveFailure", status, runs[w].record.job, "ack")

(* What a step saves before something that belongs to the same step, the    *)
(* event that follows or the reply of the save, can still throw.            *)
SavedFirst(w) ==
  CASE RunAt(w, "start") -> {[runs[w].record EXCEPT !.status = "running"]}
    [] RunAt(w, "cancel") -> {[runs[w].record EXCEPT !.status = "cancelled"]}
    [] RunAt(w, "saveFollowup") -> {[status |-> "running", job |-> runs[w].job]}
    [] RunAt(w, "saveFailure") ->
         {[runs[w].record EXCEPT !.status = status] : status \in {"rejected", "failed"}}
    [] OTHER -> {}

(* A call of the run is rejected, before it took effect or after.           *)
Throws(w) ==
  /\ Mishap("store")
  /\ \/ runs[w].at \in InTry /\ Goes(w, "fail")
     \/ runs[w].at \in OutsideTry /\ Goes(w, "release")
  /\ \/ UNCHANGED <<row, envelopes, jobs, results>>
     \/ RunAt(w, "submit") /\ NewJob /\ UNCHANGED <<row, envelopes, results>>
     \/ RunAt(w, "followup") /\ Publish /\ UNCHANGED <<row, jobs, results>>
     \/ RunAt(w, "finalize") /\ results' = results + 1 /\ UNCHANGED <<row, envelopes, jobs>>
     \/ /\ \E record \in SavedFirst(w) : Save(record)
        /\ UNCHANGED <<envelopes, jobs, results>>
  /\ UNCHANGED <<requests, failedJobs>>

Progress(w) ==
  \/ Begin(w, "route") \/ SaveCancelled(w) \/ Route(w)
  \/ Start(w) \/ Submit(w) \/ FollowUp(w) \/ SaveFollowUp(w)
  \/ Check(w) \/ Poll(w) \/ SaveFailed(w) \/ Finalizing(w) \/ Finalize(w) \/ SaveDone(w)
  \/ RecordAttempt(w) \/ Fail(w) \/ SaveFailure(w) \/ AckEnvelope(w) \/ ReleaseEnvelope(w)

Settles == \E j \in 1..MaxJobs : ProviderMoves(j, {"done", "failed"})

DeadlinePasses == \E j \in 1..MaxJobs : ProviderMoves(j, {"overdue"})

Next ==
  \/ \E r \in Requests : RequestNext(r) \/ RequestThrows(r) \/ RequestDies(r)
  \/ \E w \in Workers :
       \/ \E e \in 1..MaxEnvelopes : Deliver(w, e)
       \/ Progress(w) \/ Throws(w) \/ Crash(w) \/ OutlivesReservation(w)
  \/ Settles \/ DeadlinePasses
  \/ AskToCancel

Spec == Init /\ [][Next]_vars

(* As in StephenTask, but of the provider nothing is expected: time passes. *)
Fairness ==
  /\ \A r \in Requests : WF_vars(RequestNext(r))
  /\ \A w \in Workers : WF_vars(Progress(w))
  /\ \A e \in 1..MaxEnvelopes : SF_vars(\E w \in Workers : Deliver(w, e))
  /\ WF_vars(DeadlinePasses)

FairSpec == Spec /\ Fairness

-----------------------------------------------------------------------------
(* Properties.                                                              *)

(* A finished task stays as it is once nobody is left who read its row when *)
(* it was not finished: another POST with its task_id, another envelope in  *)
(* the queue and a redelivery leave it alone.                              *)
FinishedIsFinal == [][LeavesFinishedAlone(ReadUnfinished)]_vars

(* A task has one provider job, unless a mishap makes a run read the row    *)
(* before the job of another run is in it: the job is submitted before it   *)
(* is recorded, and nothing else tells a run that it exists.                *)
OneJob == mishaps = 0 => Len(jobs) <= 1

(* A task that is reported as succeeded names a job that is done, and its   *)
(* outcome was published.                                                   *)
SucceededIsDone ==
  row # NoRow /\ row.status = "succeeded" =>
    results > 0 /\ row.job # 0 /\ jobs[row.job] = "done"

(* The deadline guard: a task whose envelope got into the queue finishes    *)
(* even if the provider never does: it is not enqueued again without end.   *)
DeadlineEndsPolling == DOMAIN envelopes # {} ~> Finished \/ failedJobs
=============================================================================
