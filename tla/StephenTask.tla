----------------------------- MODULE StephenTask -----------------------------
(***************************************************************************)
(* Tasks rendered by the Stephen provider, render_panel and                 *)
(* replace_prop_panel: submitTask hands the job to the provider, the        *)
(* handler polls it and publishes the image.  The handler of                *)
(* replace_prop_panel (replacePropTaskExecution.ts) takes the same steps as *)
(* that of render_panel.                                                    *)
(***************************************************************************)
EXTENDS TaskLifecycle

ASSUME StephenAssumption == AtProvider

(* The steps inside the try block, and those before it: what is thrown      *)
(* there goes straight to the queue worker.                                 *)
InTry == {"poll", "followup", "saveFollowup", "saveRejected", "saveFailed", "download",
          "fetch", "reread90", "save90", "publish", "rereadDone", "saveDone", "record"}
OutsideTry == {"begin", "cancel", "start", "fail", "saveFailure"}

Start(w) == SaveAs(w, "start", "running", runs[w].record.job, "poll")

(* The provider's answer decides; any other status than these counts as     *)
(* failed.                                                                  *)
Poll(w) ==
  /\ RunAt(w, "poll")
  /\ Goes(w, CASE runs[w].job = 0 -> "fail"
               [] runs[w].job # 0 /\ jobs[runs[w].job] \in {"pending", "overdue"} -> "followup"
               [] runs[w].job # 0 /\ jobs[runs[w].job] = "rejected" -> "saveRejected"
               [] runs[w].job # 0 /\ jobs[runs[w].job] = "failed" -> "saveFailed"
               [] OTHER -> "download")
  /\ UNCHANGED <<row, envelopes, jobs, results, requests, mishaps, failedJobs>>

SaveRejected(w) == SaveAs(w, "saveRejected", "rejected", runs[w].job, "record")
SaveFailed(w) == SaveAs(w, "saveFailed", "failed", runs[w].job, "record")
Download(w) == SaveAs(w, "download", "running", runs[w].job, "fetch")

(* finalizeStephenImageWorkflow and loadStoryboardProjectContextOrReject.   *)
Fetch(w) ==
  /\ RunAt(w, "fetch")
  /\ Goes(w, "reread90") \/ Goes(w, "fail")
  /\ UNCHANGED <<row, envelopes, jobs, results, requests, mishaps, failedJobs>>

(* expectTask: from here on the record is read again before it is saved.    *)
Reread(w, step, next) ==
  /\ RunAt(w, step)
  /\ Holds(w, next, row)
  /\ UNCHANGED <<row, envelopes, jobs, results, requests, mishaps, failedJobs>>

Reread90(w) == Reread(w, "reread90", "save90")

(* Faulty variant: success is reported before the artifact is published.    *)
SaveSuccessEarly(w) == SaveAs(w, "save90", "succeeded", runs[w].job, "publish")

Save90(w) == SaveAs(w, "save90", "running", runs[w].job, "publish")

(* Faulty variant: the artifact is written first and refused after.         *)
PublishThenRefuse(w) ==
  /\ RunAt(w, "publish")
  /\ results' = results + 1
  /\ Goes(w, "rereadDone") \/ Goes(w, "fail")
  /\ UNCHANGED <<row, envelopes, jobs, requests, mishaps, failedJobs>>

(* writeStoryboardOutputSidecar appends the artifact, or refuses to.        *)
PublishArtifact(w) ==
  /\ RunAt(w, "publish")
  /\ \/ results' = results + 1 /\ Goes(w, "rereadDone")
     \/ UNCHANGED results /\ Goes(w, "fail")
  /\ UNCHANGED <<row, envelopes, jobs, requests, mishaps, failedJobs>>

RereadDone(w) == Reread(w, "rereadDone", "saveDone")
SaveDone(w) == SaveAs(w, "saveDone", "succeeded", runs[w].record.job, "record")

(* The last event and the attempt.                                          *)
RecordAttempt(w) ==
  /\ RunAt(w, "record")
  /\ Goes(w, "ack")
  /\ UNCHANGED <<row, envelopes, jobs, results, requests, mishaps, failedJobs>>

(* The catch block reads the row again and saves it as failed, whatever it  *)
(* is by now.                                                               *)
Fail(w) == Reread(w, "fail", "saveFailure")

(* A rejection is final and swallowed; another error is thrown on, and the  *)
(* queue worker releases the job or gives it up.                            *)
FailureStatus(w) == IF LastAttempt(w) THEN "failed" ELSE "retry_waiting"

SaveFailure(w) ==
  \/ SaveAs(w, "saveFailure", "rejected", runs[w].record.job, "ack")
  \/ SaveAs(w, "saveFailure", FailureStatus(w), runs[w].record.job, "release")

(* What a step saves before something that belongs to the same step, the    *)
(* event that follows or the reply of the save, can still throw.            *)
SavedFirst(w) ==
  CASE RunAt(w, "start") -> {[runs[w].record EXCEPT !.status = "running"]}
    [] RunAt(w, "cancel") -> {[runs[w].record EXCEPT !.status = "cancelled"]}
    [] RunAt(w, "saveFollowup") -> {[status |-> "running", job |-> runs[w].job]}
    [] RunAt(w, "saveFailure") ->
         {[runs[w].record EXCEPT !.status = status] : status \in {"rejected", FailureStatus(w)}}
    [] OTHER -> {}

(* A call of the run is rejected, before it took effect or after.           *)
Throws(w) ==
  /\ Mishap("store")
  /\ \/ runs[w].at \in InTry /\ Goes(w, "fail")
     \/ runs[w].at \in OutsideTry /\ Goes(w, "release")
  /\ \/ UNCHANGED <<row, envelopes, results>>
     \/ /\ RunAt(w, "followup") /\ Publish
        /\ UNCHANGED <<row, results>>
     \/ /\ RunAt(w, "publish") /\ results' = results + 1
        /\ UNCHANGED <<row, envelopes>>
     \/ /\ \E record \in SavedFirst(w) : Save(record)
        /\ UNCHANGED <<envelopes, results>>
  /\ UNCHANGED <<jobs, requests, failedJobs>>

Progress(w) ==
  \/ Begin(w, "start") \/ SaveCancelled(w) \/ Start(w) \/ Poll(w)
  \/ FollowUp(w) \/ SaveFollowUp(w) \/ SaveRejected(w) \/ SaveFailed(w)
  \/ Download(w) \/ Fetch(w) \/ Reread90(w) \/ Save90(w) \/ PublishArtifact(w)
  \/ RereadDone(w) \/ SaveDone(w) \/ RecordAttempt(w)
  \/ Fail(w) \/ SaveFailure(w) \/ AckEnvelope(w) \/ ReleaseEnvelope(w)

ProviderStates == {"done", "failed", "rejected"}

Settles == \E j \in 1..MaxJobs : ProviderMoves(j, ProviderStates)

Next ==
  \/ \E r \in Requests : RequestNext(r) \/ RequestThrows(r) \/ RequestDies(r)
  \/ \E w \in Workers :
       \/ \E e \in 1..MaxEnvelopes : Deliver(w, e)
       \/ Progress(w) \/ Throws(w) \/ Crash(w) \/ OutlivesReservation(w)
  \/ Settles
  \/ AskToCancel

Spec == Init /\ [][Next]_vars

(* Requests and workers go on, the provider settles its jobs, and every     *)
(* envelope is handed out if workers are idle again and again (migration    *)
(* and reservation are in order of time, so none is passed over for ever).  *)
Fairness ==
  /\ \A r \in Requests : WF_vars(RequestNext(r))
  /\ \A w \in Workers : WF_vars(Progress(w))
  /\ \A e \in 1..MaxEnvelopes : SF_vars(\E w \in Workers : Deliver(w, e))
  /\ WF_vars(Settles)

FairSpec == Spec /\ Fairness

-----------------------------------------------------------------------------
(* Properties.                                                              *)

(* A finished task stays as it is once nobody is left who read its row when *)
(* it was not finished: another POST with its task_id, another envelope in  *)
(* the queue and a redelivery leave it alone.  (A run that got past its    *)
(* first read reads again later, and saves without looking at the status.)  *)
Rereading == {"save90", "publish", "rereadDone", "saveDone", "record", "saveFailure"}

Stale(w) == ReadUnfinished(w) \/ runs[w].at \in Rereading

FinishedIsFinal == [][LeavesFinishedAlone(Stale)]_vars

(* A task that is reported as succeeded has its artifact, and one whose     *)
(* artifact was never published is not succeeded, whichever run saved last. *)
SucceededIsPublished ==
  row # NoRow /\ row.status = "succeeded" => results > 0 /\ jobs[row.job] = "done"

(* Every task whose envelope got into the queue is finished one day, or     *)
(* recorded in failed_jobs.                                                 *)
EveryTaskFinishes == DOMAIN envelopes # {} ~> Finished \/ failedJobs
=============================================================================
