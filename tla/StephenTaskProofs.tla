--------------------------- MODULE StephenTaskProofs ---------------------------
(***************************************************************************)
(* Proofs about the tasks rendered by the Stephen provider.                 *)
(*                                                                          *)
(*  1. Account: the chains and the results are within what the mishaps      *)
(*     allow (Counted); a run publishes nothing more for its envelope once  *)
(*     it has published, enqueued its follow-up, or reached its end.        *)
(*  2. Provided: a task has one provider job, number 1, known to everybody  *)
(*     who enqueues or runs it; a run past the poll found that job done,    *)
(*     one about to report success has published.                           *)
(*  3. EarlyUnfinished: before its first read again, a run holds the record *)
(*     of an unfinished task, so it counts as stale.                        *)
(*  4. Alive: no step of a run leaves an unfinished task to nobody.         *)
(***************************************************************************)
EXTENDS StephenTask, TaskLifecycleProofs

(* Where a run works with the record that it has read.                      *)
Recorded == InTry \cup {"start", "cancel", "saveFailure"}

RecordRead == \A w \in Workers : runs[w].at \in Recorded => runs[w].record \in Records

(* The steps after which a run publishes no result for its envelope.        *)
HasPublished == EndsChain \cup {"rereadDone", "saveDone", "record"}

(* The steps of a run that leave the envelopes and the results alone.       *)
Quiet(w) ==
  \/ Begin(w, "start") \/ SaveCancelled(w) \/ Start(w) \/ Poll(w)
  \/ SaveFollowUp(w) \/ SaveRejected(w) \/ SaveFailed(w)
  \/ Download(w) \/ Fetch(w) \/ Reread90(w) \/ Save90(w)
  \/ RereadDone(w) \/ SaveDone(w) \/ RecordAttempt(w)
  \/ Fail(w) \/ SaveFailure(w)

QuietEffect(w) ==
  /\ ~RunAt(w, "idle") /\ Moves(w) /\ runs'[w].at # "idle"
  /\ row' \in Records \/ UNCHANGED row
  /\ UNCHANGED <<envelopes, jobs, results, requests, mishaps, failedJobs>>
  /\ \A Done \in {EndsChain, HasPublished} : runs[w].at \in Done => runs'[w].at \in Done
  /\ runs'[w].at \in Recorded => runs'[w].record \in Records

LEMMA SaveAsQuiet ==
  ASSUME TaskOK, RecordRead, NEW w \in Workers, NEW step \in Steps \ {"idle"},
         NEW status \in Statuses, NEW job \in Nat, NEW next \in Steps \ {"idle"},
         SaveAs(w, step, status, job, next),
         step \in EndsChain => next \in EndsChain,
         step \in HasPublished => next \in HasPublished,
         next \in Recorded => step \in Recorded
  PROVE  QuietEffect(w)
<1>1. /\ Moves(w) /\ runs'[w] = [runs[w] EXCEPT !.at = next]
      /\ row' \in Records /\ runs[w].at = step
      /\ UNCHANGED <<envelopes, jobs, results, requests, mishaps, failedJobs>>
  BY SaveAsMoves DEF TaskOK
<1>2. runs[w] \in Run
  BY DEF TaskOK, TaskTypes
<1>3. runs'[w].at = next /\ runs'[w].record = runs[w].record
  BY <1>1, <1>2 DEF Run
<1> QED
  BY <1>1, <1>3 DEF QuietEffect, RecordRead, RunAt

LEMMA GoesQuiet ==
  ASSUME TaskOK, RecordRead, NEW w \in Workers, NEW step \in Steps \ {"idle"},
         NEW next \in Steps \ {"idle"}, RunAt(w, step), Goes(w, next),
         step \in EndsChain => next \in EndsChain,
         step \in HasPublished => next \in HasPublished,
         next \in Recorded => step \in Recorded,
         UNCHANGED <<row, envelopes, jobs, results, requests, mishaps, failedJobs>>
  PROVE  QuietEffect(w)
<1>1. Moves(w) /\ runs'[w] = [runs[w] EXCEPT !.at = next]
  BY GoesMoves DEF TaskOK
<1>2. runs[w] \in Run
  BY DEF TaskOK, TaskTypes
<1>3. runs'[w].at = next /\ runs'[w].record = runs[w].record
  BY <1>1, <1>2 DEF Run
<1> QED
  BY <1>1, <1>3 DEF QuietEffect, RecordRead, RunAt

LEMMA RereadQuiet ==
  ASSUME TaskOK, NEW w \in Workers, NEW step \in Steps \ {"idle"},
         NEW next \in Steps \ {"idle"}, Reread(w, step, next),
         step \in EndsChain => next \in EndsChain,
         step \in HasPublished => next \in HasPublished
  PROVE  QuietEffect(w)
<1>1. /\ row \in Records /\ runs[w] \in Run /\ runs[w].at = step
      /\ TaskTypes /\ next \in Steps /\ Holds(w, next, row)
  BY DEF TaskOK, TaskTypes, NothingYet, Reread, RunAt
<1>2. Moves(w) /\ runs'[w] = [runs[w] EXCEPT !.at = next, !.record = row]
    <2>1. \A record \in Records : Holds(w, next, record) =>
           Moves(w) /\ runs'[w] = [runs[w] EXCEPT !.at = next, !.record = record]
    BY <1>1, HoldsMoves
  <2> QED
    BY <1>1, <2>1
<1>3. runs'[w].at = next /\ runs'[w].record = row
  BY <1>1, <1>2 DEF Run
<1> QED
  BY <1>1, <1>2, <1>3 DEF QuietEffect, Reread, RunAt

LEMMA QuietStep ==
  ASSUME TaskOK, RecordRead, NEW w \in Workers, Quiet(w)
  PROVE  QuietEffect(w)
<1> USE DEF Recorded, InTry, EndsChain, HasPublished, Steps
<1>0. /\ runs[w] \in Run /\ runs[w].job \in Nat
      /\ row # NoRow => row \in Records /\ row.job \in Nat
      /\ runs[w].at # "idle" => row # NoRow
      /\ runs[w].record \in Records => runs[w].record.job \in Nat
  BY DEF TaskOK, TaskTypes, Run, NothingYet, Records, RunAt
<1>1. CASE Begin(w, "start")
  <2>1. CASE Finished
    BY <1>1, <2>1, GoesQuiet DEF Begin
  <2>2. CASE ~Finished
    <3>1. /\ runs[w].at = "begin" /\ row \in Records /\ row.job \in Nat
          /\ UNCHANGED <<row, envelopes, jobs, results, requests, mishaps, failedJobs>>
      BY <1>0, <1>1 DEF Begin, RunAt
    <3>2. PICK step \in {"start", "cancel"} :
            runs' = [runs EXCEPT ![w].at = step, ![w].record = row, ![w].job = row.job]
      BY <1>1, <2>2 DEF Begin
    <3>3. /\ runs' \in [Workers -> Run] /\ \A v \in Workers \ {w} : runs'[v] = runs[v]
          /\ runs'[w].envelope = runs[w].envelope
          /\ runs'[w].at \in {"start", "cancel"} /\ runs'[w].record = row
      <4>1. runs \in [Workers -> Run] /\ runs[w] \in Run
        BY DEF TaskOK, TaskTypes
      <4>2. /\ [runs[w] EXCEPT !.at = step, !.record = row, !.job = row.job] \in Run
            /\ runs'[w] = [runs[w] EXCEPT !.at = step, !.record = row, !.job = row.job]
        BY <3>1, <3>2, <4>1 DEF Run
      <4> QED
        BY <3>2, <4>1, <4>2 DEF Run
    <3> QED
      BY <3>1, <3>3 DEF QuietEffect, Moves, RunAt
  <2> QED
    BY <2>1, <2>2
<1>2. CASE SaveCancelled(w)
  <2>1. runs[w].at = "cancel" /\ runs[w].record \in Records
    BY <1>2 DEF SaveCancelled, RunAt, RecordRead
  <2>2. [runs[w].record EXCEPT !.status = "cancelled"] \in Records
    BY <2>1 DEF Records, Statuses, Terminal
  <2>3. Moves(w) /\ runs'[w] = [runs[w] EXCEPT !.at = "ack"]
    BY <1>2, GoesMoves DEF SaveCancelled, TaskOK
  <2>4. runs'[w].at = "ack"
    BY <1>0, <2>3 DEF Run
  <2> QED
    BY <1>2, <2>1, <2>2, <2>3, <2>4 DEF SaveCancelled, Save, QuietEffect, RunAt
<1>3. CASE Start(w)
  <2>1. SaveAs(w, "start", "running", runs[w].record.job, "poll")
    BY <1>3 DEF Start
  <2>2. runs[w].record.job \in Nat
    BY <1>0, <2>1 DEF SaveAs, RunAt, RecordRead
  <2>3. "running" \in Statuses
    BY DEF Statuses, Terminal
  <2> QED
    BY <2>1, <2>2, <2>3, SaveAsQuiet
<1>4. CASE Poll(w)
  <2>1. \E next \in {"fail", "followup", "saveRejected", "saveFailed", "download"} : Goes(w, next)
    BY <1>4 DEF Poll
  <2> QED
    BY <1>4, <2>1, GoesQuiet DEF Poll
<1>5. CASE SaveFollowUp(w)
  <2>1. SaveAs(w, "saveFollowup", "running", runs[w].job, "ack")
    BY <1>5 DEF SaveFollowUp
  <2>2. runs[w].job \in Nat
    BY <1>0, <2>1 DEF SaveAs, RunAt, RecordRead
  <2>3. "running" \in Statuses
    BY DEF Statuses, Terminal
  <2> QED
    BY <2>1, <2>2, <2>3, SaveAsQuiet
<1>6. CASE SaveRejected(w)
  <2>1. SaveAs(w, "saveRejected", "rejected", runs[w].job, "record")
    BY <1>6 DEF SaveRejected
  <2>2. runs[w].job \in Nat
    BY <1>0, <2>1 DEF SaveAs, RunAt, RecordRead
  <2>3. "rejected" \in Statuses
    BY DEF Statuses, Terminal
  <2> QED
    BY <2>1, <2>2, <2>3, SaveAsQuiet
<1>7. CASE SaveFailed(w)
  <2>1. SaveAs(w, "saveFailed", "failed", runs[w].job, "record")
    BY <1>7 DEF SaveFailed
  <2>2. runs[w].job \in Nat
    BY <1>0, <2>1 DEF SaveAs, RunAt, RecordRead
  <2>3. "failed" \in Statuses
    BY DEF Statuses, Terminal
  <2> QED
    BY <2>1, <2>2, <2>3, SaveAsQuiet
<1>8. CASE Download(w)
  <2>1. SaveAs(w, "download", "running", runs[w].job, "fetch")
    BY <1>8 DEF Download
  <2>2. runs[w].job \in Nat
    BY <1>0, <2>1 DEF SaveAs, RunAt, RecordRead
  <2>3. "running" \in Statuses
    BY DEF Statuses, Terminal
  <2> QED
    BY <2>1, <2>2, <2>3, SaveAsQuiet
<1>9. CASE Fetch(w)
  BY <1>9, GoesQuiet DEF Fetch
<1>10. CASE Reread90(w)
  BY <1>10, RereadQuiet DEF Reread90
<1>11. CASE Save90(w)
  <2>1. SaveAs(w, "save90", "running", runs[w].job, "publish")
    BY <1>11 DEF Save90
  <2>2. runs[w].job \in Nat
    BY <1>0, <2>1 DEF SaveAs, RunAt, RecordRead
  <2>3. "running" \in Statuses
    BY DEF Statuses, Terminal
  <2> QED
    BY <2>1, <2>2, <2>3, SaveAsQuiet
<1>12. CASE RereadDone(w)
  BY <1>12, RereadQuiet DEF RereadDone
<1>13. CASE SaveDone(w)
  <2>1. SaveAs(w, "saveDone", "succeeded", runs[w].record.job, "record")
    BY <1>13 DEF SaveDone
  <2>2. runs[w].record.job \in Nat
    BY <1>0, <2>1 DEF SaveAs, RunAt, RecordRead
  <2>3. "succeeded" \in Statuses
    BY DEF Statuses, Terminal
  <2> QED
    BY <2>1, <2>2, <2>3, SaveAsQuiet
<1>14. CASE RecordAttempt(w)
  BY <1>14, GoesQuiet DEF RecordAttempt
<1>15. CASE Fail(w)
  BY <1>15, RereadQuiet DEF Fail
<1>16. CASE SaveFailure(w)
  <2>1. \/ SaveAs(w, "saveFailure", "rejected", runs[w].record.job, "ack")
        \/ SaveAs(w, "saveFailure", FailureStatus(w), runs[w].record.job, "release")
    BY <1>16 DEF SaveFailure
  <2>2. runs[w].record.job \in Nat
    BY <1>0, <2>1 DEF SaveAs, RunAt, RecordRead
  <2>3. "rejected" \in Statuses /\ FailureStatus(w) \in Statuses
    BY DEF Statuses, Terminal, FailureStatus
  <2> QED
    BY <2>1, <2>2, <2>3, SaveAsQuiet
<1> QED
  BY <1>1, <1>2, <1>3, <1>4, <1>5, <1>6, <1>7, <1>8, <1>9, <1>10, <1>11, <1>12, <1>13, <1>14, <1>15, <1>16 DEF Quiet

-----------------------------------------------------------------------------
(* The account of chains and of results.                                    *)

Account == TaskOK /\ RecordRead /\ Counted(HasPublished)

LEMMA QuietAccount ==
  ASSUME Account, NEW w \in Workers, QuietEffect(w)
  PROVE  Account'
<1>1. TaskOK'
  BY RunMoves DEF Account, QuietEffect, TaskOK, TaskTypes
<1>2. RecordRead'
  BY DEF Account, RecordRead, QuietEffect, Moves
<1>3. Counted(HasPublished)'
  BY MoveCounted DEF Account, QuietEffect
<1> QED
  BY <1>1, <1>2, <1>3 DEF Account

LEMMA RequestAccount ==
  ASSUME Account, NEW r \in Requests, RequestNext(r) \/ RequestThrows(r) \/ RequestDies(r)
  PROVE  Account'
<1>1. TaskOK' /\ Counted(HasPublished)'
  BY RequestKeeps, RequestThrowsKeeps, RequestCounted DEF Account
<1>2. UNCHANGED runs
  BY DEF RequestNext, Lookup, Create, SubmitToProvider, SaveSubmitted, SaveRefused, EnqueueFirst,
         SavePublished, RequestThrows, RequestDies
<1>3. RecordRead'
  BY <1>2 DEF Account, RecordRead
<1> QED
  BY <1>1, <1>3 DEF Account

LEMMA FollowUpAccount ==
  ASSUME Account, NEW w \in Workers, FollowUp(w)
  PROVE  Account'
<1>1. /\ runs[w].at = "followup" /\ Publish
      /\ Moves(w) /\ runs'[w].at = "saveFollowup" /\ runs'[w].record = runs[w].record
      /\ UNCHANGED <<row, jobs, results, requests, mishaps, failedJobs>>
  BY FollowUpMoves DEF Account
<1>2. TaskOK'
  BY <1>1, PublishKeeps DEF Account, TaskOK, TaskTypes, RunAt
<1>3. RecordRead'
  BY <1>1 DEF Account, RecordRead, Recorded, InTry, Moves
<1>4. Counted(HasPublished)'
  BY <1>1, FollowUpCounted DEF Account, HasPublished, EndsChain
<1> QED
  BY <1>2, <1>3, <1>4 DEF Account

LEMMA PublishArtifactAccount ==
  ASSUME Account, NEW w \in Workers, PublishArtifact(w)
  PROVE  Account'
<1>0. TaskOK /\ TaskTypes /\ runs[w] \in Run /\ results \in Nat /\ mishaps \in Nat /\ row # NoRow
  BY DEF Account, TaskOK, TaskTypes, PublishArtifact, NothingYet, RunAt
<1>1. CASE UNCHANGED results /\ Goes(w, "fail")
  BY <1>1, QuietAccount, GoesQuiet
  DEF PublishArtifact, Account, Steps, EndsChain, HasPublished, Recorded, InTry
<1>2. CASE results' = results + 1 /\ Goes(w, "rereadDone")
  <2>1. Moves(w) /\ runs'[w] = [runs[w] EXCEPT !.at = "rereadDone"]
    BY <1>0, <1>2, GoesMoves DEF Steps
  <2>2. runs[w].at = "publish" /\ runs'[w].at = "rereadDone" /\ runs'[w].record = runs[w].record
    BY <1>0, <2>1 DEF PublishArtifact, RunAt, Run
  <2>3. UNCHANGED <<row, envelopes, jobs, requests, mishaps, failedJobs>>
    BY DEF PublishArtifact
  <2>4. TaskOK'
    <3>1. /\ ~RunAt(w, "idle") /\ runs'[w].at # "idle"
          /\ jobs' \in Seq(JobStates) /\ results' \in Nat /\ mishaps' \in Nat
      BY <1>0, <1>2, <2>2, <2>3 DEF RunAt, TaskTypes
    <3> QED
      BY <1>0, <2>1, <2>3, <3>1, RunMoves
  <2>5. RecordRead'
    BY <2>1, <2>2 DEF Account, RecordRead, Recorded, InTry, Moves
  <2>6. Counted(HasPublished)'
    BY <1>2, <2>1, <2>2, <2>3, ResultCounted DEF Account, HasPublished, EndsChain, RunAt
  <2> QED
    BY <2>4, <2>5, <2>6 DEF Account
<1> QED
  BY <1>1, <1>2 DEF PublishArtifact

(* What is thrown, wherever the run is.                                     *)
LEMMA ThrowsMoves ==
  ASSUME Account, NEW w \in Workers, Throws(w)
  PROVE  /\ ~RunAt(w, "idle") /\ Moves(w) /\ runs'[w].at \in {"fail", "release"}
         /\ runs[w].at = "publish" \/ runs[w].at = "followup" => runs'[w].at = "fail"
         /\ mishaps' = mishaps + 1 /\ mishaps' \in Nat
<1>1. TaskTypes /\ runs[w] \in Run
  BY DEF Account, TaskOK, TaskTypes
<1>2. \/ runs[w].at \in InTry /\ Goes(w, "fail")
      \/ runs[w].at \in OutsideTry /\ Goes(w, "release")
  BY DEF Throws
<1>3. Moves(w) /\ runs'[w].at \in {"fail", "release"}
  <2>1. PICK step \in {"fail", "release"} : Goes(w, step)
    BY <1>2
  <2>2. Moves(w) /\ runs'[w] = [runs[w] EXCEPT !.at = step]
    BY <1>1, <2>1, GoesMoves DEF Steps
  <2> QED
    BY <1>1, <2>2 DEF Run
<1>4. runs[w].at \in InTry => runs'[w].at = "fail"
  <2>1. runs[w].at \in InTry => runs[w].at \notin OutsideTry
    BY DEF InTry, OutsideTry
  <2>2. Goes(w, "fail") => runs'[w].at = "fail"
    BY <1>1 DEF Goes, TaskTypes, Run
  <2> QED
    BY <1>2, <2>1, <2>2
<1>5. mishaps' = mishaps + 1 /\ mishaps' \in Nat
  BY <1>1, MishapKeepsType DEF Throws
<1> QED
  BY <1>2, <1>3, <1>4, <1>5 DEF InTry, OutsideTry, RunAt

LEMMA SavedFirstType ==
  ASSUME Account, NEW w \in Workers, NEW record \in SavedFirst(w)
  PROVE  record \in Records
<1>1. runs[w] \in Run /\ runs[w].job \in Nat
  BY DEF Account, TaskOK, TaskTypes, Run
<1>2. runs[w].at \in Recorded => runs[w].record \in Records
  BY DEF Account, RecordRead
<1>3. CASE RunAt(w, "start") \/ RunAt(w, "cancel") \/ RunAt(w, "saveFailure")
  <2>1. runs[w].record \in Records
    BY <1>2, <1>3 DEF Recorded, RunAt
  <2>2. \E status \in Statuses : record = [runs[w].record EXCEPT !.status = status]
    BY <1>3 DEF SavedFirst, FailureStatus, RunAt, Statuses, Terminal
  <2> QED
    BY <2>1, <2>2, RecordTypes
<1>4. CASE RunAt(w, "saveFollowup")
  BY <1>1, <1>4 DEF SavedFirst, RunAt, Records, Statuses
<1> QED
  BY <1>3, <1>4 DEF SavedFirst

LEMMA ThrowsAccount ==
  ASSUME Account, NEW w \in Workers, Throws(w)
  PROVE  Account'
<1>0. /\ TaskOK /\ TaskTypes /\ results \in Nat /\ jobs' \in Seq(JobStates)
      /\ UNCHANGED <<jobs, requests, failedJobs>>
  BY DEF Account, TaskOK, TaskTypes, Throws
<1>1. /\ ~RunAt(w, "idle") /\ Moves(w) /\ runs'[w].at \in {"fail", "release"}
      /\ runs[w].at = "publish" \/ runs[w].at = "followup" => runs'[w].at = "fail"
      /\ mishaps' = mishaps + 1 /\ mishaps' \in Nat
  BY ThrowsMoves
<1>2. RecordRead'
  BY <1>1 DEF Account, RecordRead, Moves, Recorded, InTry
<1>3. CASE /\ UNCHANGED <<envelopes, results>>
           /\ UNCHANGED row \/ \E record \in SavedFirst(w) : Save(record)
  <2>1. UNCHANGED row \/ row' \in Records
    BY <1>3, SavedFirstType DEF Save
  <2>2. TaskOK'
    BY <1>0, <1>1, <1>3, <2>1, RunMoves
  <2>3. Counted(HasPublished)'
    BY <1>0, <1>1, <1>3, <2>1, MoveCounted DEF Account
  <2> QED
    BY <1>2, <2>2, <2>3 DEF Account
<1>4. CASE RunAt(w, "followup") /\ Publish /\ UNCHANGED <<row, results>>
  <2>1. TaskOK'
    BY <1>0, <1>1, <1>4, PublishKeeps
  <2>2. Counted(HasPublished)'
    BY <1>0, <1>1, <1>4, FollowUpCounted DEF Account, RunAt, HasPublished, EndsChain
  <2> QED
    BY <1>2, <2>1, <2>2 DEF Account
<1>5. CASE RunAt(w, "publish") /\ results' = results + 1 /\ UNCHANGED <<row, envelopes>>
  <2>1. TaskOK'
    <3>1. runs'[w].at # "idle" /\ results' \in Nat
      BY <1>0, <1>1, <1>5
    <3> QED
      BY <1>0, <1>1, <1>5, <3>1, RunMoves
  <2>2. Counted(HasPublished)'
    BY <1>0, <1>1, <1>5, ResultCounted DEF Account, RunAt, HasPublished, EndsChain
  <2> QED
    BY <1>2, <2>1, <2>2 DEF Account
<1> QED
  BY <1>3, <1>4, <1>5 DEF Throws

(* A run begins, ends, or loses its reservation.                            *)
LEMMA EnvelopeAccount ==
  ASSUME Account, NEW w \in Workers,
         \/ \E e \in 1..MaxEnvelopes : Deliver(w, e)
         \/ AckEnvelope(w) \/ ReleaseEnvelope(w) \/ Crash(w) \/ OutlivesReservation(w)
  PROVE  Account'
<1>0. TaskOK /\ TaskTypes /\ mishaps \in Nat /\ runs[w] \in Run
  BY DEF Account, TaskOK, TaskTypes
<1>1. TaskOK'
  <2>1. CASE AckEnvelope(w) \/ ReleaseEnvelope(w) \/ Crash(w)
    <3>1. mishaps' \in Nat
      BY <1>0, <2>1, MishapKeepsType DEF AckEnvelope, ReleaseEnvelope, Crash
    <3>2. /\ ~RunAt(w, "idle") /\ runs' = [runs EXCEPT ![w] = Idle]
          /\ UNCHANGED <<row, jobs, results, requests>>
      BY <2>1 DEF AckEnvelope, ReleaseEnvelope, Crash, RunAt
    <3>3. Settled(w)
      BY <2>1, ReleaseSettles DEF AckEnvelope, Crash, Settled
    <3> QED
      BY <1>0, <3>1, <3>2, <3>3, EndKeeps
  <2> QED
    BY <1>0, <2>1, DeliverKeeps, OutlivesKeeps
<1>2. RecordRead'
  <2>1. /\ \A v \in Workers \ {w} : runs'[v] = runs[v]
        /\ \/ runs'[w].at \in {"begin", "idle"}
           \/ runs'[w].at = runs[w].at /\ runs'[w].record = runs[w].record
    <3>1. CASE \E e \in 1..MaxEnvelopes : Deliver(w, e)
      BY <1>0, <3>1, DeliverMoves
    <3>2. CASE AckEnvelope(w) \/ ReleaseEnvelope(w) \/ Crash(w) \/ OutlivesReservation(w)
      BY <1>0, <3>2
      DEF AckEnvelope, ReleaseEnvelope, Crash, OutlivesReservation, TaskTypes, Run, Idle
    <3> QED
      BY <3>1, <3>2
  <2> QED
    BY <2>1 DEF Account, RecordRead, Recorded, InTry
<1>3. Counted(HasPublished)'
  BY EnvelopeCounted DEF Account, HasPublished, EndsChain
<1> QED
  BY <1>1, <1>2, <1>3 DEF Account

(* The provider, an operator who asks to cancel, and nothing at all.        *)
LEMMA OutsideAccount ==
  ASSUME Account, Settles \/ AskToCancel \/ UNCHANGED vars
  PROVE  Account'
<1>0. TaskOK /\ TaskTypes /\ mishaps \in Nat
  BY DEF Account, TaskOK, TaskTypes
<1>1. UNCHANGED <<envelopes, results, requests, runs>>
  BY DEF Settles, ProviderMoves, AskToCancel, vars
<1>2. /\ mishaps' = mishaps \/ mishaps' = mishaps + 1
      /\ mishaps' \in Nat
  BY <1>0 DEF Settles, ProviderMoves, AskToCancel, vars, Mishap
<1>3. row' \in Records \/ UNCHANGED row
  BY <1>0, RecordTypes DEF Settles, ProviderMoves, AskToCancel, vars, Save, TaskTypes, Statuses
<1>4. jobs' \in Seq(JobStates)
  <2>1. CASE Settles
    <3>1. \E j \in DOMAIN jobs, state \in JobStates : jobs' = [jobs EXCEPT ![j] = state]
      BY <2>1 DEF Settles, ProviderMoves, ProviderStates, JobStates
    <3> QED
      BY <1>0, <3>1 DEF TaskTypes
  <2> QED
    BY <1>0, <2>1 DEF AskToCancel, vars, TaskTypes
<1>5. row = NoRow => UNCHANGED <<row, jobs>>
  BY <1>0 DEF Settles, ProviderMoves, AskToCancel, vars, TaskOK, NothingYet
<1>6. TaskOK'
  BY <1>0, <1>1, <1>2, <1>3, <1>4, <1>5, OutsideKeeps
<1>7. RecordRead'
  BY <1>1 DEF Account, RecordRead
<1>8. Counted(HasPublished)'
  BY <1>1, <1>2, <1>3, StillCounted DEF Account
<1> QED
  BY <1>6, <1>7, <1>8 DEF Account

LEMMA AccountStep == Account /\ [Next]_vars => Account'
<1> SUFFICES ASSUME Account, [Next]_vars PROVE Account'
  OBVIOUS
<1>1. ASSUME NEW w \in Workers, Progress(w)
      PROVE  Account'
  BY <1>1, QuietStep, QuietAccount, FollowUpAccount, PublishArtifactAccount, EnvelopeAccount
  DEF Progress, Quiet, Account
<1> QED
  BY <1>1, RequestAccount, EnvelopeAccount, ThrowsAccount, OutsideAccount DEF Next

LEMMA AccountStarts == Init => Account
<1> SUFFICES ASSUME Init PROVE Account
  OBVIOUS
<1>1. TaskOK
  BY TaskStarts
<1>2. RecordRead
  BY DEF Init, RecordRead, Recorded, InTry, Idle
<1> QED
  BY <1>1, <1>2, CountedAtFirst DEF Account

(* A task has one polling chain, and one more per mishap at most: for any   *)
(* number of requests, workers and mishaps of any kind.                     *)
THEOREM ChainsAreAccounted == Spec => []ChainsAccounted
<1>1. Account => ChainsAccounted
  BY CountedBounds DEF Account
<1> QED
  BY <1>1, AccountStarts, AccountStep, PTL DEF Spec

(* The outcome is published once, and once more per mishap at most.         *)
THEOREM ResultsAreAccounted == Spec => []ResultsAccounted
<1>1. Account => ResultsAccounted
  BY CountedBounds DEF Account
<1> QED
  BY <1>1, AccountStarts, AccountStep, PTL DEF Spec

-----------------------------------------------------------------------------
(* The provider's job.  A task has one, the first; whoever enqueues or runs *)
(* the task has its number, and a run gets past the poll when it is done.   *)

Enqueued == DOMAIN envelopes # {} \/ \E w \in Workers : ~RunAt(w, "idle")

RequestProvided(r) ==
  /\ RequestAt(r, "submit") => jobs = <<>>
  /\ RequestAt(r, "saveSubmitted") => Len(jobs) = 1 /\ requests[r].record.job = 1
  /\ RequestAt(r, "enqueue") \/ RequestAt(r, "savePublished") =>
       Len(jobs) = 1 /\ requests[r].record.job = 1 /\ row.job = 1
  /\ requests[r].record # NoRow => requests[r].record.status # "succeeded"

JobIsDone == {"download", "fetch", "reread90", "save90", "publish", "rereadDone", "saveDone"}

RunProvided(w) ==
  /\ runs[w].at \in Recorded \cup {"fail"} => runs[w].job = 1
  /\ runs[w].record # NoRow => runs[w].record.job = 1
  /\ runs[w].at \in JobIsDone => jobs[1] = "done"
  /\ RunAt(w, "rereadDone") \/ RunAt(w, "saveDone") => results > 0

RowPublished ==
  row # NoRow /\ row.status = "succeeded" =>
    results > 0 /\ row.job = 1 /\ Len(jobs) = 1 /\ jobs[1] = "done"

EnqueuedProvided ==
  Enqueued =>
    /\ Len(jobs) = 1 /\ row.job = 1
    /\ \A r \in Requests : requests[r].record # NoRow =>
         /\ RequestAt(r, "savePublished") \/ RequestAt(r, "saveRefused")
         /\ requests[r].record.job = 1

Provided ==
  /\ Len(jobs) <= 1
  /\ \A r \in Requests : RequestProvided(r)
  /\ \A w \in Workers : RunProvided(w)
  /\ EnqueuedProvided
  /\ RowPublished

(* What a step of a run may do with the row and its own record.             *)
ProvidedEffect(w) ==
  /\ \A v \in Workers \ {w} : runs'[v] = runs[v]
  /\ UNCHANGED <<jobs, requests>> /\ results' \in {results, results + 1}
  /\ \/ UNCHANGED row
     \/ row'.job = 1 /\ (row'.status = "succeeded" => RunAt(w, "saveDone"))
  /\ RunProvided(w)'

LEMMA RunKeepsProvided ==
  ASSUME Account, Provided, NEW w \in Workers, ~RunAt(w, "idle"), ProvidedEffect(w)
  PROVE  Provided'
<1>1. /\ Enqueued /\ results \in Nat
      /\ Len(jobs) = 1 /\ row.job = 1
      /\ row'.job = 1
  BY DEF Enqueued, Account, TaskOK, TaskTypes, Provided, EnqueuedProvided, ProvidedEffect
<1>2. \A r \in Requests : RequestProvided(r)'
  BY <1>1 DEF Provided, RequestProvided, ProvidedEffect, RequestAt
<1>3. \A v \in Workers : RunProvided(v)'
  <2>1. ASSUME NEW v \in Workers \ {w}
        PROVE  RunProvided(v)'
    BY <1>1, <2>1 DEF Provided, RunProvided, ProvidedEffect, RunAt
  <2> QED
    BY <2>1 DEF ProvidedEffect
<1>4. EnqueuedProvided'
  BY <1>1 DEF Provided, EnqueuedProvided, ProvidedEffect, RequestAt
<1>5. RowPublished'
  <2>1. RunAt(w, "saveDone") => results > 0 /\ jobs[1] = "done"
    BY DEF Provided, RunProvided, RunAt, JobIsDone
  <2> QED
    BY <1>1, <2>1 DEF Provided, RowPublished, ProvidedEffect
<1> QED
  BY <1>1, <1>2, <1>3, <1>4, <1>5 DEF Provided, ProvidedEffect

LEMMA SaveAsProvided ==
  ASSUME Account, Provided, NEW w \in Workers, NEW step \in Steps \ {"idle"},
         NEW status \in Statuses, NEW next \in Steps,
         \/ SaveAs(w, step, status, runs[w].job, next) /\ step \in Recorded
         \/ SaveAs(w, step, status, runs[w].record.job, next) /\ step \in Recorded,
         status = "succeeded" => step = "saveDone",
         next \in Recorded \cup {"fail"} => step \in Recorded,
         next \in JobIsDone => step \in JobIsDone,
         next \notin {"rereadDone", "saveDone"}
  PROVE  Provided'
<1>1. PICK job : SaveAs(w, step, status, job, next) /\ job \in {runs[w].job, runs[w].record.job}
  OBVIOUS
<1>2. /\ runs[w] \in Run /\ TaskTypes /\ runs[w].at = step /\ runs[w].record \in Records
      /\ runs[w].job = 1 /\ runs[w].record.job = 1 /\ results \in Nat
  BY <1>1, NoRowAssumption
  DEF Account, TaskOK, TaskTypes, RecordRead, Provided, RunProvided, SaveAs, RunAt
<1>3. /\ Moves(w) /\ runs'[w] = [runs[w] EXCEPT !.at = next]
      /\ row' = [status |-> status, job |-> 1]
      /\ UNCHANGED <<envelopes, jobs, results, requests, mishaps, failedJobs>>
  BY <1>1, <1>2, SaveAsMoves
<1>4. runs'[w].at = next /\ runs'[w].job = 1 /\ runs'[w].record = runs[w].record
  BY <1>2, <1>3 DEF Run
<1>5. RunProvided(w)'
  BY <1>2, <1>3, <1>4 DEF Provided, RunProvided, RunAt
<1> QED
  BY <1>2, <1>3, <1>5, RunKeepsProvided DEF ProvidedEffect, Moves, RunAt

LEMMA GoesProvided ==
  ASSUME Account, Provided, NEW w \in Workers, ~RunAt(w, "idle"),
         NEW next \in Steps, Goes(w, next),
         next \in Recorded \cup {"fail"} => runs[w].at \in Recorded \cup {"fail"},
         next \in JobIsDone => jobs[1] = "done",
         next \in {"rereadDone", "saveDone"} => results' > 0,
         UNCHANGED <<row, jobs, requests>>, results' \in {results, results + 1}
  PROVE  Provided'
<1>1. runs[w] \in Run /\ TaskTypes /\ results \in Nat
  BY DEF Account, TaskOK, TaskTypes
<1>2. Moves(w) /\ runs'[w] = [runs[w] EXCEPT !.at = next]
  BY <1>1, GoesMoves
<1>3. runs'[w].at = next /\ runs'[w].job = runs[w].job /\ runs'[w].record = runs[w].record
  BY <1>1, <1>2 DEF Run
<1>4. RunProvided(w)'
  BY <1>1, <1>2, <1>3 DEF Provided, RunProvided, RunAt
<1> QED
  BY <1>2, <1>4, RunKeepsProvided DEF ProvidedEffect, Moves

LEMMA RereadProvided ==
  ASSUME Account, Provided, NEW w \in Workers, NEW step \in Recorded \cup {"fail"},
         NEW next \in Steps, Reread(w, step, next),
         next \in JobIsDone => step \in JobIsDone,
         next \in {"rereadDone", "saveDone"} => step \in {"rereadDone", "saveDone"}
  PROVE  Provided'
<1>1. /\ runs[w] \in Run /\ TaskTypes /\ results \in Nat /\ runs[w].at = step /\ ~RunAt(w, "idle")
      /\ Holds(w, next, row)
  BY DEF Account, TaskOK, TaskTypes, Reread, RunAt, Recorded, InTry
<1>2. row \in Records /\ row.job = 1
  BY <1>1 DEF Account, TaskOK, TaskTypes, NothingYet, Provided, EnqueuedProvided, Enqueued
<1>3. \A record \in Records : Holds(w, next, record) =>
        Moves(w) /\ runs'[w] = [runs[w] EXCEPT !.at = next, !.record = record]
  BY <1>1, HoldsMoves
<1>4. Moves(w) /\ runs'[w] = [runs[w] EXCEPT !.at = next, !.record = row]
  BY <1>1, <1>2, <1>3
<1>5. /\ runs'[w].at = next /\ runs'[w].job = runs[w].job /\ runs'[w].record = row
      /\ UNCHANGED <<row, jobs, requests, results>>
  BY <1>1, <1>4 DEF Run, Reread
<1>6. RunProvided(w)'
  BY <1>1, <1>2, <1>5 DEF Provided, RunProvided, RunAt
<1> QED
  BY <1>1, <1>4, <1>5, <1>6, RunKeepsProvided DEF ProvidedEffect, Moves

LEMMA QuietProvided ==
  ASSUME Account, Provided, NEW w \in Workers, Quiet(w)
  PROVE  Provided'
<1> USE DEF Recorded, InTry, Steps, JobIsDone
<1>0. TaskOK /\ RecordRead /\ runs[w] \in Run /\ jobs \in Seq(JobStates)
  BY DEF Account, TaskOK, TaskTypes
<1>1. CASE Begin(w, "start")
  <2>0. runs[w].at = "begin" /\ ~RunAt(w, "idle") /\ UNCHANGED <<row, envelopes, jobs, results, requests>>
    BY <1>1 DEF Begin, RunAt
  <2>1. CASE Finished
    BY <1>1, <2>0, <2>1, GoesProvided DEF Begin
  <2>2. CASE ~Finished
    <3>1. row \in Records /\ row.job = 1
      BY <1>0, <2>0 DEF TaskOK, TaskTypes, NothingYet, Provided, EnqueuedProvided, Enqueued
    <3>2. PICK step \in {"start", "cancel"} :
            runs' = [runs EXCEPT ![w].at = step, ![w].record = row, ![w].job = row.job]
      BY <1>1, <2>2 DEF Begin
    <3>3. /\ \A v \in Workers \ {w} : runs'[v] = runs[v]
          /\ runs'[w].at = step /\ runs'[w].record = row /\ runs'[w].job = 1
      BY <1>0, <3>1, <3>2 DEF TaskOK, TaskTypes, Run
    <3>4. RunProvided(w)'
      BY <3>1, <3>2, <3>3, <2>0 DEF RunProvided, RunAt
    <3> QED
      BY <2>0, <3>3, <3>4, RunKeepsProvided DEF ProvidedEffect
  <2> QED
    BY <2>1, <2>2
<1>2. CASE SaveCancelled(w)
  <2>1. /\ runs[w].at = "cancel" /\ runs[w].record \in Records /\ runs[w].record.job = 1
        /\ ~RunAt(w, "idle")
    BY <1>0, <1>2, NoRowAssumption DEF SaveCancelled, RunAt, RecordRead, Provided, RunProvided
  <2>2. row'.job = 1 /\ row'.status = "cancelled"
    BY <1>2, <2>1 DEF SaveCancelled, Save, Records
  <2>3. Moves(w) /\ runs'[w] = [runs[w] EXCEPT !.at = "ack"]
    BY <1>2, GoesMoves DEF SaveCancelled, Account, TaskOK
  <2>4. runs'[w].at = "ack" /\ runs'[w].record = runs[w].record
    BY <1>0, <2>3 DEF Run
  <2>5. RunProvided(w)'
    BY <2>4 DEF Provided, RunProvided, RunAt
  <2> QED
    BY <1>2, <2>1, <2>2, <2>3, <2>5, RunKeepsProvided DEF SaveCancelled, ProvidedEffect, Moves
<1>3. CASE Start(w)
  <2>1. SaveAs(w, "start", "running", runs[w].record.job, "poll")
    BY <1>3 DEF Start
  <2>2. "running" \in Statuses
    BY DEF Statuses, Terminal
  <2> QED
    BY <2>1, <2>2, SaveAsProvided
<1>4. CASE Poll(w)
  <2>1. runs[w].at = "poll" /\ runs[w].job = 1 /\ Len(jobs) = 1
    BY <1>4 DEF Poll, RunAt, Provided, RunProvided, EnqueuedProvided, Enqueued
  <2>2. jobs[1] \in JobStates
    <3>1. 1 \in 1..Len(jobs) /\ jobs \in [1..Len(jobs) -> JobStates]
      BY <1>0, <2>1
    <3> QED
      BY <3>1
  <2>3. PICK next \in {"fail", "followup", "saveRejected", "saveFailed", "download"} :
          Goes(w, next) /\ (next = "download" => jobs[1] = "done")
    BY <1>4, <2>1, <2>2 DEF Poll, JobStates
  <2> QED
    BY <1>4, <2>1, <2>3, GoesProvided DEF Poll, RunAt
<1>5. CASE SaveFollowUp(w)
  <2>1. SaveAs(w, "saveFollowup", "running", runs[w].job, "ack")
    BY <1>5 DEF SaveFollowUp
  <2>2. "running" \in Statuses
    BY DEF Statuses, Terminal
  <2> QED
    BY <2>1, <2>2, SaveAsProvided
<1>6. CASE SaveRejected(w)
  <2>1. SaveAs(w, "saveRejected", "rejected", runs[w].job, "record")
    BY <1>6 DEF SaveRejected
  <2>2. "rejected" \in Statuses
    BY DEF Statuses, Terminal
  <2> QED
    BY <2>1, <2>2, SaveAsProvided
<1>7. CASE SaveFailed(w)
  <2>1. SaveAs(w, "saveFailed", "failed", runs[w].job, "record")
    BY <1>7 DEF SaveFailed
  <2>2. "failed" \in Statuses
    BY DEF Statuses, Terminal
  <2> QED
    BY <2>1, <2>2, SaveAsProvided
<1>8. CASE Download(w)
  <2>1. SaveAs(w, "download", "running", runs[w].job, "fetch")
    BY <1>8 DEF Download
  <2>2. "running" \in Statuses
    BY DEF Statuses, Terminal
  <2> QED
    BY <2>1, <2>2, SaveAsProvided
<1>9. CASE Fetch(w)
  <2>1. runs[w].at = "fetch" /\ jobs[1] = "done"
    BY <1>9 DEF Fetch, RunAt, Provided, RunProvided
  <2> QED
    BY <1>9, <2>1, GoesProvided DEF Fetch, RunAt
<1>10. CASE Reread90(w)
  BY <1>10, RereadProvided DEF Reread90
<1>11. CASE Save90(w)
  <2>1. SaveAs(w, "save90", "running", runs[w].job, "publish")
    BY <1>11 DEF Save90
  <2>2. "running" \in Statuses
    BY DEF Statuses, Terminal
  <2> QED
    BY <2>1, <2>2, SaveAsProvided
<1>12. CASE RereadDone(w)
  BY <1>12, RereadProvided DEF RereadDone
<1>13. CASE SaveDone(w)
  <2>1. SaveAs(w, "saveDone", "succeeded", runs[w].record.job, "record")
    BY <1>13 DEF SaveDone
  <2>2. "succeeded" \in Statuses
    BY DEF Statuses, Terminal
  <2> QED
    BY <2>1, <2>2, SaveAsProvided
<1>14. CASE RecordAttempt(w)
  <2>1. runs[w].at = "record"
    BY <1>14 DEF RecordAttempt, RunAt
  <2> QED
    BY <1>14, <2>1, GoesProvided DEF RecordAttempt, RunAt
<1>15. CASE Fail(w)
  BY <1>15, RereadProvided DEF Fail
<1>16. CASE SaveFailure(w)
  <2>1. \/ SaveAs(w, "saveFailure", "rejected", runs[w].record.job, "ack")
        \/ SaveAs(w, "saveFailure", FailureStatus(w), runs[w].record.job, "release")
    BY <1>16 DEF SaveFailure
  <2>2. /\ "rejected" \in Statuses /\ FailureStatus(w) \in Statuses
        /\ FailureStatus(w) # "succeeded"
    BY DEF Statuses, Terminal, FailureStatus
  <2>3. CASE SaveAs(w, "saveFailure", "rejected", runs[w].record.job, "ack")
    BY <2>2, <2>3, SaveAsProvided
  <2>4. CASE SaveAs(w, "saveFailure", FailureStatus(w), runs[w].record.job, "release")
    BY <2>2, <2>4, SaveAsProvided
  <2> QED
    BY <2>1, <2>3, <2>4
<1> QED
  BY <1>1, <1>2, <1>3, <1>4, <1>5, <1>6, <1>7, <1>8, <1>9, <1>10, <1>11, <1>12, <1>13, <1>14, <1>15, <1>16 DEF Quiet

LEMMA PublishArtifactProvided ==
  ASSUME Account, Provided, NEW w \in Workers, PublishArtifact(w)
  PROVE  Provided'
<1>1. /\ runs[w].at = "publish" /\ ~RunAt(w, "idle") /\ jobs[1] = "done" /\ results \in Nat
      /\ UNCHANGED <<row, envelopes, jobs, requests, mishaps, failedJobs>>
  BY DEF PublishArtifact, RunAt, Provided, RunProvided, JobIsDone, Account, TaskOK, TaskTypes
<1>2. CASE results' = results + 1 /\ Goes(w, "rereadDone")
  BY <1>1, <1>2, GoesProvided DEF Recorded, InTry, Steps
<1>3. CASE UNCHANGED results /\ Goes(w, "fail")
  BY <1>1, <1>3, GoesProvided DEF Recorded, InTry, Steps, JobIsDone
<1> QED
  BY <1>2, <1>3 DEF PublishArtifact

LEMMA FollowUpProvided ==
  ASSUME Account, Provided, NEW w \in Workers, FollowUp(w)
  PROVE  Provided'
<1>1. /\ runs[w].at = "followup" /\ ~RunAt(w, "idle")
      /\ runs \in [Workers -> Run] /\ runs[w] \in Run
      /\ UNCHANGED <<row, jobs, results, requests, mishaps, failedJobs>>
  BY DEF FollowUp, RunAt, Account, TaskOK, TaskTypes
<1>2. /\ \A v \in Workers \ {w} : runs'[v] = runs[v]
      /\ runs'[w].at = "saveFollowup" /\ runs'[w].record = runs[w].record
      /\ runs'[w].job = runs[w].job
  BY <1>1 DEF FollowUp, Run
<1>3. RunProvided(w)'
  BY <1>1, <1>2 DEF Provided, RunProvided, RunAt, Recorded, InTry, JobIsDone
<1> QED
  BY <1>1, <1>2, <1>3, RunKeepsProvided DEF ProvidedEffect

LEMMA ThrowsProvided ==
  ASSUME Account, Provided, NEW w \in Workers, Throws(w)
  PROVE  Provided'
<1>1. /\ ~RunAt(w, "idle") /\ Moves(w) /\ runs'[w].at \in {"fail", "release"}
      /\ runs[w] \in Run /\ results \in Nat
  BY ThrowsMoves DEF Account, TaskOK, TaskTypes
<1>2. /\ runs'[w].at = "fail" => runs[w].at \in Recorded
      /\ runs'[w].record = runs[w].record /\ runs'[w].job = runs[w].job
  <2>1. CASE runs[w].at \in InTry /\ Goes(w, "fail")
    <3>1. runs'[w] = [runs[w] EXCEPT !.at = "fail"]
      BY <2>1, GoesMoves DEF Account, TaskOK, Steps
    <3> QED
      BY <1>1, <2>1, <3>1 DEF Run, Recorded
  <2>2. CASE runs[w].at \in OutsideTry /\ Goes(w, "release")
    <3>1. runs'[w] = [runs[w] EXCEPT !.at = "release"]
      BY <2>2, GoesMoves DEF Account, TaskOK, Steps
    <3> QED
      BY <1>1, <2>2, <3>1 DEF Run
  <2> QED
    BY <2>1, <2>2 DEF Throws
<1>3. RunProvided(w)'
  BY <1>1, <1>2 DEF Provided, RunProvided, RunAt, JobIsDone, Recorded, InTry
<1>4. row' = row \/ (row'.job = 1 /\ row'.status # "succeeded")
  <2>1. ASSUME NEW record \in SavedFirst(w)
        PROVE  record.job = 1 /\ record.status # "succeeded"
    <3>1. CASE RunAt(w, "start") \/ RunAt(w, "cancel") \/ RunAt(w, "saveFailure")
      <4>1. runs[w].record \in Records /\ runs[w].record.job = 1
        BY <3>1, NoRowAssumption
        DEF Account, RecordRead, Recorded, RunAt, Provided, RunProvided
      <4>2. \E status \in Statuses \ {"succeeded"} : record = [runs[w].record EXCEPT !.status = status]
        BY <3>1 DEF SavedFirst, FailureStatus, RunAt, Statuses, Terminal
      <4> QED
        BY <4>1, <4>2 DEF Records
    <3>2. CASE RunAt(w, "saveFollowup")
      <4>1. runs[w].job = 1
        BY <3>2 DEF Provided, RunProvided, RunAt, Recorded, InTry
      <4> QED
        BY <3>2, <4>1 DEF SavedFirst, RunAt
    <3> QED
      BY <3>1, <3>2 DEF SavedFirst
  <2> QED
    BY <2>1 DEF Throws, Save
<1>5. UNCHANGED <<jobs, requests>> /\ results' \in {results, results + 1}
  BY DEF Throws
<1> QED
  BY <1>1, <1>3, <1>4, <1>5, RunKeepsProvided DEF ProvidedEffect, Moves

(* A run begins, ends, or loses its reservation.                            *)
LEMMA EnvelopeProvided ==
  ASSUME Account, Provided, NEW w \in Workers,
         \/ \E e \in 1..MaxEnvelopes : Deliver(w, e)
         \/ AckEnvelope(w) \/ ReleaseEnvelope(w) \/ Crash(w) \/ OutlivesReservation(w)
  PROVE  Provided'
<1>1. UNCHANGED <<row, jobs, results, requests>>
  BY DEF Deliver, AckEnvelope, ReleaseEnvelope, Crash, OutlivesReservation
<1>2. runs \in [Workers -> Run] /\ runs[w] \in Run /\ (RunAt(w, "idle") => runs[w] = Idle)
  BY DEF Account, TaskOK, TaskTypes, EnvelopesHeld, RunAt
<1>3. Enqueued' => Enqueued
  <2>1. CASE \E e \in 1..MaxEnvelopes : Deliver(w, e)
    BY <2>1 DEF Deliver, Enqueued
  <2>2. CASE AckEnvelope(w) \/ ReleaseEnvelope(w) \/ Crash(w)
    BY <2>2 DEF AckEnvelope, ReleaseEnvelope, Crash, Enqueued, RunAt
  <2>3. CASE OutlivesReservation(w)
    <3>1. ~RunAt(w, "idle")
      BY <1>2, <2>3 DEF OutlivesReservation, Idle
    <3> QED
      BY <3>1 DEF Enqueued
  <2> QED
    BY <2>1, <2>2, <2>3
<1>4. /\ \A v \in Workers \ {w} : runs'[v] = runs[v]
      /\ runs'[w].at \in {"idle", "begin", runs[w].at}
      /\ runs'[w].record \in {NoRow, runs[w].record} /\ (runs'[w].at = runs[w].at => runs'[w].job = runs[w].job)
  <2>1. CASE \E e \in 1..MaxEnvelopes : Deliver(w, e)
    BY <2>1, DeliverMoves DEF Account, TaskOK
  <2>2. CASE AckEnvelope(w) \/ ReleaseEnvelope(w) \/ Crash(w)
    BY <1>2, <2>2 DEF AckEnvelope, ReleaseEnvelope, Crash, Idle, RunAt
  <2>3. CASE OutlivesReservation(w)
    BY <1>2, <2>3 DEF OutlivesReservation, Run
  <2> QED
    BY <2>1, <2>2, <2>3
<1>5. \A v \in Workers : RunProvided(v)'
  <2>1. RunProvided(w)'
    BY <1>1, <1>4 DEF Provided, RunProvided, RunAt, Recorded, InTry, JobIsDone
  <2> QED
    BY <1>1, <1>4, <2>1 DEF Provided, RunProvided, RunAt
<1> QED
  BY <1>1, <1>3, <1>5 DEF Provided, RequestProvided, EnqueuedProvided, RowPublished, RequestAt

LEMMA OutsideProvided ==
  ASSUME Account, Provided, Settles \/ AskToCancel \/ UNCHANGED vars
  PROVE  Provided'
<1>1. UNCHANGED <<envelopes, results, requests, runs>> /\ jobs \in Seq(JobStates)
  BY DEF Settles, ProviderMoves, AskToCancel, vars, Account, TaskOK, TaskTypes
<1>2. CASE Settles
  <2>1. PICK j \in DOMAIN jobs : \E state : jobs' = [jobs EXCEPT ![j] = state] /\ jobs[j] \in {"pending", "overdue"}
    BY <1>2 DEF Settles, ProviderMoves
  <2>2. Len(jobs') = Len(jobs) /\ (jobs[1] = "done" => jobs'[1] = "done")
    BY <1>1, <2>1
  <2>3. jobs # <<>>
    BY <1>1, <2>1
  <2>4. UNCHANGED row
    BY <1>2 DEF Settles, ProviderMoves
  <2> QED
    BY <1>1, <2>2, <2>3, <2>4
    DEF Provided, RequestProvided, RunProvided, EnqueuedProvided, Enqueued, RowPublished, RequestAt, RunAt
<1>3. CASE AskToCancel
  <2>1. row' = [row EXCEPT !.status = "cancel_requested"] /\ row \in Records
    BY <1>3 DEF AskToCancel, Save, Account, TaskOK, TaskTypes
  <2>2. row'.job = row.job /\ row'.status = "cancel_requested" /\ UNCHANGED jobs
    BY <1>3, <2>1 DEF Records, AskToCancel
  <2> QED
    BY <1>1, <2>2
    DEF Provided, RequestProvided, RunProvided, EnqueuedProvided, Enqueued, RowPublished, RequestAt, RunAt
<1>4. CASE UNCHANGED vars
  BY <1>4 DEF vars, Provided, RequestProvided, RunProvided, EnqueuedProvided, Enqueued, RowPublished,
              RequestAt, RunAt
<1> QED
  BY <1>2, <1>3, <1>4
(* What a step of a request may do.                                         *)
RequestProvides(r) ==
  /\ UNCHANGED <<results, runs>> /\ Len(jobs') <= 1
  /\ \A s \in Requests \ {r} : requests'[s] = requests[s]
  /\ requests[r].record = NoRow => UNCHANGED <<jobs, envelopes>> /\ (row' = row \/ row = NoRow)
  /\ row' = row \/ row'.status # "succeeded"
  /\ UNCHANGED jobs \/ (jobs = <<>> /\ ~Enqueued')
  /\ RequestProvided(r)'
  /\ Enqueued' =>
       /\ Len(jobs) = 1 /\ row'.job = 1
       /\ requests'[r].record # NoRow =>
            /\ requests'[r].at \in {"savePublished", "saveRefused"}
            /\ requests'[r].record.job = 1

LEMMA RequestKeepsProvided ==
  ASSUME Account, Provided, NEW r \in Requests, RequestProvides(r)
  PROVE  Provided'
<1>1. /\ \A s \in Requests : requests[s].record # NoRow <=> requests[s].at \in Submitting
      /\ \A s \in Requests : requests[s].record # NoRow => row # NoRow
      /\ \A s \in Requests \ {r} :
           requests[r].record # NoRow => requests[s].record = NoRow
  BY DEF Account, TaskOK, OneCreator
<1>2. ASSUME NEW s \in Requests
      PROVE  RequestProvided(s)'
  <2>1. CASE s = r
    BY <2>1 DEF RequestProvides
  <2>2. CASE s # r /\ requests[s].record # NoRow
    <3>1. requests'[s] = requests[s] /\ UNCHANGED <<jobs, row>>
      BY <1>1, <2>2 DEF RequestProvides
    <3> QED
      BY <3>1 DEF Provided, RequestProvided, RequestAt
  <2>3. CASE s # r /\ requests[s].record = NoRow
    <3>1. requests'[s] = requests[s] /\ requests[s].at \notin Submitting
      BY <1>1, <2>3 DEF RequestProvides
    <3> QED
      BY <2>3, <3>1 DEF RequestProvided, RequestAt, Submitting
  <2> QED
    BY <2>1, <2>2, <2>3
<1>3. ASSUME NEW w \in Workers
      PROVE  RunProvided(w)'
  <2>1. CASE UNCHANGED jobs
    BY <2>1 DEF RequestProvides, Provided, RunProvided, RunAt
  <2>2. CASE ~Enqueued'
    <3>1. runs'[w] = Idle
      BY <2>2 DEF RequestProvides, Enqueued, RunAt, Account, TaskOK, EnvelopesHeld
    <3> QED
      BY <3>1 DEF Idle, RunProvided, RunAt, Recorded, InTry, JobIsDone
  <2> QED
    BY <2>1, <2>2 DEF RequestProvides
<1>4. EnqueuedProvided'
  <2> SUFFICES ASSUME Enqueued' PROVE EnqueuedProvided'
    BY DEF EnqueuedProvided
  <2>1. Len(jobs') = 1 /\ row'.job = 1
    BY DEF RequestProvides
  <2>2. ASSUME NEW s \in Requests \ {r}, requests'[s].record # NoRow
        PROVE  /\ RequestAt(s, "savePublished")' \/ RequestAt(s, "saveRefused")'
               /\ requests'[s].record.job = 1
    <3>1. requests'[s] = requests[s] /\ requests[r].record = NoRow
      BY <1>1, <2>2 DEF RequestProvides
    <3>2. Enqueued
      BY <3>1 DEF RequestProvides, Enqueued, RunAt
    <3> QED
      BY <2>2, <3>1, <3>2 DEF Provided, EnqueuedProvided, RequestAt
  <2> QED
    BY <2>1, <2>2 DEF EnqueuedProvided, RequestProvides, RequestAt
<1>5. RowPublished'
  <2>1. CASE row' = row /\ UNCHANGED jobs
    BY <2>1 DEF Provided, RowPublished, RequestProvides
  <2>2. CASE row'.status # "succeeded"
    BY <2>2 DEF RowPublished
  <2>3. CASE row' = row /\ jobs = <<>>
    BY <2>3 DEF Provided, RowPublished
  <2> QED
    BY <2>1, <2>2, <2>3 DEF RequestProvides
<1> QED
  BY <1>2, <1>3, <1>4, <1>5 DEF Provided, RequestProvides

LEMMA RequestStepProvides ==
  ASSUME Account, Provided, NEW r \in Requests, RequestNext(r)
  PROVE  RequestProvides(r)
<1>0. /\ TaskTypes /\ requests[r] \in Request
      /\ requests \in [Requests -> Request] /\ runs \in [Workers -> Run]
      /\ requests[r].record # NoRow <=> requests[r].at \in Submitting
      /\ requests[r].record # NoRow => requests[r].record \in Records
      /\ jobs \in Seq(JobStates) /\ Len(jobs) \in Nat /\ Len(jobs) <= 1
      /\ DOMAIN envelopes \subseteq 1..MaxEnvelopes
  BY DEF Account, TaskOK, TaskTypes, Request, EnvelopesHeld, OneCreator, Provided
<1>1. ASSUME NEW step, NEW record, RequestGoes(r, step, record)
      PROVE  /\ requests'[r].at = step /\ requests'[r].record = record
             /\ \A s \in Requests \ {r} : requests'[s] = requests[s]
  BY <1>0, <1>1 DEF RequestGoes, Request
<1>2. requests[r].at \in {"submit", "saveSubmitted", "enqueue"} => ~Enqueued
  BY <1>0 DEF Provided, EnqueuedProvided, RequestAt, Submitting
<1>3. CASE Lookup(r)
  <2>1. \E step \in {"create", "answered"} : RequestGoes(r, step, NoRow)
    BY <1>3 DEF Lookup
  <2>2. requests[r].record = NoRow
    BY <1>0, <1>3 DEF Lookup, RequestAt, Submitting
  <2>3. /\ requests'[r].at \in {"create", "answered"} /\ requests'[r].record = NoRow
        /\ \A s \in Requests \ {r} : requests'[s] = requests[s]
    BY <1>1, <2>1
  <2> QED
    BY <1>0, <1>3, <2>2, <2>3
    DEF Lookup, RequestProvides, RequestProvided, RequestAt, Provided, EnqueuedProvided, Enqueued, RunAt
<1>4. CASE Create(r)
  <2>1. requests[r].record = NoRow
    BY <1>0, <1>4 DEF Create, RequestAt, Submitting
  <2>2. CASE row = NoRow
    <3>1. /\ RequestGoes(r, "submit", [status |-> "accepted", job |-> 0])
          /\ row' = [status |-> "accepted", job |-> 0]
      BY <1>4, <2>2, StephenAssumption DEF Create, Save
    <3>2. /\ requests'[r].at = "submit" /\ requests'[r].record = [status |-> "accepted", job |-> 0]
          /\ \A s \in Requests \ {r} : requests'[s] = requests[s]
      BY <1>1, <3>1
    <3>3. jobs = <<>> /\ ~Enqueued
      BY <2>2 DEF Account, TaskOK, NothingYet, Enqueued
    <3> QED
      BY <1>0, <1>4, <2>1, <2>2, <3>1, <3>2, <3>3
      DEF Create, RequestProvides, RequestProvided, RequestAt, Enqueued, RunAt
  <2>3. CASE row # NoRow
    <3>1. RequestGoes(r, "answered", NoRow) /\ UNCHANGED row
      BY <1>4, <2>3 DEF Create
    <3>2. /\ requests'[r].at = "answered" /\ requests'[r].record = NoRow
          /\ \A s \in Requests \ {r} : requests'[s] = requests[s]
      BY <1>1, <3>1
    <3> QED
      BY <1>0, <1>4, <2>1, <3>1, <3>2
      DEF Create, RequestProvides, RequestProvided, RequestAt, Provided, EnqueuedProvided, Enqueued, RunAt
  <2> QED
    BY <2>2, <2>3
<1>5. CASE SubmitToProvider(r)
  <2>1. /\ requests[r].at = "submit" /\ jobs = <<>> /\ ~Enqueued /\ requests[r].record \in Records
        /\ requests[r].record.status # "succeeded"
    BY <1>0, <1>2, <1>5 DEF SubmitToProvider, RequestAt, Submitting, Provided, RequestProvided
  <2>2. ~Enqueued' /\ UNCHANGED <<row, envelopes, results, runs>>
    BY <1>5, <2>1 DEF SubmitToProvider, Enqueued, RunAt
  <2>3. CASE NewJob /\ RequestGoes(r, "saveSubmitted",
               [requests[r].record EXCEPT !.status = "running", !.job = Len(jobs')])
    <3>1. Len(jobs') = 1
      BY <1>0, <2>1, <2>3, NewJobType
    <3>2. /\ requests'[r].at = "saveSubmitted"
          /\ requests'[r].record = [requests[r].record EXCEPT !.status = "running", !.job = 1]
          /\ \A s \in Requests \ {r} : requests'[s] = requests[s]
      BY <1>1, <2>3, <3>1
    <3>3. requests'[r].record.job = 1 /\ requests'[r].record.status = "running"
      BY <2>1, <3>2 DEF Records
    <3> QED
      BY <1>0, <2>1, <2>2, <3>1, <3>2, <3>3 DEF RequestProvides, RequestProvided, RequestAt, Submitting
  <2>4. CASE UNCHANGED jobs /\ \E status \in {"rejected", "failed"} :
               RequestGoes(r, "saveRefused", [requests[r].record EXCEPT !.status = status])
    <3>1. PICK status \in {"rejected", "failed"} :
            RequestGoes(r, "saveRefused", [requests[r].record EXCEPT !.status = status])
      BY <2>4
    <3>2. /\ requests'[r].at = "saveRefused"
          /\ requests'[r].record = [requests[r].record EXCEPT !.status = status]
          /\ \A s \in Requests \ {r} : requests'[s] = requests[s]
      BY <1>1, <3>1
    <3>3. requests'[r].record.status # "succeeded"
      BY <2>1, <3>2 DEF Records
    <3> QED
      BY <1>0, <2>1, <2>2, <2>4, <3>2, <3>3 DEF RequestProvides, RequestProvided, RequestAt, Submitting
  <2> QED
    BY <1>5, <2>3, <2>4 DEF SubmitToProvider
<1>6. CASE SaveSubmitted(r)
  <2>1. /\ requests[r].at = "saveSubmitted" /\ ~Enqueued /\ requests[r].record \in Records
        /\ requests[r].record # NoRow
        /\ Len(jobs) = 1 /\ requests[r].record.job = 1 /\ requests[r].record.status # "succeeded"
    BY <1>0, <1>2, <1>6 DEF SaveSubmitted, RequestAt, Submitting, Provided, RequestProvided
  <2>2. ~Enqueued' /\ row' = requests[r].record /\ UNCHANGED <<envelopes, results, runs, jobs>>
    BY <1>6, <2>1 DEF SaveSubmitted, Save, Enqueued, RunAt
  <2>3. /\ requests'[r].at = "enqueue" /\ requests'[r].record = requests[r].record
        /\ \A s \in Requests \ {r} : requests'[s] = requests[s]
    BY <1>1, <1>6 DEF SaveSubmitted
  <2> QED
    BY <1>0, <2>1, <2>2, <2>3 DEF RequestProvides, RequestProvided, RequestAt
<1>7. CASE SaveRefused(r) \/ SavePublished(r)
  <2>1. /\ requests[r].at \in {"saveRefused", "savePublished"} /\ requests[r].record \in Records
        /\ requests[r].record # NoRow /\ requests[r].record.status # "succeeded"
        /\ Enqueued => Len(jobs) = 1 /\ requests[r].record.job = 1
    BY <1>0, <1>7
    DEF SaveRefused, SavePublished, RequestAt, Submitting, Provided, RequestProvided, EnqueuedProvided
  <2>2. /\ (Enqueued' <=> Enqueued) /\ row' = requests[r].record
        /\ UNCHANGED <<envelopes, results, runs, jobs>>
    BY <1>7 DEF SaveRefused, SavePublished, Save, Enqueued, RunAt
  <2>3. /\ requests'[r].at = "answered" /\ requests'[r].record = NoRow
        /\ \A s \in Requests \ {r} : requests'[s] = requests[s]
    BY <1>1, <1>7 DEF SaveRefused, SavePublished
  <2> QED
    BY <1>0, <2>1, <2>2, <2>3 DEF RequestProvides, RequestProvided, RequestAt
<1>8. CASE EnqueueFirst(r)
  <2>1. /\ requests[r].at = "enqueue" /\ requests[r].record \in Records /\ requests[r].record # NoRow
        /\ Len(jobs) = 1 /\ requests[r].record.job = 1 /\ row.job = 1
        /\ requests[r].record.status # "succeeded"
    BY <1>0, <1>8 DEF EnqueueFirst, RequestAt, Submitting, Provided, RequestProvided
  <2>2. UNCHANGED <<row, results, runs, jobs>>
    BY <1>8 DEF EnqueueFirst
  <2>3. requests' = [requests EXCEPT ![r].at = "savePublished", ![r].enqueued = NewEnvelope,
                                     ![r].record.status = @]
    BY <1>8, StephenAssumption DEF EnqueueFirst
  <2>4. /\ requests'[r].at = "savePublished" /\ requests'[r].record = requests[r].record
        /\ \A s \in Requests \ {r} : requests'[s] = requests[s]
    BY <1>0, <2>1, <2>3 DEF Request, Records
  <2> QED
    BY <1>0, <2>1, <2>2, <2>4 DEF RequestProvides, RequestProvided, RequestAt
<1> QED
  BY <1>3, <1>4, <1>5, <1>6, <1>7, <1>8 DEF RequestNext

LEMMA RequestThrowsProvides ==
  ASSUME Account, Provided, NEW r \in Requests, RequestThrows(r) \/ RequestDies(r)
  PROVE  RequestProvides(r)
<1>0. /\ TaskTypes /\ requests[r] \in Request
      /\ requests \in [Requests -> Request] /\ runs \in [Workers -> Run]
      /\ requests[r].record # NoRow <=> requests[r].at \in Submitting
      /\ requests[r].record # NoRow => requests[r].record \in Records
      /\ jobs \in Seq(JobStates) /\ Len(jobs) \in Nat /\ Len(jobs) <= 1
  BY DEF Account, TaskOK, TaskTypes, Request, OneCreator, Provided
<1>1. ASSUME NEW step, NEW record, RequestGoes(r, step, record)
      PROVE  /\ requests'[r].at = step /\ requests'[r].record = record
             /\ \A s \in Requests \ {r} : requests'[s] = requests[s]
  BY <1>0, <1>1 DEF RequestGoes, Request
<1>2. requests[r].at \in {"submit", "saveSubmitted", "enqueue"} => ~Enqueued
  BY <1>0 DEF Provided, EnqueuedProvided, RequestAt, Submitting
<1>3. UNCHANGED <<results, runs>>
  BY DEF RequestThrows, RequestDies
<1>4. CASE RequestDies(r)
  <2>1. /\ requests'[r].at = "dead" /\ requests'[r].record = NoRow
        /\ \A s \in Requests \ {r} : requests'[s] = requests[s]
        /\ UNCHANGED <<row, envelopes, jobs>>
    BY <1>1, <1>4 DEF RequestDies
  <2> QED
    BY <1>0, <1>3, <2>1
    DEF RequestProvides, RequestProvided, RequestAt, Provided, EnqueuedProvided, Enqueued, RunAt
<1>5. CASE RequestThrows(r) /\ requests[r].at = "submit"
  <2>1. /\ jobs = <<>> /\ ~Enqueued /\ requests[r].record \in Records /\ requests[r].record # NoRow
    BY <1>0, <1>2, <1>5 DEF RequestAt, Submitting, Provided, RequestProvided
  <2>2. /\ NewJob /\ UNCHANGED <<row, envelopes>>
        /\ RequestGoes(r, "saveRefused", [requests[r].record EXCEPT !.status = "failed"])
    BY <1>5 DEF RequestThrows, RequestAt
  <2>3. Len(jobs') = 1 /\ ~Enqueued'
    BY <1>0, <1>3, <2>1, <2>2, NewJobType DEF Enqueued, RunAt
  <2>4. /\ requests'[r].at = "saveRefused" /\ requests'[r].record.status = "failed"
        /\ \A s \in Requests \ {r} : requests'[s] = requests[s]
    BY <1>1, <2>1, <2>2 DEF Records
  <2> QED
    BY <1>0, <1>3, <2>1, <2>2, <2>3, <2>4 DEF RequestProvides, RequestProvided, RequestAt
<1>6. CASE RequestThrows(r) /\ requests[r].at = "saveSubmitted"
  <2>1. /\ ~Enqueued /\ requests[r].record \in Records /\ requests[r].record # NoRow
        /\ requests[r].record.status # "succeeded"
    BY <1>0, <1>2, <1>6 DEF RequestAt, Submitting, Provided, RequestProvided
  <2>2. /\ UNCHANGED <<envelopes, jobs>> /\ (row' = requests[r].record \/ row' = row)
        /\ RequestGoes(r, "saveRefused", [status |-> "failed", job |-> 0])
    BY <1>6 DEF RequestThrows, RequestAt, Save
  <2>3. ~Enqueued'
    BY <1>3, <2>1, <2>2 DEF Enqueued, RunAt
  <2>4. /\ requests'[r].at = "saveRefused" /\ requests'[r].record.status = "failed"
        /\ \A s \in Requests \ {r} : requests'[s] = requests[s]
    BY <1>1, <2>2
  <2> QED
    BY <1>0, <1>3, <2>1, <2>2, <2>3, <2>4 DEF RequestProvides, RequestProvided, RequestAt
<1>7. CASE RequestThrows(r) /\ requests[r].at = "enqueue"
  <2>1. /\ requests[r].record \in Records /\ requests[r].record # NoRow
        /\ Len(jobs) = 1 /\ requests[r].record.job = 1 /\ row.job = 1
    BY <1>0, <1>7 DEF RequestAt, Submitting, Provided, RequestProvided
  <2>2. /\ UNCHANGED <<row, jobs>>
        /\ RequestGoes(r, "saveRefused", [requests[r].record EXCEPT !.status = "failed"])
    BY <1>7 DEF RequestThrows, RequestAt
  <2>3. /\ requests'[r].at = "saveRefused"
        /\ requests'[r].record = [requests[r].record EXCEPT !.status = "failed"]
        /\ \A s \in Requests \ {r} : requests'[s] = requests[s]
    BY <1>1, <2>2
  <2>4. requests'[r].record.status = "failed" /\ requests'[r].record.job = 1
    BY <2>1, <2>3 DEF Records
  <2> QED
    BY <1>0, <1>3, <2>1, <2>2, <2>3, <2>4 DEF RequestProvides, RequestProvided, RequestAt
<1>8. CASE RequestThrows(r) /\ requests[r].at = "savePublished"
  <2>1. /\ requests[r].record \in Records /\ requests[r].record # NoRow
        /\ Len(jobs) = 1 /\ requests[r].record.job = 1 /\ row.job = 1
        /\ requests[r].record.status # "succeeded"
    BY <1>0, <1>8 DEF RequestAt, Submitting, Provided, RequestProvided
  <2>2. /\ UNCHANGED <<envelopes, jobs>> /\ (row' = requests[r].record \/ row' = row)
        /\ RequestGoes(r, "saveRefused", [requests[r].record EXCEPT !.status = "failed"])
    BY <1>8 DEF RequestThrows, RequestAt, Save
  <2>3. /\ requests'[r].at = "saveRefused"
        /\ requests'[r].record = [requests[r].record EXCEPT !.status = "failed"]
        /\ \A s \in Requests \ {r} : requests'[s] = requests[s]
    BY <1>1, <2>2
  <2>4. requests'[r].record.status = "failed" /\ requests'[r].record.job = 1
    BY <2>1, <2>3 DEF Records
  <2> QED
    BY <1>0, <1>3, <2>1, <2>2, <2>3, <2>4 DEF RequestProvides, RequestProvided, RequestAt
<1> QED
  BY <1>4, <1>5, <1>6, <1>7, <1>8 DEF RequestThrows, RequestAt

LEMMA ProvidedStep == Account /\ Provided /\ [Next]_vars => Provided'
<1> SUFFICES ASSUME Account, Provided, [Next]_vars PROVE Provided'
  OBVIOUS
<1>1. ASSUME NEW w \in Workers, Progress(w)
      PROVE  Provided'
  BY <1>1, QuietProvided, FollowUpProvided, PublishArtifactProvided, EnvelopeProvided
  DEF Progress, Quiet
<1>2. ASSUME NEW r \in Requests, RequestNext(r) \/ RequestThrows(r) \/ RequestDies(r)
      PROVE  Provided'
  BY <1>2, RequestStepProvides, RequestThrowsProvides, RequestKeepsProvided
<1> QED
  BY <1>1, <1>2, EnvelopeProvided, ThrowsProvided, OutsideProvided DEF Next

LEMMA ProvidedAtFirst == Init => Provided
<1> SUFFICES ASSUME Init PROVE Provided
  OBVIOUS
<1>1. /\ row = NoRow /\ jobs = <<>> /\ Len(jobs) = 0 /\ ~Enqueued
      /\ \A r \in Requests : requests[r].at = "lookup" /\ requests[r].record = NoRow
      /\ \A w \in Workers : runs[w].at = "idle" /\ runs[w].record = NoRow
  BY DEF Init, Enqueued, RunAt, Idle
<1>2. \A r \in Requests : RequestProvided(r)
  BY <1>1 DEF RequestProvided, RequestAt
<1>3. \A w \in Workers : RunProvided(w)
  BY <1>1 DEF RunProvided, RunAt, Recorded, InTry, JobIsDone
<1> QED
  BY <1>1, <1>2, <1>3 DEF Provided, EnqueuedProvided, RowPublished

(* A task that succeeded has its artifact, made of a job that the provider  *)
(* finished, whatever crashes, lost reservations, failed calls and requests *)
(* to cancel came between, and whichever run saved the row last.            *)
THEOREM SucceededPublished == Spec => []SucceededIsPublished
<1>1. Provided => SucceededIsPublished
  BY DEF Provided, RowPublished, SucceededIsPublished
<1> QED
  BY <1>1, AccountStarts, AccountStep, ProvidedAtFirst, ProvidedStep, PTL DEF Spec
-----------------------------------------------------------------------------
(* A run that has not reached its first read again holds the record of a    *)
(* task that was not finished.                                              *)
BeforeReread ==
  {"cancel", "start", "poll", "followup", "saveFollowup", "saveRejected", "saveFailed",
   "download", "fetch", "reread90"}

EarlyUnfinished == \A w \in Workers : runs[w].at \in BeforeReread => ReadUnfinished(w)

LEMMA EarlyKept ==
  ASSUME Account, EarlyUnfinished, NEW w \in Workers,
         \A v \in Workers \ {w} : runs'[v] = runs[v],
         runs'[w].at \in BeforeReread =>
           \/ runs[w].at \in BeforeReread /\ runs'[w].record = runs[w].record
           \/ ReadUnfinished(w)'
  PROVE  EarlyUnfinished'
<1>1. runs'[w].at \in BeforeReread => ReadUnfinished(w)'
  BY DEF EarlyUnfinished, ReadUnfinished
<1> QED
  BY <1>1 DEF EarlyUnfinished, ReadUnfinished

LEMMA GoesEarly ==
  ASSUME Account, EarlyUnfinished, NEW w \in Workers, NEW step, NEW next, RunAt(w, step),
         Goes(w, next), next \in BeforeReread => step \in BeforeReread
  PROVE  EarlyUnfinished'
<1>1. runs \in [Workers -> Run] /\ runs[w] \in Run
  BY DEF Account, TaskOK, TaskTypes
<1>2. /\ \A v \in Workers \ {w} : runs'[v] = runs[v]
      /\ runs'[w].at = next /\ runs'[w].record = runs[w].record
  BY <1>1 DEF Goes, Run
<1> QED
  BY <1>2, EarlyKept DEF RunAt

LEMMA ProgressEarly ==
  ASSUME Account, EarlyUnfinished, NEW w \in Workers, Progress(w)
  PROVE  EarlyUnfinished'
<1> USE DEF BeforeReread
<1>0. runs \in [Workers -> Run] /\ runs[w] \in Run
  BY DEF Account, TaskOK, TaskTypes
<1>1. CASE Begin(w, "start")
  <2>1. CASE Finished
    BY <1>1, <2>1, GoesEarly DEF Begin
  <2>2. CASE ~Finished
    <3>1. row # NoRow
      BY <1>1 DEF Begin, RunAt, Account, TaskOK, NothingYet
    <3>2. PICK step \in {"start", "cancel"} :
            runs' = [runs EXCEPT ![w].at = step, ![w].record = row, ![w].job = row.job]
      BY <1>1, <2>2 DEF Begin
    <3>3. runs'[w].record = row /\ \A v \in Workers \ {w} : runs'[v] = runs[v]
      BY <1>0, <3>2 DEF Run
    <3>4. ReadUnfinished(w)'
      BY <2>2, <3>1, <3>3 DEF ReadUnfinished, Finished
    <3> QED
      BY <3>3, <3>4, EarlyKept
  <2> QED
    BY <2>1, <2>2
<1>2. CASE \/ SaveCancelled(w) \/ Start(w) \/ SaveFollowUp(w) \/ SaveRejected(w) \/ SaveFailed(w)
           \/ Download(w) \/ Save90(w) \/ PublishArtifact(w) \/ SaveDone(w) \/ RecordAttempt(w)
           \/ SaveFailure(w) \/ Fetch(w)
  <2>1. PICK step, next : RunAt(w, step) /\ Goes(w, next) /\ (next \in BeforeReread => step \in BeforeReread)
    BY <1>2 DEF SaveAs, SaveCancelled, Start, SaveFollowUp, SaveRejected, SaveFailed, Download, Save90,
                PublishArtifact, SaveDone, RecordAttempt, SaveFailure, Fetch
  <2> QED
    BY <2>1, GoesEarly
<1>3. CASE Poll(w)
  BY <1>3, GoesEarly DEF Poll
<1>4. CASE FollowUp(w)
  <2>1. /\ \A v \in Workers \ {w} : runs'[v] = runs[v]
        /\ runs[w].at = "followup" /\ runs'[w].record = runs[w].record
    BY <1>0, <1>4 DEF FollowUp, RunAt, Run
  <2> QED
    BY <2>1, EarlyKept
<1>5. CASE Reread90(w) \/ RereadDone(w) \/ Fail(w)
  <2>1. \E next \in {"save90", "saveDone", "saveFailure"} :
          runs' = [runs EXCEPT ![w].at = next, ![w].record = row]
    BY <1>5 DEF Reread90, RereadDone, Fail, Reread, Holds
  <2>2. /\ \A v \in Workers \ {w} : runs'[v] = runs[v]
        /\ runs'[w].at \in {"save90", "saveDone", "saveFailure"}
    BY <1>0, <2>1 DEF Run
  <2> QED
    BY <2>2, EarlyKept
<1>6. CASE AckEnvelope(w) \/ ReleaseEnvelope(w)
  BY <1>0, <1>6, EarlyKept DEF AckEnvelope, ReleaseEnvelope, Idle
<1> QED
  BY <1>1, <1>2, <1>3, <1>4, <1>5, <1>6 DEF Progress

LEMMA EarlyStep == Account /\ EarlyUnfinished /\ [Next]_vars => EarlyUnfinished'
<1> SUFFICES ASSUME Account, EarlyUnfinished, [Next]_vars PROVE EarlyUnfinished'
  OBVIOUS
<1>0. \A w \in Workers : runs \in [Workers -> Run] /\ runs[w] \in Run
  BY DEF Account, TaskOK, TaskTypes
<1>1. CASE UNCHANGED runs
  BY <1>1 DEF EarlyUnfinished, ReadUnfinished
<1>2. ASSUME NEW w \in Workers, Throws(w)
      PROVE  EarlyUnfinished'
  <2>1. PICK next \in {"fail", "release"} : Goes(w, next)
    BY <1>2 DEF Throws
  <2> QED
    BY <2>1, GoesEarly DEF RunAt, BeforeReread
<1>3. ASSUME NEW w \in Workers, NEW e \in 1..MaxEnvelopes, Deliver(w, e)
      PROVE  EarlyUnfinished'
  <2>1. runs'[w].at = "begin" /\ \A v \in Workers \ {w} : runs'[v] = runs[v]
    BY <1>3, DeliverMoves DEF Account, TaskOK
  <2> QED
    BY <2>1, EarlyKept DEF BeforeReread
<1>4. ASSUME NEW w \in Workers, Crash(w)
      PROVE  EarlyUnfinished'
  BY <1>0, <1>4, EarlyKept DEF Crash, Idle, BeforeReread
<1>5. ASSUME NEW w \in Workers, OutlivesReservation(w)
      PROVE  EarlyUnfinished'
  <2>1. /\ \A v \in Workers \ {w} : runs'[v] = runs[v]
        /\ runs'[w].at = runs[w].at /\ runs'[w].record = runs[w].record
    BY <1>0, <1>5 DEF OutlivesReservation, Run
  <2> QED
    BY <2>1, EarlyKept
<1>6. ASSUME NEW r \in Requests, RequestNext(r) \/ RequestThrows(r) \/ RequestDies(r)
      PROVE  UNCHANGED runs
  BY <1>6 DEF RequestNext, Lookup, Create, SubmitToProvider, SaveSubmitted, SaveRefused, EnqueueFirst,
              SavePublished, RequestThrows, RequestDies
<1> QED
  BY <1>1, <1>2, <1>3, <1>4, <1>5, <1>6, ProgressEarly
  DEF Next, Settles, ProviderMoves, AskToCancel, vars

LEMMA FinishedStep == Account /\ EarlyUnfinished /\ [Next]_vars => [LeavesFinishedAlone(Stale)]_vars
<1> SUFFICES ASSUME Account, EarlyUnfinished, Next, Finished,
                    \A r \in Requests : ~StaleRequest(r), \A w \in Workers : ~Stale(w)
             PROVE  row' = row /\ results' = results
  BY DEF LeavesFinishedAlone
<1>1. row # NoRow /\ row.status \in Terminal
  BY DEF Finished
<1>2. \A r \in Requests : requests[r].at \notin Submitting
  BY DEF Account, TaskOK, OneCreator, StaleRequest, Writing, Submitting
<1>3. ASSUME NEW r \in Requests, RequestNext(r) \/ RequestThrows(r) \/ RequestDies(r)
      PROVE  row' = row /\ results' = results
  BY <1>1, <1>2, <1>3
  DEF RequestNext, Lookup, Create, SubmitToProvider, SaveSubmitted, SaveRefused, EnqueueFirst,
      SavePublished, RequestThrows, RequestDies, RequestAt, Submitting
<1>4. \A w \in Workers : runs[w].at \notin BeforeReread \cup Rereading
  BY DEF EarlyUnfinished, Stale
<1>5. ASSUME NEW w \in Workers, Progress(w)
      PROVE  row' = row /\ results' = results
  BY <1>4, <1>5
  DEF Progress, Begin, SaveCancelled, Start, SaveAs, Poll, FollowUp, SaveFollowUp, SaveRejected,
      SaveFailed, Download, Fetch, Reread, Reread90, Save90, PublishArtifact, RereadDone, SaveDone,
      RecordAttempt, Fail, SaveFailure, AckEnvelope, ReleaseEnvelope, RunAt, BeforeReread, Rereading
<1>6. ASSUME NEW w \in Workers, Throws(w)
      PROVE  row' = row /\ results' = results
  <2>1. SavedFirst(w) = {} /\ ~RunAt(w, "publish")
    BY <1>4 DEF SavedFirst, RunAt, BeforeReread, Rereading
  <2> QED
    BY <1>6, <2>1 DEF Throws
<1>7. ASSUME NEW w \in Workers,
             \/ \E e \in 1..MaxEnvelopes : Deliver(w, e)
             \/ Crash(w) \/ OutlivesReservation(w)
      PROVE  row' = row /\ results' = results
  BY <1>7 DEF Deliver, Crash, OutlivesReservation
<1>8. CASE Settles \/ AskToCancel
  BY <1>8 DEF Settles, ProviderMoves, AskToCancel
<1> QED
  BY <1>3, <1>5, <1>6, <1>7, <1>8 DEF Next

(* A finished task stays finished, with the results that it has, once       *)
(* nobody is left who read its row before.                                  *)
THEOREM FinishedStays == Spec => FinishedIsFinal
<1>1. Init => EarlyUnfinished
  BY DEF Init, EarlyUnfinished, BeforeReread, Idle
<1> QED
  BY <1>1, AccountStarts, AccountStep, EarlyStep, FinishedStep, PTL DEF Spec, FinishedIsFinal
-----------------------------------------------------------------------------
(* A task is driven (Alive) as long as runs crash and calls of a run fail.   *)
LEMMA QuietAlive ==
  ASSUME Account, Alive, NEW w \in Workers, Quiet(w)
  PROVE  Alive'
<1>1. /\ QuietEffect(w) /\ TaskOK /\ runs \in [Workers -> Run] /\ runs[w] \in Run
  BY QuietStep DEF Account, TaskOK, TaskTypes
<1> DEFINE Drives == /\ runs'[w].at \notin {"idle", "saveFollowup"}
                     /\ \/ row'.status \in Terminal
                        \/ runs'[w].at \notin {"record", "ack"}
                        \/ UNCHANGED row /\ runs[w].at \in {"record", "ack"}
                        \/ runs[w].at = "saveFollowup"
<1>2. Drives
  <2>1. ASSUME NEW step, NEW status, NEW job, NEW next \in Steps \ {"idle", "saveFollowup"},
               SaveAs(w, step, status, job, next),
               status \in Terminal \/ next \notin {"record", "ack"} \/ step = "saveFollowup"
        PROVE  Drives
    <3>1. runs'[w].at = next /\ row'.status = status /\ runs[w].at = step
      BY <1>1, <2>1 DEF SaveAs, Save, Goes, RunAt, Run
    <3> QED
      BY <2>1, <3>1
  <2>2. ASSUME NEW next \in Steps \ {"idle", "saveFollowup", "record", "ack"}, Goes(w, next)
        PROVE  Drives
    <3>1. runs'[w].at = next
      BY <1>1, <2>2 DEF Goes, Run
    <3> QED
      BY <3>1
  <2>3. CASE Begin(w, "start")
    <3>1. CASE Finished
      <4>1. runs'[w].at = "ack" /\ row'.status \in Terminal
        BY <1>1, <2>3, <3>1 DEF Begin, Goes, Finished, Run
      <4> QED
        BY <4>1
    <3>2. CASE ~Finished
      <4>1. PICK step \in {"start", "cancel"} :
              runs' = [runs EXCEPT ![w].at = step, ![w].record = row, ![w].job = row.job]
        BY <2>3, <3>2 DEF Begin
      <4>2. runs'[w].at \in {"start", "cancel"}
        BY <1>1, <4>1 DEF Run
      <4> QED
        BY <4>2
    <3> QED
      BY <3>1, <3>2
  <2>4. CASE SaveCancelled(w)
    <3>1. runs[w].record \in Records
      BY <2>4 DEF SaveCancelled, RunAt, Account, RecordRead, Recorded
    <3>2. row'.status = "cancelled" /\ runs'[w].at = "ack"
      BY <1>1, <2>4, <3>1 DEF SaveCancelled, Save, Goes, Records, Run
    <3> QED
      BY <3>2 DEF Terminal
  <2>5. CASE Start(w) \/ SaveFollowUp(w) \/ SaveRejected(w) \/ SaveFailed(w) \/ Download(w)
             \/ Save90(w) \/ SaveDone(w) \/ SaveFailure(w)
    BY <2>1, <2>5 DEF Start, SaveFollowUp, SaveRejected, SaveFailed, Download, Save90, SaveDone,
                      SaveFailure, Steps, Terminal
  <2>6. CASE Poll(w) \/ Fetch(w)
    BY <2>2, <2>6 DEF Poll, Fetch, Steps
  <2>7. CASE Reread90(w) \/ RereadDone(w) \/ Fail(w)
    <3>1. PICK next \in {"save90", "saveDone", "saveFailure"} :
            runs' = [runs EXCEPT ![w].at = next, ![w].record = row]
      BY <2>7 DEF Reread90, RereadDone, Fail, Reread, Holds
    <3>2. runs'[w].at = next
      BY <1>1, <3>1 DEF Run
    <3> QED
      BY <3>2
  <2>8. CASE RecordAttempt(w)
    <3>1. runs'[w].at = "ack" /\ runs[w].at = "record" /\ UNCHANGED row
      BY <1>1, <2>8 DEF RecordAttempt, Goes, RunAt, Run
    <3> QED
      BY <3>1
  <2> QED
    BY <2>3, <2>4, <2>5, <2>6, <2>7, <2>8 DEF Quiet
<1> QED
  BY <1>1, <1>2, MoveAlive DEF QuietEffect

LEMMA RunAlive ==
  ASSUME Account, Alive, NEW w \in Workers,
         FollowUp(w) \/ PublishArtifact(w) \/ Throws(w)
  PROVE  Alive'
<1>0. TaskOK /\ TaskTypes /\ runs \in [Workers -> Run] /\ runs[w] \in Run
  BY DEF Account, TaskOK, TaskTypes
<1>1. CASE FollowUp(w)
  <2>1. /\ runs' = [runs EXCEPT ![w].at = "saveFollowup", ![w].enqueued = NewEnvelope]
        /\ runs[w].at = "followup" /\ Publish
        /\ UNCHANGED <<row, requests, failedJobs>>
    BY <1>1 DEF FollowUp, RunAt
  <2>2. NewEnvelope \in Nat
    BY <1>0, <2>1, NewEnvelopeIsNew DEF TaskOK, EnvelopesHeld
  <2>3. Moves(w) /\ runs'[w].at = "saveFollowup" /\ runs'[w].enqueued = NewEnvelope
    BY <1>0, <2>1, <2>2 DEF Moves, Run, Steps
  <2> QED
    BY <1>0, <2>1, <2>3, PublishAlive
<1>2. CASE PublishArtifact(w)
  <2>1. PICK next \in {"rereadDone", "fail"} : Goes(w, next)
    BY <1>2 DEF PublishArtifact
  <2>2. Moves(w) /\ runs'[w].at = next
    <3>1. next \in Steps
      BY DEF Steps
    <3>2. Moves(w) /\ runs'[w] = [runs[w] EXCEPT !.at = next]
      BY <1>0, <2>1, <3>1, GoesMoves
    <3> QED
      BY <1>0, <3>2 DEF Run
  <2> QED
    BY <1>0, <1>2, <2>2, MoveAlive DEF PublishArtifact, RunAt
<1>3. CASE Throws(w)
  <2>1. /\ ~RunAt(w, "idle") /\ Moves(w) /\ runs'[w].at \in {"fail", "release"}
        /\ RunAt(w, "followup") => runs'[w].at = "fail"
    BY <1>0, <1>3, ThrowsMoves DEF RunAt
  <2>2. CASE UNCHANGED envelopes
    BY <1>0, <1>3, <2>1, <2>2, MoveAlive DEF Throws
  <2>3. CASE RunAt(w, "followup") /\ Publish /\ UNCHANGED row
    BY <1>0, <1>3, <2>1, <2>3, PublishAlive DEF Throws, RunAt
  <2> QED
    BY <1>3, <2>2, <2>3 DEF Throws
<1> QED
  BY <1>1, <1>2, <1>3

LEMMA AliveStep == RunsOnly /\ Account /\ Alive /\ [Next]_vars => Alive'
<1> SUFFICES ASSUME RunsOnly, Account, Alive, [Next]_vars PROVE Alive'
  OBVIOUS
<1>0. TaskOK
  BY DEF Account
<1>1. ASSUME NEW w \in Workers, Progress(w)
      PROVE  Alive'
  BY <1>0, <1>1, QuietAlive, RunAlive, EndAlive DEF Progress, Quiet
<1>2. ASSUME NEW r \in Requests
      PROVE  ~RequestThrows(r) /\ ~RequestDies(r)
  BY DEF RequestThrows, RequestDies, Mishap, RunsOnly
<1>3. ASSUME NEW w \in Workers
      PROVE  ~OutlivesReservation(w)
  BY DEF OutlivesReservation, Mishap, RunsOnly
<1>4. CASE UNCHANGED <<envelopes, requests, runs, failedJobs>> /\ (Unfinished' => Unfinished)
  BY <1>4 DEF Alive, Waits, IsDriven, Driving, Unheld, Held, StaleRequest, RunAt, RequestAt
<1>5. CASE Settles \/ AskToCancel \/ UNCHANGED vars
  BY <1>4, <1>5 DEF Settles, ProviderMoves, AskToCancel, vars, Unfinished, Finished
<1> QED
  BY <1>0, <1>1, <1>2, <1>3, <1>5, RequestAlive, RunAlive, EndAlive, DeliverAlive DEF Next

(* A task that is not finished is driven, by an envelope or the request     *)
(* that submits it, or given up in failed_jobs, however often runs crash,   *)
(* calls of theirs fail, and somebody asks to cancel.                       *)
THEOREM TasksAreDriven == ASSUME RunsOnly PROVE Spec => []Driven
<1>1. Init => Alive
  BY DEF Init, Alive, Waits, Unfinished, RunAt, RequestAt, Idle
<1>2. Alive => Driven
  BY DEF Alive, Unfinished, IsDriven, Driving, Driven, Finished
<1>3. Account /\ Alive /\ [Next]_vars => Alive'
  BY AliveStep
<1> QED
  BY <1>1, <1>2, <1>3, AccountStarts, AccountStep, PTL DEF Spec
===============================================================================
