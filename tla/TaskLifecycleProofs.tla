-------------------------- MODULE TaskLifecycleProofs --------------------------
(***************************************************************************)
(* What the steps that all kinds of tasks share do to the envelopes: who    *)
(* holds one, how many polling chains there are, and who drives the task.   *)
(* The modules of the proofs about a kind of task build on it.              *)
(*                                                                          *)
(*  1. TaskOK: types, who holds which envelope, who creates the row.        *)
(*  2. Counted: the chains and the results are within what the mishaps      *)
(*     allow.  Neither count is inductive alone: a lost reservation leaves  *)
(*     a run (a stray) whose envelope starts again, so what is bounded is   *)
(*     chains, strays and results together, less the task to be created.    *)
(*  3. Alive: whatever leaves the queue leaves a finished task, an envelope *)
(*     that goes on, or a row of failed_jobs.  It holds when runs crash and *)
(*     their calls fail, and fails for requests that die half way.          *)
(***************************************************************************)
EXTENDS TaskLifecycle, FiniteSetTheorems, TLAPS

(* The steps of the runs, of both kinds of tasks.                           *)
Steps ==
  {"idle", "begin", "cancel", "start", "route", "submit", "followup", "saveFollowup", "check",
   "poll", "saveRejected", "saveFailed", "download", "fetch", "reread90", "save90", "publish",
   "rereadDone", "finalizing", "finalize", "saveDone", "record", "fail", "saveFailure",
   "ack", "release"}

JobStates == {"pending", "overdue", "done", "failed", "rejected"}

Submitting == {"submit", "saveSubmitted", "saveRefused", "enqueue", "savePublished"}

RequestSteps == {"lookup", "create", "answered", "dead"} \cup Submitting

Run == [at : Steps, envelope : Nat, attempts : Nat, record : Records \cup {NoRow}, job : Nat,
        enqueued : Nat]

Request == [at : RequestSteps, record : Records \cup {NoRow}, enqueued : Nat]

TaskTypes ==
  /\ row \in Records \cup {NoRow}
  /\ jobs \in Seq(JobStates)
  /\ results \in Nat /\ mishaps \in Nat
  /\ \A e \in DOMAIN envelopes : envelopes[e] \in Nat
  /\ requests \in [Requests -> Request]
  /\ runs \in [Workers -> Run]

(* An envelope in somebody's hands is in the queue, and in nobody else's.   *)
EnvelopesHeld ==
  /\ DOMAIN envelopes \subseteq 1..MaxEnvelopes
  /\ \A w \in Workers :
       /\ runs[w].at = "idle" => runs[w] = Idle
       /\ runs[w].envelope # NoEnvelope => runs[w].envelope \in DOMAIN envelopes
  /\ \A v, w \in Workers :
       runs[v].envelope = runs[w].envelope /\ runs[v].envelope # NoEnvelope => v = w

(* Before the row is there, nothing else is.                                *)
NothingYet ==
  row = NoRow =>
    /\ DOMAIN envelopes = {} /\ jobs = <<>> /\ results = 0
    /\ \A w \in Workers : RunAt(w, "idle")

(* One request creates the row; only that one has a record, as long as it   *)
(* is under way.                                                            *)
OneCreator ==
  /\ \A r \in Requests :
       /\ requests[r].record # NoRow <=> requests[r].at \in Submitting
       /\ requests[r].record # NoRow => row # NoRow
  /\ \A r, s \in Requests :
       requests[r].record # NoRow /\ requests[s].record # NoRow => r = s

TaskOK == TaskTypes /\ EnvelopesHeld /\ NothingYet /\ OneCreator

-----------------------------------------------------------------------------
(* A step of one run, which leaves the others, the envelopes and the        *)
(* requests alone.                                                          *)
Moves(w) ==
  /\ runs' \in [Workers -> Run]
  /\ \A v \in Workers \ {w} : runs'[v] = runs[v]
  /\ runs'[w].envelope = runs[w].envelope

LEMMA RunMoves ==
  ASSUME TaskOK, NEW w \in Workers, ~RunAt(w, "idle"), Moves(w), runs'[w].at # "idle",
         row' \in Records \/ UNCHANGED row, jobs' \in Seq(JobStates),
         results' \in Nat, mishaps' \in Nat, UNCHANGED <<envelopes, requests>>
  PROVE  TaskOK'
<1>1. row # NoRow
  BY DEF TaskOK, NothingYet
<1>2. row' # NoRow
  BY <1>1, NoRowAssumption DEF Records
<1>3. TaskTypes'
  BY DEF TaskOK, TaskTypes, Moves
<1>4. EnvelopesHeld'
  BY DEF TaskOK, EnvelopesHeld, Moves
<1>5. NothingYet' /\ OneCreator'
  BY <1>1, <1>2 DEF TaskOK, NothingYet, OneCreator
<1> QED
  BY <1>3, <1>4, <1>5 DEF TaskOK

LEMMA GoesMoves ==
  ASSUME TaskTypes, NEW w \in Workers, NEW step \in Steps, Goes(w, step)
  PROVE  Moves(w) /\ runs'[w] = [runs[w] EXCEPT !.at = step]
  BY DEF TaskTypes, Goes, Moves, Run

LEMMA HoldsMoves ==
  ASSUME TaskTypes, NEW w \in Workers, NEW step \in Steps, NEW record \in Records,
         Holds(w, step, record)
  PROVE  Moves(w) /\ runs'[w] = [runs[w] EXCEPT !.at = step, !.record = record]
  BY DEF TaskTypes, Holds, Moves, Run

LEMMA SaveAsMoves ==
  ASSUME TaskTypes, NEW w \in Workers, NEW step, NEW status \in Statuses, NEW job \in Nat,
         NEW next \in Steps, SaveAs(w, step, status, job, next)
  PROVE  /\ Moves(w) /\ runs'[w] = [runs[w] EXCEPT !.at = next]
         /\ row' \in Records /\ row' = [status |-> status, job |-> job]
         /\ runs[w].at = step
         /\ UNCHANGED <<envelopes, jobs, results, requests, mishaps, failedJobs>>
<1>1. [status |-> status, job |-> job] \in Records
  BY DEF Records
<1> QED
  BY <1>1, GoesMoves DEF SaveAs, Save, RunAt

(* The number of a new envelope.                                            *)
LEMMA EnqueuedIsNew ==
  ASSUME DOMAIN envelopes \subseteq 1..MaxEnvelopes, NEW n, Enqueue(n)
  PROVE  /\ NewEnvelope \in 1..MaxEnvelopes \ DOMAIN envelopes
         /\ DOMAIN envelopes' = DOMAIN envelopes \cup {NewEnvelope}
         /\ NewEnvelope # NoEnvelope
<1>1. \E e \in 1..MaxEnvelopes : e \notin DOMAIN envelopes
  BY DEF Enqueue
<1>2. NewEnvelope \in 1..MaxEnvelopes /\ NewEnvelope \notin DOMAIN envelopes
  BY <1>1 DEF NewEnvelope
<1>3. DOMAIN envelopes' = DOMAIN envelopes \cup {NewEnvelope}
  BY DEF Enqueue
<1> QED
  BY <1>2, <1>3, TaskAssumption DEF NoEnvelope

LEMMA NewEnvelopeIsNew ==
  ASSUME DOMAIN envelopes \subseteq 1..MaxEnvelopes, Publish
  PROVE  /\ NewEnvelope \in 1..MaxEnvelopes \ DOMAIN envelopes
         /\ DOMAIN envelopes' = DOMAIN envelopes \cup {NewEnvelope}
         /\ NewEnvelope # NoEnvelope
  BY EnqueuedIsNew DEF Publish

(* Envelopes count their attempts.                                          *)
LEMMA AttemptsType ==
  ASSUME TaskTypes,
         UNCHANGED envelopes \/ Publish \/ (\E n \in Nat : Enqueue(n)) \/ (\E e : Remove(e))
  PROVE  \A e \in DOMAIN envelopes' : envelopes'[e] \in Nat
<1>1. ASSUME NEW n \in Nat, Enqueue(n)
      PROVE  \A e \in DOMAIN envelopes' : envelopes'[e] \in Nat
  <2> HIDE DEF NewEnvelope
  <2> QED
    BY <1>1 DEF TaskTypes, Enqueue
<1>2. ASSUME NEW e, Remove(e)
      PROVE  \A x \in DOMAIN envelopes' : envelopes'[x] \in Nat
  BY <1>2 DEF TaskTypes, Remove
<1>3. CASE UNCHANGED envelopes
  BY <1>3 DEF TaskTypes
<1> QED
  BY <1>1, <1>2, <1>3 DEF Publish

(* A request leaves the runs alone.                                         *)
LEMMA RequestMoves ==
  ASSUME TaskOK, NEW r \in Requests, UNCHANGED runs,
         requests' \in [Requests -> Request],
         \A s \in Requests \ {r} : requests'[s] = requests[s],
         requests'[r].record # NoRow <=> requests'[r].at \in Submitting,
         requests'[r].record # NoRow => requests[r].record # NoRow \/ row = NoRow,
         row' \in Records \/ UNCHANGED row,
         requests'[r].record # NoRow => row' # NoRow,
         row = NoRow /\ row' = NoRow => UNCHANGED <<envelopes, jobs, results>>,
         UNCHANGED envelopes \/ Publish,
         jobs' \in Seq(JobStates), UNCHANGED results, mishaps' \in Nat
  PROVE  TaskOK'
<1>1. TaskTypes'
  BY AttemptsType DEF TaskOK, TaskTypes
<1>2. EnvelopesHeld'
  <2>1. DOMAIN envelopes \subseteq DOMAIN envelopes' /\ DOMAIN envelopes' \subseteq 1..MaxEnvelopes
    BY NewEnvelopeIsNew DEF TaskOK, EnvelopesHeld
  <2> QED
    BY <2>1 DEF TaskOK, EnvelopesHeld
<1>3. NothingYet'
  BY NoRowAssumption DEF TaskOK, NothingYet, Records, RunAt
<1>4. OneCreator'
  <2>1. row # NoRow => row' # NoRow
    BY NoRowAssumption DEF Records
  <2> QED
    BY <2>1 DEF TaskOK, OneCreator
<1> QED
  BY <1>1, <1>2, <1>3, <1>4 DEF TaskOK

LEMMA RequestGoesKeeps ==
  ASSUME TaskOK, NEW r \in Requests, NEW step \in RequestSteps,
         NEW record \in Records \cup {NoRow}, RequestGoes(r, step, record),
         record # NoRow <=> step \in Submitting,
         record # NoRow => row' # NoRow /\ (requests[r].record # NoRow \/ row = NoRow),
         row' \in Records \/ UNCHANGED row,
         row = NoRow /\ row' = NoRow => UNCHANGED <<envelopes, jobs>>,
         UNCHANGED envelopes \/ Publish,
         jobs' \in Seq(JobStates), mishaps' \in Nat, UNCHANGED <<runs, results>>
  PROVE  TaskOK'
<1>1. /\ requests' \in [Requests -> Request]
      /\ \A s \in Requests \ {r} : requests'[s] = requests[s]
      /\ requests'[r].at = step /\ requests'[r].record = record
  BY DEF TaskOK, TaskTypes, RequestGoes, Request
<1> QED
  BY <1>1, RequestMoves

LEMMA RecordTypes ==
  ASSUME NEW record \in Records, NEW status \in Statuses, NEW job \in Nat
  PROVE  /\ record # NoRow /\ record.status \in Statuses /\ record.job \in Nat
         /\ [record EXCEPT !.status = status] \in Records
         /\ [record EXCEPT !.status = status, !.job = job] \in Records
         /\ [status |-> status, job |-> job] \in Records
  BY NoRowAssumption DEF Records

LEMMA NewJobType ==
  ASSUME TaskTypes, NewJob
  PROVE  jobs' \in Seq(JobStates) /\ Len(jobs') = Len(jobs) + 1 /\ Len(jobs') \in Nat
<1>1. jobs \in Seq(JobStates) /\ jobs' = Append(jobs, "pending") /\ "pending" \in JobStates
  BY DEF TaskTypes, NewJob, JobStates
<1> QED
  BY <1>1

(* What a request does, with its mishaps.                                   *)
LEMMA RequestKeeps ==
  ASSUME TaskOK, NEW r \in Requests, RequestNext(r)
  PROVE  TaskOK'
<1> USE DEF RequestAt, Submitting, RequestSteps, Statuses, Terminal
<1>0. /\ requests[r].record \in Records \cup {NoRow} /\ mishaps \in Nat /\ jobs \in Seq(JobStates)
      /\ row \in Records \cup {NoRow} /\ TaskTypes
      /\ requests[r].record # NoRow <=> requests[r].at \in Submitting
      /\ requests[r].record # NoRow => row # NoRow
  BY DEF TaskOK, TaskTypes, OneCreator, Request
<1>1. CASE Lookup(r)
  <2>1. \E step \in {"create", "answered"} : RequestGoes(r, step, NoRow)
    BY <1>1 DEF Lookup
  <2> QED
    BY <1>0, <1>1, <2>1, RequestGoesKeeps DEF Lookup
<1>2. CASE Create(r)
  <2> DEFINE record == [status |-> "accepted", job |-> 0]
  <2>1. record \in Records /\ record # NoRow
    <3>1. record \in Records
      BY DEF Records
    <3> QED
      BY <3>1, NoRowAssumption DEF Records
  <2>2. CASE row # NoRow
    BY <1>0, <1>2, <2>2, RequestGoesKeeps DEF Create
  <2>3. CASE row = NoRow
    <3>1. row' = record /\ UNCHANGED <<envelopes, jobs, results, runs, mishaps, failedJobs>>
      BY <1>2, <2>3 DEF Create, Save
    <3>2. \E step \in {"submit", "enqueue"} : RequestGoes(r, step, record)
      BY <1>2, <2>3 DEF Create
    <3> HIDE DEF record
    <3> QED
      BY <1>0, <2>1, <2>3, <3>1, <3>2, RequestGoesKeeps
  <2> QED
    BY <2>2, <2>3
<1>3. CASE SubmitToProvider(r)
  <2>0. requests[r].record \in Records /\ row # NoRow
    BY <1>0, <1>3 DEF SubmitToProvider
  <2>1. CASE NewJob /\ RequestGoes(r, "saveSubmitted",
               [requests[r].record EXCEPT !.status = "running", !.job = Len(jobs')])
    <3> DEFINE record == [requests[r].record EXCEPT !.status = "running", !.job = Len(jobs')]
    <3>1. record \in Records
      BY <1>0, <2>0, <2>1, NewJobType, RecordTypes
    <3>2. RequestGoes(r, "saveSubmitted", record)
      BY <2>1
    <3> HIDE DEF record
    <3>3. UNCHANGED <<row, envelopes, results, runs, mishaps>>
      BY <1>3 DEF SubmitToProvider
    <3> QED
      BY <1>0, <2>0, <2>1, <3>1, <3>2, <3>3, NewJobType, NoRowAssumption, RequestGoesKeeps
  <2>2. ASSUME UNCHANGED jobs, NEW status \in {"rejected", "failed"},
               RequestGoes(r, "saveRefused", [requests[r].record EXCEPT !.status = status])
        PROVE  TaskOK'
    <3> DEFINE record == [requests[r].record EXCEPT !.status = status]
    <3>1. record \in Records
      BY <2>0, RecordTypes
    <3>2. RequestGoes(r, "saveRefused", record)
      BY <2>2
    <3> HIDE DEF record
    <3>3. UNCHANGED <<row, envelopes, results, runs, mishaps>>
      BY <1>3 DEF SubmitToProvider
    <3> QED
      BY <1>0, <2>0, <2>2, <3>1, <3>2, <3>3, NoRowAssumption, RequestGoesKeeps
  <2> QED
    BY <1>3, <2>1, <2>2 DEF SubmitToProvider
<1>4. CASE SaveSubmitted(r) \/ SaveRefused(r) \/ SavePublished(r)
  <2>0. requests[r].record \in Records /\ row # NoRow
    BY <1>0, <1>4 DEF SaveSubmitted, SaveRefused, SavePublished
  <2>1. \/ RequestGoes(r, "enqueue", requests[r].record)
        \/ RequestGoes(r, "answered", NoRow)
    BY <1>4 DEF SaveSubmitted, SaveRefused, SavePublished
  <2>2. row' \in Records /\ row' # NoRow /\ UNCHANGED <<envelopes, jobs, results, runs, mishaps>>
    BY <1>4, <2>0, RecordTypes DEF SaveSubmitted, SaveRefused, SavePublished, Save
  <2>3. CASE RequestGoes(r, "enqueue", requests[r].record)
    BY <1>0, <2>0, <2>2, <2>3, NoRowAssumption, RequestGoesKeeps
  <2>4. CASE RequestGoes(r, "answered", NoRow)
    BY <1>0, <2>0, <2>2, <2>4, RequestGoesKeeps
  <2> QED
    BY <2>1, <2>3, <2>4
<1>5. CASE EnqueueFirst(r)
  <2>0. requests[r].record \in Records /\ row # NoRow
    BY <1>0, <1>5 DEF EnqueueFirst
  <2>1. NewEnvelope \in Nat
    BY <1>5, NewEnvelopeIsNew DEF EnqueueFirst, EnvelopesHeld, TaskOK
  <2>2. /\ requests' \in [Requests -> Request]
        /\ \A s \in Requests \ {r} : requests'[s] = requests[s]
        /\ requests'[r].at = "savePublished" /\ requests'[r].record \in Records
    <3> DEFINE status == IF AtProvider THEN requests[r].record.status ELSE "queued"
    <3>1. status \in Statuses
      BY <2>0 DEF Records
    <3>2. /\ \A t \in Requests \ {r} : requests'[t] = requests[t]
          /\ requests' = [t \in Requests |-> requests'[t]]
          /\ requests'[r] = [at |-> "savePublished", enqueued |-> NewEnvelope,
                             record |-> [requests[r].record EXCEPT !.status = status]]
      BY <1>0, <1>5, <2>0 DEF EnqueueFirst, TaskTypes, Request, Records
    <3> HIDE DEF status
    <3>3. [requests[r].record EXCEPT !.status = status] \in Records
      BY <2>0, <3>1, RecordTypes
    <3>4. requests'[r] \in Request
      BY <2>1, <3>2, <3>3 DEF Request
    <3>5. \A t \in Requests : requests'[t] \in Request
      BY <1>0, <3>2, <3>4 DEF TaskTypes
    <3> QED
      BY <3>2, <3>3, <3>5
  <2> QED
    BY <1>0, <1>5, <2>0, <2>2, RecordTypes, RequestMoves DEF EnqueueFirst
<1> QED
  BY <1>1, <1>2, <1>3, <1>4, <1>5 DEF RequestNext

LEMMA MishapKeepsType ==
  ASSUME TaskTypes, NEW kind, Mishap(kind)
  PROVE  mishaps' = mishaps + 1 /\ mishaps' \in Nat /\ mishaps \in Nat
  BY DEF TaskTypes, Mishap

LEMMA RequestThrowsKeeps ==
  ASSUME TaskOK, NEW r \in Requests, RequestThrows(r) \/ RequestDies(r)
  PROVE  TaskOK'
<1> USE DEF RequestAt, Submitting, RequestSteps, Statuses, Terminal
<1>0. /\ requests[r].record \in Records \cup {NoRow} /\ jobs \in Seq(JobStates)
      /\ row \in Records \cup {NoRow} /\ TaskTypes
      /\ requests[r].record # NoRow <=> requests[r].at \in Submitting
      /\ requests[r].record # NoRow => row # NoRow
  BY DEF TaskOK, TaskTypes, OneCreator, Request
<1>1. mishaps' \in Nat /\ UNCHANGED <<runs, results>>
  BY <1>0, MishapKeepsType DEF RequestThrows, RequestDies
<1>2. CASE RequestDies(r)
  BY <1>0, <1>1, <1>2, RequestGoesKeeps DEF RequestDies
<1>3. CASE RequestThrows(r)
  <2>1. requests[r].record \in Records /\ row \in Records /\ row # NoRow
    BY <1>0, <1>3 DEF RequestThrows
  <2>2. row' \in Records /\ row' # NoRow
    BY <1>3, <2>1, NoRowAssumption DEF RequestThrows, Save
  <2>3. (UNCHANGED envelopes \/ Publish) /\ jobs' \in Seq(JobStates)
    BY <1>0, <1>3, NewJobType DEF RequestThrows
  <2>4. ASSUME NEW record \in Records, RequestGoes(r, "saveRefused", record)
        PROVE  TaskOK'
    BY <1>0, <1>1, <2>1, <2>2, <2>3, <2>4, NoRowAssumption, RequestGoesKeeps
  <2>5. \/ RequestGoes(r, "saveRefused", [requests[r].record EXCEPT !.status = "failed"])
        \/ RequestGoes(r, "saveRefused", [status |-> "failed", job |-> 0])
    BY <1>3 DEF RequestThrows
  <2>6. /\ [requests[r].record EXCEPT !.status = "failed"] \in Records
        /\ [status |-> "failed", job |-> 0] \in Records
    BY <2>1 DEF Records
  <2> QED
    BY <2>4, <2>5, <2>6
<1> QED
  BY <1>2, <1>3

-----------------------------------------------------------------------------
(* The steps of a run that touch its envelope.                              *)

LEMMA DeliverKeeps ==
  ASSUME TaskOK, NEW w \in Workers, NEW e \in 1..MaxEnvelopes, Deliver(w, e)
  PROVE  TaskOK'
<1> USE DEF RunAt
<1>1. e \in DOMAIN envelopes /\ DOMAIN envelopes' = DOMAIN envelopes /\ runs[w] = Idle
  BY DEF Deliver, TaskOK, EnvelopesHeld
<1>2. mishaps' \in Nat
  BY MishapKeepsType DEF Deliver, TaskOK, TaskTypes
<1>3. /\ runs' \in [Workers -> Run]
      /\ \A v \in Workers \ {w} : runs'[v] = runs[v]
      /\ runs'[w].at = "begin" /\ runs'[w].envelope = e
  <2>1. /\ e \in Nat /\ envelopes[e] + 1 \in Nat
        /\ "begin" \in Steps /\ runs[w] \in Run /\ runs \in [Workers -> Run]
    BY <1>1, TaskAssumption DEF TaskOK, TaskTypes, Steps
  <2>2. runs' = [runs EXCEPT ![w].at = "begin", ![w].envelope = e,
                             ![w].attempts = envelopes[e] + 1]
    BY DEF Deliver
  <2>3. [runs[w] EXCEPT !.at = "begin", !.envelope = e, !.attempts = envelopes[e] + 1] \in Run
    BY <2>1 DEF Run
  <2> QED
    BY <2>1, <2>2, <2>3 DEF Run
<1>4. \A v \in Workers : runs[v].envelope # e
  BY DEF Deliver, Held
<1>5. TaskTypes'
  <2>1. \A x \in DOMAIN envelopes' : envelopes'[x] \in Nat
    BY <1>1 DEF TaskOK, TaskTypes, Deliver
  <2> QED
    BY <1>2, <1>3, <2>1 DEF TaskOK, TaskTypes, Deliver
<1>6. EnvelopesHeld'
  BY <1>1, <1>3, <1>4 DEF TaskOK, EnvelopesHeld
<1>7. NothingYet' /\ OneCreator'
  BY <1>1, <1>3 DEF TaskOK, NothingYet, OneCreator, Deliver
<1> QED
  BY <1>5, <1>6, <1>7 DEF TaskOK

(* What a delivery does to the runs.                                        *)
LEMMA DeliverMoves ==
  ASSUME TaskTypes, NEW w \in Workers, NEW e, Deliver(w, e)
  PROVE  /\ \A v \in Workers \ {w} : runs'[v] = runs[v]
         /\ runs[w].at = "idle"
         /\ runs'[w].at = "begin" /\ runs'[w].envelope = e
         /\ runs'[w].record = runs[w].record /\ runs'[w].job = runs[w].job
<1>1. runs \in [Workers -> Run] /\ runs[w] \in Run
  BY DEF TaskTypes
<1>2. /\ runs' = [runs EXCEPT ![w].at = "begin", ![w].envelope = e,
                              ![w].attempts = envelopes[e] + 1]
      /\ runs[w].at = "idle"
  BY DEF Deliver, RunAt
<1>3. runs'[w] = [runs[w] EXCEPT !.at = "begin", !.envelope = e, !.attempts = envelopes[e] + 1]
  BY <1>1, <1>2
<1> QED
  BY <1>1, <1>2, <1>3 DEF Run

(* The envelope of a run that ends is left, removed or replaced by a copy.  *)
Settled(w) ==
  \/ UNCHANGED envelopes
  \/ Remove(runs[w].envelope)
  \/ runs[w].envelope = NoEnvelope /\ Enqueue(runs[w].attempts)

LEMMA ReleaseSettles ==
  ASSUME NEW w \in Workers, ReleaseEnvelope(w)
  PROVE  Settled(w)
  BY DEF ReleaseEnvelope, ReleaseHeld, ReleaseLost, Settled

LEMMA EndKeeps ==
  ASSUME TaskOK, NEW w \in Workers, ~RunAt(w, "idle"), runs' = [runs EXCEPT ![w] = Idle],
         Settled(w), UNCHANGED <<row, jobs, results, requests>>, mishaps' \in Nat
  PROVE  TaskOK'
<1> USE DEF RunAt
<1>1. /\ runs' \in [Workers -> Run]
      /\ \A v \in Workers \ {w} : runs'[v] = runs[v]
      /\ runs'[w] = Idle
  BY DEF TaskOK, TaskTypes, Run, Idle, Steps, NoEnvelope
<1>2. /\ DOMAIN envelopes \ {runs[w].envelope} \subseteq DOMAIN envelopes'
      /\ DOMAIN envelopes' \subseteq 1..MaxEnvelopes
  <2>1. CASE UNCHANGED envelopes \/ Remove(runs[w].envelope)
    BY <2>1 DEF Remove, TaskOK, EnvelopesHeld
  <2>2. CASE Enqueue(runs[w].attempts)
    BY <2>2, EnqueuedIsNew DEF TaskOK, EnvelopesHeld
  <2> QED
    BY <2>1, <2>2 DEF Settled
<1>3. TaskTypes'
  <2>1. runs[w].attempts \in Nat
    BY DEF TaskOK, TaskTypes, Run
  <2>2. \A e \in DOMAIN envelopes' : envelopes'[e] \in Nat
    BY <2>1, AttemptsType DEF TaskOK, Settled
  <2> QED
    BY <1>1, <2>2 DEF TaskOK, TaskTypes
<1>4. EnvelopesHeld'
  BY <1>1, <1>2 DEF TaskOK, EnvelopesHeld, Idle
<1>5. NothingYet' /\ OneCreator'
  BY DEF TaskOK, NothingYet, OneCreator
<1> QED
  BY <1>3, <1>4, <1>5 DEF TaskOK

LEMMA OutlivesKeeps ==
  ASSUME TaskOK, NEW w \in Workers, OutlivesReservation(w)
  PROVE  TaskOK'
<1> USE DEF RunAt
<1>1. runs[w].at # "idle" /\ runs[w].envelope # NoEnvelope
  BY DEF OutlivesReservation, TaskOK, EnvelopesHeld, Idle
<1>2. /\ runs' \in [Workers -> Run]
      /\ \A v \in Workers \ {w} : runs'[v] = runs[v]
      /\ runs'[w].envelope = NoEnvelope /\ runs'[w].at # "idle"
  BY <1>1 DEF OutlivesReservation, TaskOK, TaskTypes, Run, NoEnvelope
<1>3. /\ DOMAIN envelopes \ {runs[w].envelope} \subseteq DOMAIN envelopes'
      /\ DOMAIN envelopes' \subseteq DOMAIN envelopes
      /\ UNCHANGED envelopes \/ Remove(runs[w].envelope)
  BY DEF OutlivesReservation, Remove
<1>4. TaskTypes'
  <2>1. \A e \in DOMAIN envelopes' : envelopes'[e] \in Nat
    BY <1>3, AttemptsType DEF TaskOK
  <2> QED
    BY <1>2, <2>1, MishapKeepsType DEF TaskOK, TaskTypes, OutlivesReservation
<1>5. EnvelopesHeld'
  <2>1. \A v \in Workers \ {w} :
          runs[v].envelope # NoEnvelope => runs[v].envelope \in DOMAIN envelopes'
    BY <1>1, <1>3 DEF TaskOK, EnvelopesHeld
  <2> QED
    BY <1>2, <1>3, <2>1 DEF TaskOK, EnvelopesHeld
<1>6. NothingYet' /\ OneCreator'
  BY <1>1 DEF TaskOK, NothingYet, OneCreator, OutlivesReservation
<1> QED
  BY <1>4, <1>5, <1>6 DEF TaskOK

(* A run that enqueues a follow-up, whatever becomes of it then.            *)
LEMMA PublishKeeps ==
  ASSUME TaskOK, NEW w \in Workers, ~RunAt(w, "idle"), Publish,
         Moves(w), runs'[w].at # "idle", UNCHANGED <<row, jobs, results, requests>>, mishaps' \in Nat
  PROVE  TaskOK'
<1> USE DEF RunAt
<1>1. DOMAIN envelopes \subseteq DOMAIN envelopes' /\ DOMAIN envelopes' \subseteq 1..MaxEnvelopes
  BY NewEnvelopeIsNew DEF TaskOK, EnvelopesHeld
<1>2. TaskTypes'
  BY AttemptsType DEF TaskOK, TaskTypes, Moves
<1>3. EnvelopesHeld'
  BY <1>1 DEF TaskOK, EnvelopesHeld, Moves
<1>4. NothingYet' /\ OneCreator'
  BY DEF TaskOK, NothingYet, OneCreator
<1> QED
  BY <1>2, <1>3, <1>4 DEF TaskOK

(* The provider, and whoever asks to cancel.                                *)
LEMMA OutsideKeeps ==
  ASSUME TaskOK, UNCHANGED <<envelopes, results, requests, runs>>, mishaps' \in Nat,
         row' \in Records \/ UNCHANGED row, jobs' \in Seq(JobStates),
         row = NoRow => UNCHANGED <<row, jobs>>
  PROVE  TaskOK'
<1>1. TaskTypes' /\ EnvelopesHeld'
  BY DEF TaskOK, TaskTypes, EnvelopesHeld
<1>2. NothingYet' /\ OneCreator'
  BY NoRowAssumption DEF TaskOK, NothingYet, OneCreator, RunAt
<1> QED
  BY <1>1, <1>2 DEF TaskOK

LEMMA TaskStarts == Init => TaskOK
<1> SUFFICES ASSUME Init PROVE TaskOK
  OBVIOUS
<1>1. TaskTypes
  BY DEF Init, TaskTypes, Run, Request, Steps, RequestSteps, Idle, NoEnvelope
<1>2. EnvelopesHeld
  BY DEF Init, EnvelopesHeld, Idle
<1>3. NothingYet /\ OneCreator
  BY DEF Init, NothingYet, OneCreator, Idle, RunAt, Submitting
<1> QED
  BY <1>1, <1>2, <1>3 DEF TaskOK

-----------------------------------------------------------------------------
(* Counting.  Done are the steps of a run that does nothing more with its   *)
(* envelope than to remove it.  The chains are the envelopes that no such   *)
(* run holds; strays are the runs that have lost their envelope and are not *)
(* done; and the request that creates the row will start a chain.  A mishap *)
(* adds one of these at most, and nothing else adds any.                    *)

ChainsBut(Done) ==
  {e \in DOMAIN envelopes :
     \A w \in Workers : runs[w].envelope = e => runs[w].at \notin Done}

Strays(Done) ==
  {w \in Workers : runs[w].envelope = NoEnvelope /\ runs[w].at \notin Done \cup {"idle"}}

Creating ==
  IF row = NoRow \/ \E r \in Requests : requests[r].at \in {"submit", "saveSubmitted", "enqueue"}
    THEN 1 ELSE 0

Bounded(C, Z, k) ==
  IsFiniteSet(C) /\ IsFiniteSet(Z) /\ Cardinality(C) + Cardinality(Z) <= k

LEMMA BoundedLess ==
  ASSUME NEW C, NEW Z, NEW C1 \in SUBSET C, NEW Z1 \in SUBSET Z,
         NEW k \in Int, NEW l \in Int, k <= l, Bounded(C, Z, k)
  PROVE  Bounded(C1, Z1, l)
  BY FS_Subset, FS_CardinalityType DEF Bounded

LEMMA BoundedMore ==
  ASSUME NEW C, NEW Z, NEW x, NEW k \in Int, Bounded(C, Z, k)
  PROVE  Bounded(C \cup {x}, Z, k + 1) /\ Bounded(C, Z \cup {x}, k + 1)
<1>1. IsFiniteSet(C) /\ IsFiniteSet(Z) /\ Cardinality(C) + Cardinality(Z) <= k
  BY DEF Bounded
<1>2. /\ IsFiniteSet(C \cup {x}) /\ IsFiniteSet(Z \cup {x})
      /\ Cardinality(C \cup {x}) <= Cardinality(C) + 1
      /\ Cardinality(Z \cup {x}) <= Cardinality(Z) + 1
  <2>1. /\ IsFiniteSet(C \cup {x})
        /\ Cardinality(C \cup {x}) = IF x \in C THEN Cardinality(C) ELSE Cardinality(C) + 1
    BY <1>1, FS_AddElement
  <2>2. /\ IsFiniteSet(Z \cup {x})
        /\ Cardinality(Z \cup {x}) = IF x \in Z THEN Cardinality(Z) ELSE Cardinality(Z) + 1
    BY <1>1, FS_AddElement
  <2>3. Cardinality(C) \in Nat /\ Cardinality(Z) \in Nat
    BY <1>1, FS_CardinalityType
  <2> QED
    BY <2>1, <2>2, <2>3
<1>3. /\ Cardinality(C) \in Nat /\ Cardinality(Z) \in Nat
      /\ Cardinality(C \cup {x}) \in Nat /\ Cardinality(Z \cup {x}) \in Nat
  BY <1>1, <1>2, FS_CardinalityType
<1> QED
  BY <1>1, <1>2, <1>3 DEF Bounded

LEMMA BoundedRemove ==
  ASSUME NEW C, NEW Z, NEW x, NEW k \in Int, Bounded(C, Z, k)
  PROVE  /\ x \in C => Bounded(C \ {x}, Z, k - 1)
         /\ x \in Z => Bounded(C, Z \ {x}, k - 1)
<1>1. IsFiniteSet(C) /\ IsFiniteSet(Z) /\ Cardinality(C) + Cardinality(Z) <= k
  BY DEF Bounded
<1>2. /\ IsFiniteSet(C \ {x}) /\ IsFiniteSet(Z \ {x})
      /\ x \in C => Cardinality(C \ {x}) = Cardinality(C) - 1
      /\ x \in Z => Cardinality(Z \ {x}) = Cardinality(Z) - 1
  BY <1>1, FS_RemoveElement
<1>3. Cardinality(C) \in Nat /\ Cardinality(Z) \in Nat
  BY <1>1, FS_CardinalityType
<1> QED
  BY <1>1, <1>2, <1>3 DEF Bounded

(* A run that goes on.                                                      *)
LEMMA MoveCounts ==
  ASSUME NEW w \in Workers, ~RunAt(w, "idle"), Moves(w), UNCHANGED envelopes,
         NEW Done, runs[w].at \in Done => runs'[w].at \in Done
  PROVE  ChainsBut(Done)' \subseteq ChainsBut(Done) /\ Strays(Done)' \subseteq Strays(Done)
  BY DEF ChainsBut, Strays, Moves, RunAt

(* A run that may have done with its envelope and returns to it.            *)
LEMMA ReturnCounts ==
  ASSUME TaskOK, NEW w \in Workers, ~RunAt(w, "idle"), Moves(w), UNCHANGED envelopes, NEW Done
  PROVE  \/ /\ ChainsBut(Done)' \subseteq ChainsBut(Done) \cup {runs[w].envelope}
            /\ Strays(Done)' \subseteq Strays(Done)
         \/ /\ ChainsBut(Done)' \subseteq ChainsBut(Done)
            /\ Strays(Done)' \subseteq Strays(Done) \cup {w}
<1>1. CASE runs[w].envelope = NoEnvelope
  <2>1. NoEnvelope \notin DOMAIN envelopes
    BY DEF TaskOK, EnvelopesHeld, NoEnvelope
  <2> QED
    BY <1>1, <2>1 DEF ChainsBut, Strays, Moves, RunAt
<1>2. CASE runs[w].envelope # NoEnvelope
  BY <1>2 DEF ChainsBut, Strays, Moves, RunAt
<1> QED
  BY <1>1, <1>2

LEMMA DeliverCounts ==
  ASSUME TaskOK, NEW w \in Workers, NEW e \in 1..MaxEnvelopes, Deliver(w, e), NEW Done
  PROVE  ChainsBut(Done)' \subseteq ChainsBut(Done) /\ Strays(Done)' \subseteq Strays(Done)
<1>1. /\ \A v \in Workers \ {w} : runs'[v] = runs[v]
      /\ runs'[w].envelope = e /\ runs[w].envelope # e /\ e # NoEnvelope
      /\ DOMAIN envelopes' = DOMAIN envelopes
  BY TaskAssumption DEF Deliver, TaskOK, TaskTypes, Held, Run, NoEnvelope
<1>2. runs[w].envelope = NoEnvelope /\ runs[w].at = "idle"
  BY DEF Deliver, TaskOK, EnvelopesHeld, Idle, RunAt
<1>3. NoEnvelope \notin DOMAIN envelopes
  BY DEF TaskOK, EnvelopesHeld, NoEnvelope
<1> QED
  BY <1>1, <1>2, <1>3 DEF ChainsBut, Strays

LEMMA EndCounts ==
  ASSUME TaskOK, NEW w \in Workers, ~RunAt(w, "idle"), runs' = [runs EXCEPT ![w] = Idle],
         UNCHANGED envelopes \/ Remove(runs[w].envelope), NEW Done
  PROVE  /\ ChainsBut(Done)' \subseteq ChainsBut(Done) \cup {runs[w].envelope}
         /\ Strays(Done)' \subseteq Strays(Done)
         /\ Remove(runs[w].envelope) \/ runs[w].at \notin Done =>
              ChainsBut(Done)' \subseteq ChainsBut(Done)
<1>1. /\ \A v \in Workers \ {w} : runs'[v] = runs[v]
      /\ runs'[w] = Idle
  BY DEF TaskOK, TaskTypes
<1>2. DOMAIN envelopes' \subseteq DOMAIN envelopes
  BY DEF Remove
<1>3. Remove(runs[w].envelope) => runs[w].envelope \notin DOMAIN envelopes'
  BY DEF Remove
<1> QED
  BY <1>1, <1>2, <1>3 DEF ChainsBut, Strays, Idle

(* The copy that a stray releases takes its place.                          *)
LEMMA CopyCounts ==
  ASSUME TaskOK, NEW w \in Workers, ~RunAt(w, "idle"), runs' = [runs EXCEPT ![w] = Idle],
         runs[w].envelope = NoEnvelope, Enqueue(runs[w].attempts),
         NEW Done, runs[w].at \notin Done
  PROVE  /\ w \in Strays(Done)
         /\ ChainsBut(Done)' \subseteq ChainsBut(Done) \cup {NewEnvelope}
         /\ Strays(Done)' \subseteq Strays(Done) \ {w}
<1>1. /\ \A v \in Workers \ {w} : runs'[v] = runs[v]
      /\ runs'[w] = Idle
  BY DEF TaskOK, TaskTypes
<1>2. /\ DOMAIN envelopes' = DOMAIN envelopes \cup {NewEnvelope}
      /\ NoEnvelope \notin DOMAIN envelopes
  <2>1. DOMAIN envelopes \subseteq 1..MaxEnvelopes
    BY DEF TaskOK, EnvelopesHeld
  <2> QED
    BY <2>1, EnqueuedIsNew DEF NoEnvelope
<1> QED
  BY <1>1, <1>2 DEF ChainsBut, Strays, Idle, RunAt

LEMMA OutlivesCounts ==
  ASSUME TaskOK, NEW w \in Workers, OutlivesReservation(w), NEW Done
  PROVE  \/ /\ ChainsBut(Done)' \subseteq ChainsBut(Done) \cup {runs[w].envelope}
            /\ Strays(Done)' \subseteq Strays(Done)
         \/ /\ ChainsBut(Done)' \subseteq ChainsBut(Done)
            /\ Strays(Done)' \subseteq Strays(Done) \cup {w}
<1>1. /\ \A v \in Workers \ {w} : runs'[v] = runs[v]
      /\ runs'[w].envelope = NoEnvelope /\ runs'[w].at = runs[w].at
      /\ DOMAIN envelopes' \subseteq DOMAIN envelopes /\ runs[w].envelope # NoEnvelope
  BY DEF OutlivesReservation, Remove, TaskOK, TaskTypes
<1> QED
  BY <1>1 DEF ChainsBut, Strays

(* A follow-up is a chain of its own.                                       *)
LEMMA PublishCounts ==
  ASSUME TaskOK, NEW w \in Workers, ~RunAt(w, "idle"), Publish, Moves(w), NEW Done
  PROVE  /\ (runs[w].at \in Done => runs'[w].at \in Done) =>
              /\ ChainsBut(Done)' \subseteq ChainsBut(Done) \cup {NewEnvelope}
              /\ Strays(Done)' \subseteq Strays(Done)
         /\ runs[w].at \notin Done /\ runs'[w].at \in Done =>
              \/ /\ runs[w].envelope \in ChainsBut(Done)
                 /\ ChainsBut(Done)' \subseteq (ChainsBut(Done) \ {runs[w].envelope}) \cup {NewEnvelope}
                 /\ Strays(Done)' \subseteq Strays(Done)
              \/ /\ w \in Strays(Done)
                 /\ ChainsBut(Done)' \subseteq ChainsBut(Done) \cup {NewEnvelope}
                 /\ Strays(Done)' \subseteq Strays(Done) \ {w}
<1>1. /\ DOMAIN envelopes' = DOMAIN envelopes \cup {NewEnvelope}
      /\ NewEnvelope \notin DOMAIN envelopes /\ NewEnvelope # NoEnvelope
  BY NewEnvelopeIsNew DEF TaskOK, EnvelopesHeld
<1>2. /\ \A v \in Workers \ {w} : runs'[v] = runs[v]
      /\ runs'[w].envelope = runs[w].envelope
  BY DEF Moves
<1>3. \A v \in Workers : runs[v].envelope # NewEnvelope
  BY <1>1 DEF TaskOK, EnvelopesHeld
<1>4. NoEnvelope \notin DOMAIN envelopes
  BY DEF TaskOK, EnvelopesHeld, NoEnvelope
<1>5. ASSUME runs[w].at \in Done => runs'[w].at \in Done
      PROVE  /\ ChainsBut(Done)' \subseteq ChainsBut(Done) \cup {NewEnvelope}
             /\ Strays(Done)' \subseteq Strays(Done)
  BY <1>1, <1>2, <1>3, <1>5 DEF ChainsBut, Strays, RunAt
<1>6. ASSUME runs[w].at \notin Done /\ runs'[w].at \in Done
      PROVE  \/ /\ runs[w].envelope \in ChainsBut(Done)
                /\ ChainsBut(Done)' \subseteq (ChainsBut(Done) \ {runs[w].envelope}) \cup {NewEnvelope}
                /\ Strays(Done)' \subseteq Strays(Done)
             \/ /\ w \in Strays(Done)
                /\ ChainsBut(Done)' \subseteq ChainsBut(Done) \cup {NewEnvelope}
                /\ Strays(Done)' \subseteq Strays(Done) \ {w}
  <2>1. CASE runs[w].envelope = NoEnvelope
    BY <1>1, <1>2, <1>3, <1>4, <1>6, <2>1 DEF ChainsBut, Strays, RunAt
  <2>2. CASE runs[w].envelope # NoEnvelope
    <3>1. \A v \in Workers : runs[v].envelope = runs[w].envelope => v = w
      BY <2>2 DEF TaskOK, EnvelopesHeld
    <3> QED
      BY <1>1, <1>2, <1>3, <1>4, <1>6, <2>2, <3>1 DEF TaskOK, EnvelopesHeld, ChainsBut, Strays, RunAt
  <2> QED
    BY <2>1, <2>2
<1> QED
  BY <1>5, <1>6

(* What a step does to the number of chains and strays.                     *)
AtMostSame(Done) ==
  \/ ChainsBut(Done)' \subseteq ChainsBut(Done) /\ Strays(Done)' \subseteq Strays(Done)
  \/ \E x, y : /\ x \in ChainsBut(Done)
               /\ ChainsBut(Done)' \subseteq (ChainsBut(Done) \ {x}) \cup {y}
               /\ Strays(Done)' \subseteq Strays(Done)
  \/ \E x, y : /\ x \in Strays(Done)
               /\ ChainsBut(Done)' \subseteq ChainsBut(Done) \cup {y}
               /\ Strays(Done)' \subseteq Strays(Done) \ {x}

AtMostOneMore(Done) ==
  \/ \E x : /\ ChainsBut(Done)' \subseteq ChainsBut(Done) \cup {x}
            /\ Strays(Done)' \subseteq Strays(Done)
  \/ \E x : /\ ChainsBut(Done)' \subseteq ChainsBut(Done)
            /\ Strays(Done)' \subseteq Strays(Done) \cup {x}

OneLess(Done) ==
  \/ \E x : /\ x \in ChainsBut(Done)
            /\ ChainsBut(Done)' \subseteq ChainsBut(Done) \ {x}
            /\ Strays(Done)' \subseteq Strays(Done)
  \/ \E x : /\ x \in Strays(Done)
            /\ ChainsBut(Done)' \subseteq ChainsBut(Done)
            /\ Strays(Done)' \subseteq Strays(Done) \ {x}

(* The bound, for what has been counted (results) besides the chains.       *)
Accounted(Done, counted) ==
  Bounded(ChainsBut(Done), Strays(Done), 1 + mishaps - Creating - counted)

LEMMA SameBounded ==
  ASSUME NEW Done, AtMostSame(Done), NEW k \in Int, Bounded(ChainsBut(Done), Strays(Done), k)
  PROVE  Bounded(ChainsBut(Done)', Strays(Done)', k)
<1> DEFINE C == ChainsBut(Done)
           Z == Strays(Done)
<1>1. CASE C' \subseteq C /\ Z' \subseteq Z
  BY <1>1, BoundedLess
<1>2. ASSUME NEW x \in C, NEW y, C' \subseteq (C \ {x}) \cup {y}, Z' \subseteq Z
      PROVE  Bounded(C', Z', k)
  <2>1. Bounded(C \ {x}, Z, k - 1)
    BY BoundedRemove
  <2> HIDE DEF C, Z
  <2>2. Bounded((C \ {x}) \cup {y}, Z, k)
    <3>1. PICK j \in Int : j = k - 1
      OBVIOUS
    <3>2. j + 1 = k
      BY <3>1
    <3>3. Bounded(C \ {x}, Z, j)
      BY <2>1, <3>1
    <3>4. Bounded((C \ {x}) \cup {y}, Z, j + 1)
      BY <3>3, BoundedMore
    <3> QED
      BY <3>2, <3>4
  <2> QED
    BY <1>2, <2>2, BoundedLess
<1>3. ASSUME NEW x \in Z, NEW y, C' \subseteq C \cup {y}, Z' \subseteq Z \ {x}
      PROVE  Bounded(C', Z', k)
  <2>1. Bounded(C, Z \ {x}, k - 1)
    BY BoundedRemove
  <2> HIDE DEF C, Z
  <2>2. Bounded(C \cup {y}, Z \ {x}, k)
    <3>1. PICK j \in Int : j = k - 1
      OBVIOUS
    <3>2. j + 1 = k
      BY <3>1
    <3>3. Bounded(C, Z \ {x}, j)
      BY <2>1, <3>1
    <3>4. Bounded(C \cup {y}, Z \ {x}, j + 1)
      BY <3>3, BoundedMore
    <3> QED
      BY <3>2, <3>4
  <2> QED
    BY <1>3, <2>2, BoundedLess
<1> QED
  BY <1>1, <1>2, <1>3 DEF AtMostSame

LEMMA MoreBounded ==
  ASSUME NEW Done, AtMostSame(Done) \/ AtMostOneMore(Done), NEW k \in Int,
         Bounded(ChainsBut(Done), Strays(Done), k)
  PROVE  Bounded(ChainsBut(Done)', Strays(Done)', k + 1)
<1> DEFINE C == ChainsBut(Done)
           Z == Strays(Done)
<1>1. CASE AtMostSame(Done)
  <2>1. Bounded(C', Z', k)
    BY <1>1, SameBounded
  <2>2. k + 1 \in Int /\ k <= k + 1
    OBVIOUS
  <2> HIDE DEF C, Z
  <2>3. C' \in SUBSET C' /\ Z' \in SUBSET Z'
    OBVIOUS
  <2>4. Bounded(C', Z', k + 1)
    BY <2>1, <2>2, <2>3, BoundedLess
  <2> QED
    BY <2>4 DEF C, Z
<1>2. ASSUME NEW x, C' \subseteq C \cup {x}, Z' \subseteq Z
      PROVE  Bounded(C', Z', k + 1)
  <2>1. Bounded(C \cup {x}, Z, k + 1)
    BY BoundedMore
  <2> HIDE DEF C, Z
  <2> QED
    BY <1>2, <2>1, BoundedLess
<1>3. ASSUME NEW x, C' \subseteq C, Z' \subseteq Z \cup {x}
      PROVE  Bounded(C', Z', k + 1)
  <2>1. Bounded(C, Z \cup {x}, k + 1)
    BY BoundedMore
  <2> HIDE DEF C, Z
  <2> QED
    BY <1>3, <2>1, BoundedLess
<1> QED
  BY <1>1, <1>2, <1>3 DEF AtMostOneMore

LEMMA LessBounded ==
  ASSUME NEW Done, OneLess(Done), NEW k \in Int, Bounded(ChainsBut(Done), Strays(Done), k)
  PROVE  Bounded(ChainsBut(Done)', Strays(Done)', k - 1)
<1> DEFINE C == ChainsBut(Done)
           Z == Strays(Done)
<1>1. ASSUME NEW x \in C, C' \subseteq C \ {x}, Z' \subseteq Z
      PROVE  Bounded(C', Z', k - 1)
  <2>1. Bounded(C \ {x}, Z, k - 1)
    BY BoundedRemove
  <2> HIDE DEF C, Z
  <2> QED
    BY <1>1, <2>1, BoundedLess
<1>2. ASSUME NEW x \in Z, C' \subseteq C, Z' \subseteq Z \ {x}
      PROVE  Bounded(C', Z', k - 1)
  <2>1. Bounded(C, Z \ {x}, k - 1)
    BY BoundedRemove
  <2> HIDE DEF C, Z
  <2> QED
    BY <1>2, <2>1, BoundedLess
<1> QED
  BY <1>1, <1>2 DEF OneLess

(* A step keeps the account if it adds no more than it pays for: with a     *)
(* mishap, with the creation of the row, or with the chain that it ends.    *)
LEMMA AccountKept ==
  ASSUME TaskOK, NEW Done, NEW n \in Nat, NEW m \in Nat, Accounted(Done, n),
         \/ AtMostSame(Done) /\ m = n /\ Creating' <= Creating /\ mishaps' = mishaps
         \/ AtMostOneMore(Done) /\ m = n /\ Creating' < Creating /\ mishaps' = mishaps
         \/ OneLess(Done) /\ m = n + 1 /\ Creating' <= Creating /\ mishaps' = mishaps
         \/ AtMostSame(Done) /\ m = n + 1 /\ Creating' <= Creating /\ mishaps' = mishaps + 1
         \/ /\ AtMostSame(Done) \/ AtMostOneMore(Done)
            /\ m = n /\ Creating' <= Creating /\ mishaps' = mishaps + 1
  PROVE  Bounded(ChainsBut(Done)', Strays(Done)', 1 + mishaps' - Creating' - m)
<1> DEFINE C == ChainsBut(Done)
           Z == Strays(Done)
           k == 1 + mishaps - Creating - n
           l == 1 + mishaps' - Creating' - m
<1>1. mishaps \in Nat /\ Creating \in 0..1 /\ Creating' \in 0..1
  BY DEF TaskOK, TaskTypes, Creating
<1>2. k \in Int /\ Bounded(C, Z, k)
  BY <1>1 DEF Accounted
<1>3. \/ AtMostSame(Done) /\ k <= l
      \/ (AtMostSame(Done) \/ AtMostOneMore(Done)) /\ k + 1 <= l
      \/ OneLess(Done) /\ k - 1 <= l
  <2> HIDE DEF C, Z
  <2> QED
    BY <1>1
<1>4. l \in Int
  BY <1>1, <1>3
<1> HIDE DEF k, l
<1>5. \E j \in Int : j <= l /\ Bounded(C', Z', j)
  BY <1>2, <1>3, SameBounded, MoreBounded, LessBounded
<1> HIDE DEF C, Z
<1>6. Bounded(C', Z', l)
  BY <1>4, <1>5, BoundedLess
<1> QED
  BY <1>6 DEF l, C, Z

LEMMA CreatingKept ==
  ASSUME UNCHANGED requests, row # NoRow => row' # NoRow
  PROVE  Creating' <= Creating
  BY DEF Creating

LEMMA EnqueuedCounts ==
  ASSUME TaskOK, Publish, UNCHANGED runs, NEW Done
  PROVE  AtMostOneMore(Done)
<1>1. DOMAIN envelopes' = DOMAIN envelopes \cup {NewEnvelope}
  BY NewEnvelopeIsNew DEF TaskOK, EnvelopesHeld
<1>2. /\ ChainsBut(Done)' \subseteq ChainsBut(Done) \cup {NewEnvelope}
      /\ Strays(Done)' \subseteq Strays(Done)
  BY <1>1 DEF ChainsBut, Strays
<1> QED
  BY <1>2 DEF AtMostOneMore

(* A request starts a chain when it enqueues the task, and none otherwise.  *)
LEMMA RequestCounts ==
  ASSUME TaskOK, NEW r \in Requests, NEW Done, RequestNext(r) \/ RequestThrows(r) \/ RequestDies(r)
  PROVE  \/ AtMostSame(Done) /\ Creating' <= Creating /\ mishaps' = mishaps
         \/ AtMostOneMore(Done) /\ Creating' < Creating /\ mishaps' = mishaps
         \/ /\ AtMostSame(Done) \/ AtMostOneMore(Done)
            /\ Creating' <= Creating /\ mishaps' = mishaps + 1
<1> USE DEF RequestAt, Submitting, RequestSteps
<1> DEFINE Creators == {"submit", "saveSubmitted", "enqueue"}
<1>1. UNCHANGED runs
  BY DEF RequestNext, Lookup, Create, SubmitToProvider, SaveSubmitted, SaveRefused, EnqueueFirst,
         SavePublished, RequestThrows, RequestDies
<1>2. UNCHANGED envelopes => AtMostSame(Done)
  BY <1>1 DEF AtMostSame, ChainsBut, Strays
<1>3. ASSUME NEW step \in RequestSteps, NEW record, RequestGoes(r, step, record),
             step \in Creators => requests[r].at \in Creators \/ row = NoRow
      PROVE  Creating' <= Creating
  <2>1. /\ \A s \in Requests \ {r} : requests'[s] = requests[s]
        /\ requests'[r].at = step
    BY <1>3 DEF RequestGoes, TaskOK, TaskTypes, Request
  <2>2. row # NoRow => row' # NoRow
    <3>1. CASE RequestNext(r)
      <4>1. \/ row' = row \/ row = NoRow
            \/ row' = requests[r].record /\ requests[r].at \in Submitting
        BY <3>1 DEF RequestNext, Lookup, Create, SubmitToProvider, SaveSubmitted, SaveRefused,
                    EnqueueFirst, SavePublished, Save
      <4> QED
        BY <4>1 DEF TaskOK, OneCreator
    <3>2. CASE RequestThrows(r)
      <4>1. row' = row \/ (row' = requests[r].record /\ requests[r].at \in Submitting)
        BY <3>2 DEF RequestThrows, Save
      <4> QED
        BY <4>1 DEF TaskOK, OneCreator
    <3> QED
      BY <3>1, <3>2 DEF RequestDies
  <2> QED
    BY <1>3, <2>1, <2>2 DEF Creating
<1>4. CASE Lookup(r)
  BY <1>2, <1>3, <1>4 DEF Lookup
<1>5. CASE Create(r)
  BY <1>2, <1>3, <1>5 DEF Create
<1>6. CASE SubmitToProvider(r)
  BY <1>2, <1>3, <1>6 DEF SubmitToProvider
<1>7. CASE SaveSubmitted(r) \/ SaveRefused(r) \/ SavePublished(r)
  BY <1>2, <1>3, <1>7 DEF SaveSubmitted, SaveRefused, SavePublished
<1>8. CASE EnqueueFirst(r)
  <2>1. /\ \A s \in Requests \ {r} : requests'[s] = requests[s]
        /\ requests'[r].at = "savePublished" /\ UNCHANGED row
        /\ requests[r].at = "enqueue"
    BY <1>8 DEF EnqueueFirst, TaskOK, TaskTypes, Request
  <2>2. \A s \in Requests \ {r} : requests[s].at \notin Creators
    BY <2>1 DEF TaskOK, OneCreator
  <2>3. row # NoRow
    BY <2>1 DEF TaskOK, OneCreator
  <2>4. Creating' = 0 /\ Creating = 1
    BY <2>1, <2>2, <2>3 DEF Creating
  <2> QED
    BY <1>1, <1>8, <2>4, EnqueuedCounts DEF EnqueueFirst
<1>9. CASE RequestThrows(r) \/ RequestDies(r)
  <2>1. mishaps' = mishaps + 1
    BY <1>9 DEF RequestThrows, RequestDies, Mishap
  <2>2. AtMostSame(Done) \/ AtMostOneMore(Done)
    BY <1>1, <1>2, <1>9, EnqueuedCounts DEF RequestThrows, RequestDies
  <2>3. Creating' <= Creating
    BY <1>3, <1>9 DEF RequestThrows, RequestDies
  <2> QED
    BY <2>1, <2>2, <2>3
<1> QED
  BY <1>4, <1>5, <1>6, <1>7, <1>8, <1>9 DEF RequestNext
-----------------------------------------------------------------------------
(* The account of a task: its chains, and its results.  Published are the   *)
(* steps of a run that publishes nothing more for its envelope.             *)
EndsChain == {"saveFollowup", "ack"}

Counted(Published) == Accounted(EndsChain, 0) /\ Accounted(Published, results)

(* A step that publishes nothing pays for what it adds.                     *)
Pays(Done) ==
  \/ AtMostSame(Done) /\ Creating' <= Creating /\ mishaps' = mishaps
  \/ AtMostOneMore(Done) /\ Creating' < Creating /\ mishaps' = mishaps
  \/ /\ AtMostSame(Done) \/ AtMostOneMore(Done)
     /\ Creating' <= Creating /\ mishaps' = mishaps + 1

LEMMA PaidCounted ==
  ASSUME TaskOK, NEW Published, Counted(Published), UNCHANGED results,
         Pays(EndsChain), Pays(Published)
  PROVE  Counted(Published)'
<1>1. results \in Nat
  BY DEF TaskOK, TaskTypes
<1>2. Accounted(EndsChain, 0)'
  <2>1. Bounded(ChainsBut(EndsChain)', Strays(EndsChain)', 1 + mishaps' - Creating' - 0)
    BY AccountKept DEF Counted, Pays
  <2> QED
    BY <2>1 DEF Accounted
<1>3. Accounted(Published, results)'
  <2>1. Bounded(ChainsBut(Published)', Strays(Published)', 1 + mishaps' - Creating' - results)
    BY <1>1, AccountKept DEF Counted, Pays
  <2> QED
    BY <2>1 DEF Accounted
<1> QED
  BY <1>2, <1>3 DEF Counted

(* A step of a run that goes on, at no cost or at that of a mishap.         *)
LEMMA MoveCounted ==
  ASSUME TaskOK, NEW Published, Counted(Published), NEW w \in Workers, ~RunAt(w, "idle"), Moves(w),
         UNCHANGED <<envelopes, requests, results>>, row' \in Records \/ UNCHANGED row,
         \/ mishaps' = mishaps + 1
         \/ /\ mishaps' = mishaps
            /\ runs[w].at \in EndsChain => runs'[w].at \in EndsChain
            /\ runs[w].at \in Published => runs'[w].at \in Published
  PROVE  Counted(Published)'
<1>1. Creating' <= Creating
  BY CreatingKept, NoRowAssumption
<1>2. CASE mishaps' = mishaps + 1
  <2>1. AtMostOneMore(EndsChain) /\ AtMostOneMore(Published)
    BY ReturnCounts DEF AtMostOneMore
  <2> QED
    BY <1>1, <1>2, <2>1, PaidCounted DEF Pays
<1>3. CASE /\ mishaps' = mishaps
           /\ runs[w].at \in EndsChain => runs'[w].at \in EndsChain
           /\ runs[w].at \in Published => runs'[w].at \in Published
  <2>1. AtMostSame(EndsChain) /\ AtMostSame(Published)
    BY <1>3, MoveCounts DEF AtMostSame
  <2> QED
    BY <1>1, <1>3, <2>1, PaidCounted DEF Pays
<1> QED
  BY <1>2, <1>3

(* A step that publishes a result: the chain has paid for it, or a mishap.  *)
LEMMA ResultCounted ==
  ASSUME TaskOK, NEW Published, Counted(Published), NEW w \in Workers, ~RunAt(w, "idle"), Moves(w),
         UNCHANGED <<envelopes, requests, row>>, results' = results + 1,
         runs[w].at \notin EndsChain, runs[w].at \notin Published,
         \/ mishaps' = mishaps + 1
         \/ mishaps' = mishaps /\ runs'[w].at \in Published
  PROVE  Counted(Published)'
<1>1. results \in Nat /\ results' \in Nat
  BY DEF TaskOK, TaskTypes
<1>2. Creating' <= Creating
  BY CreatingKept
<1>3. AtMostSame(EndsChain) /\ AtMostSame(Published)
  BY MoveCounts DEF AtMostSame
<1>4. runs'[w].at \in Published => OneLess(Published)
  <2>1. CASE runs[w].envelope = NoEnvelope
    <3>1. NoEnvelope \notin DOMAIN envelopes
      BY DEF TaskOK, EnvelopesHeld, NoEnvelope
    <3> QED
      BY <2>1, <3>1 DEF OneLess, ChainsBut, Strays, Moves, RunAt
  <2>2. CASE runs[w].envelope # NoEnvelope
    <3>1. /\ runs[w].envelope \in DOMAIN envelopes
          /\ \A v \in Workers : runs[v].envelope = runs[w].envelope => v = w
      BY <2>2 DEF TaskOK, EnvelopesHeld
    <3>2. runs[w].envelope \in ChainsBut(Published)
      BY <3>1 DEF ChainsBut
    <3>3. runs'[w].at \in Published =>
            /\ ChainsBut(Published)' \subseteq ChainsBut(Published) \ {runs[w].envelope}
            /\ Strays(Published)' \subseteq Strays(Published)
      BY <2>2, <3>1 DEF ChainsBut, Strays, Moves, RunAt
    <3> QED
      BY <3>2, <3>3 DEF OneLess
  <2> QED
    BY <2>1, <2>2
<1>5. Accounted(EndsChain, 0)'
  <2>1. Bounded(ChainsBut(EndsChain)', Strays(EndsChain)', 1 + mishaps' - Creating' - 0)
    BY <1>2, <1>3, AccountKept DEF Counted
  <2> QED
    BY <2>1 DEF Accounted
<1>6. Accounted(Published, results)'
  <2>1. Bounded(ChainsBut(Published)', Strays(Published)', 1 + mishaps' - Creating' - results')
    BY <1>1, <1>2, <1>3, <1>4, AccountKept DEF Counted
  <2> QED
    BY <2>1 DEF Accounted
<1> QED
  BY <1>5, <1>6 DEF Counted

LEMMA RequestCounted ==
  ASSUME TaskOK, NEW Published, Counted(Published),
         NEW r \in Requests, RequestNext(r) \/ RequestThrows(r) \/ RequestDies(r)
  PROVE  Counted(Published)'
<1>1. UNCHANGED results
  BY DEF RequestNext, Lookup, Create, SubmitToProvider, SaveSubmitted, SaveRefused, EnqueueFirst,
         SavePublished, RequestThrows, RequestDies
<1>2. Pays(EndsChain) /\ Pays(Published)
  BY RequestCounts DEF Pays
<1> QED
  BY <1>1, <1>2, PaidCounted

(* The envelope of a run is handed out, removed or returned, or lost.       *)
LEMMA EnvelopeCounted ==
  ASSUME TaskOK, NEW Published, "release" \notin Published, Counted(Published), NEW w \in Workers,
         \/ \E e \in 1..MaxEnvelopes : Deliver(w, e)
         \/ AckEnvelope(w) \/ ReleaseEnvelope(w) \/ Crash(w) \/ OutlivesReservation(w)
  PROVE  Counted(Published)'
<1>1. UNCHANGED <<row, requests, results>>
  BY DEF Deliver, AckEnvelope, ReleaseEnvelope, Crash, OutlivesReservation
<1>2. Creating' <= Creating
  BY <1>1, CreatingKept
<1>3. ASSUME NEW e \in 1..MaxEnvelopes, Deliver(w, e), NEW Done
      PROVE  Pays(Done)
  <2>1. AtMostSame(Done)
    BY <1>3, DeliverCounts DEF AtMostSame
  <2> QED
    BY <1>2, <1>3, <2>1 DEF Deliver, Mishap, Pays
<1>4. ASSUME OutlivesReservation(w), NEW Done
      PROVE  Pays(Done)
  <2>1. AtMostOneMore(Done)
    BY <1>4, OutlivesCounts DEF AtMostOneMore
  <2> QED
    BY <1>2, <1>4, <2>1 DEF OutlivesReservation, Mishap, Pays
<1>5. ASSUME AckEnvelope(w) \/ ReleaseEnvelope(w), NEW Done, "release" \notin Done
      PROVE  Pays(Done)
  <2>1. /\ ~RunAt(w, "idle") /\ runs' = [runs EXCEPT ![w] = Idle] /\ mishaps' = mishaps
        /\ Remove(runs[w].envelope) \/ (runs[w].at \notin Done /\ Settled(w))
    BY <1>5, ReleaseSettles DEF AckEnvelope, ReleaseEnvelope, RunAt
  <2>2. AtMostSame(Done)
    <3>1. CASE Remove(runs[w].envelope) \/ (runs[w].at \notin Done /\ UNCHANGED envelopes)
      BY <2>1, <3>1, EndCounts DEF AtMostSame
    <3>2. CASE /\ runs[w].at \notin Done
               /\ runs[w].envelope = NoEnvelope /\ Enqueue(runs[w].attempts)
      BY <2>1, <3>2, CopyCounts DEF AtMostSame
    <3> QED
      BY <2>1, <3>1, <3>2 DEF Settled
  <2> QED
    BY <1>2, <2>1, <2>2 DEF Pays
<1>6. ASSUME Crash(w), NEW Done
      PROVE  Pays(Done)
  <2>1. /\ ~RunAt(w, "idle") /\ runs' = [runs EXCEPT ![w] = Idle]
        /\ UNCHANGED envelopes /\ mishaps' = mishaps + 1
    BY <1>6 DEF Crash, Mishap
  <2>2. AtMostOneMore(Done)
    BY <2>1, EndCounts DEF AtMostOneMore
  <2> QED
    BY <1>2, <2>1, <2>2 DEF Pays
<1>7. Pays(EndsChain) /\ Pays(Published)
  BY <1>3, <1>4, <1>5, <1>6 DEF EndsChain
<1> QED
  BY <1>1, <1>7, PaidCounted

LEMMA FollowUpMoves ==
  ASSUME TaskOK, NEW w \in Workers, FollowUp(w)
  PROVE  /\ runs[w].at = "followup" /\ Publish
         /\ Moves(w) /\ runs'[w].at = "saveFollowup" /\ runs'[w].record = runs[w].record
         /\ runs'[w].enqueued = NewEnvelope /\ runs'[w].job = runs[w].job
         /\ UNCHANGED <<row, jobs, results, requests, mishaps, failedJobs>>
<1>1. /\ runs[w].at = "followup" /\ Publish
      /\ runs' = [runs EXCEPT ![w].at = "saveFollowup", ![w].enqueued = NewEnvelope]
      /\ UNCHANGED <<row, jobs, results, requests, mishaps, failedJobs>>
  BY DEF FollowUp, RunAt
<1>2. NewEnvelope \in Nat
  BY <1>1, NewEnvelopeIsNew DEF TaskOK, EnvelopesHeld
<1>3. runs \in [Workers -> Run] /\ runs[w] \in Run
  BY DEF TaskOK, TaskTypes
<1>4. /\ [runs[w] EXCEPT !.at = "saveFollowup", !.enqueued = NewEnvelope] \in Run
      /\ runs'[w] = [runs[w] EXCEPT !.at = "saveFollowup", !.enqueued = NewEnvelope]
  BY <1>1, <1>2, <1>3 DEF Run, Steps
<1> QED
  BY <1>1, <1>3, <1>4 DEF Moves, Run

(* A follow-up takes the place of the chain that goes on in it, or adds one *)
(* if the run then fails.                                                   *)
LEMMA FollowUpCounted ==
  ASSUME TaskOK, NEW Published, Counted(Published), NEW w \in Workers, runs[w].at = "followup",
         Publish, Moves(w), UNCHANGED <<row, requests, results>>,
         "followup" \notin Published, "saveFollowup" \in Published,
         \/ mishaps' = mishaps /\ runs'[w].at = "saveFollowup"
         \/ mishaps' = mishaps + 1 /\ runs'[w].at = "fail"
  PROVE  Counted(Published)'
<1>1. Creating' <= Creating
  BY CreatingKept
<1>2. ASSUME NEW Done, "followup" \notin Done, "saveFollowup" \in Done
      PROVE  Pays(Done)
  <2>1. ~RunAt(w, "idle") /\ runs[w].at \notin Done
    BY <1>2 DEF RunAt
  <2>2. CASE runs'[w].at = "saveFollowup"
    <3>1. \/ /\ runs[w].envelope \in ChainsBut(Done)
             /\ ChainsBut(Done)' \subseteq (ChainsBut(Done) \ {runs[w].envelope}) \cup {NewEnvelope}
             /\ Strays(Done)' \subseteq Strays(Done)
          \/ /\ w \in Strays(Done)
             /\ ChainsBut(Done)' \subseteq ChainsBut(Done) \cup {NewEnvelope}
             /\ Strays(Done)' \subseteq Strays(Done) \ {w}
      BY <1>2, <2>1, <2>2, PublishCounts
    <3>2. AtMostSame(Done)
      BY <3>1 DEF AtMostSame
    <3> QED
      BY <1>1, <3>2, <2>2 DEF Pays
  <2>3. CASE mishaps' = mishaps + 1
    <3>1. /\ ChainsBut(Done)' \subseteq ChainsBut(Done) \cup {NewEnvelope}
          /\ Strays(Done)' \subseteq Strays(Done)
      BY <2>1, PublishCounts
    <3>2. AtMostOneMore(Done)
      BY <3>1 DEF AtMostOneMore
    <3> QED
      BY <1>1, <2>3, <3>2 DEF Pays
  <2> QED
    BY <2>2, <2>3
<1>3. Pays(EndsChain) /\ Pays(Published)
  BY <1>2 DEF EndsChain
<1> QED
  BY <1>3, PaidCounted

(* Steps outside the queue.                                                 *)
LEMMA StillCounted ==
  ASSUME TaskOK, NEW Published, Counted(Published), UNCHANGED <<envelopes, requests, runs, results>>,
         row' \in Records \/ UNCHANGED row, mishaps' \in {mishaps, mishaps + 1}
  PROVE  Counted(Published)'
<1>1. \A Done : AtMostSame(Done)
  BY DEF AtMostSame, ChainsBut, Strays
<1>2. Creating' <= Creating
  BY CreatingKept, NoRowAssumption
<1> QED
  BY <1>1, <1>2, PaidCounted DEF Pays

LEMMA CountedAtFirst ==
  ASSUME Init, NEW Published
  PROVE  Counted(Published)
<1>1. ASSUME NEW Done
      PROVE  ChainsBut(Done) = {} /\ Strays(Done) = {}
  BY DEF Init, ChainsBut, Strays, Idle
<1>2. 1 + mishaps - Creating - 0 = 0 /\ results = 0
  BY DEF Init, Creating
<1> QED
  BY <1>1, <1>2, FS_EmptySet DEF Counted, Accounted, Bounded

LEMMA CountedBounds ==
  ASSUME TaskOK, NEW Published, Counted(Published)
  PROVE  ChainsAccounted /\ ResultsAccounted
<1>1. /\ mishaps \in Nat /\ results \in Nat /\ Creating \in 0..1
      /\ Chains = ChainsBut(EndsChain)
  BY DEF TaskOK, TaskTypes, Creating, Chains, ChainsBut, EndsChain
<1>2. ChainsAccounted
  <2>1. /\ IsFiniteSet(Chains) /\ IsFiniteSet(Strays(EndsChain))
        /\ Cardinality(Chains) + Cardinality(Strays(EndsChain)) <= 1 + mishaps - Creating - 0
    BY <1>1 DEF Counted, Accounted, Bounded
  <2>2. Cardinality(Chains) \in Nat /\ Cardinality(Strays(EndsChain)) \in Nat
    BY <2>1, FS_CardinalityType
  <2> QED
    BY <1>1, <2>1, <2>2 DEF ChainsAccounted
<1>3. ResultsAccounted
  <2>1. /\ IsFiniteSet(ChainsBut(Published)) /\ IsFiniteSet(Strays(Published))
        /\ Cardinality(ChainsBut(Published)) + Cardinality(Strays(Published))
             <= 1 + mishaps - Creating - results
    BY DEF Counted, Accounted, Bounded
  <2>2. Cardinality(ChainsBut(Published)) \in Nat /\ Cardinality(Strays(Published)) \in Nat
    BY <2>1, FS_CardinalityType
  <2> QED
    BY <1>1, <2>1, <2>2 DEF ResultsAccounted
<1> QED
  BY <1>2, <1>3

-----------------------------------------------------------------------------
(* Who drives a task as long as runs crash and calls of a run fail.  An     *)
(* envelope drives it, unless the run that holds it has saved the outcome;  *)
(* an envelope that was enqueued waits for the save that follows, so that   *)
(* it drives the task once that save is done.                               *)
RunsOnly == Mishaps \subseteq {"crash", "store", "cancel"}

Driving ==
  {e \in DOMAIN envelopes :
     \A w \in Workers : runs[w].envelope = e => runs[w].at \notin {"record", "ack"}}

Unheld == DOMAIN envelopes \ Held

Waits ==
  /\ \A w \in Workers :
       /\ RunAt(w, "saveFollowup") => runs[w].enqueued \in Unheld
       /\ ~RunAt(w, "idle") => runs[w].envelope \in DOMAIN envelopes
  /\ \A r \in Requests :
       /\ RequestAt(r, "savePublished") => requests[r].enqueued \in Unheld
       /\ RequestAt(r, "saveRefused") => requests[r].record.status \in Terminal

Unfinished == row # NoRow /\ row.status \notin Terminal

IsDriven ==
  \/ failedJobs
  \/ \E e : e \in Driving
  \/ \E r \in Requests : StaleRequest(r)

Alive == Waits /\ (Unfinished => IsDriven)

(* A step of a run: it goes on driving the task, or leaves it finished, or  *)
(* hands it to the envelope of its follow-up.                               *)
LEMMA MoveAlive ==
  ASSUME TaskOK, Alive, NEW w \in Workers, ~RunAt(w, "idle"), Moves(w),
         runs'[w].at \notin {"idle", "saveFollowup"}, UNCHANGED <<envelopes, requests, failedJobs>>,
         \/ row'.status \in Terminal
         \/ runs'[w].at \notin {"record", "ack"}
         \/ UNCHANGED row /\ runs[w].at \in {"record", "ack"}
         \/ runs[w].at = "saveFollowup"
  PROVE  Alive'
<1>1. /\ \A v \in Workers : runs'[v].envelope = runs[v].envelope
      /\ \A v \in Workers \ {w} : runs'[v] = runs[v]
      /\ Held' = Held /\ Unheld' = Unheld
  BY DEF Moves, Held, Unheld
<1>2. Waits'
  BY <1>1 DEF Alive, Waits, RunAt, RequestAt
<1>3. /\ runs[w].envelope \in DOMAIN envelopes
      /\ \A v \in Workers : runs[v].envelope = runs[w].envelope => v = w
  <2>1. runs[w].envelope \in DOMAIN envelopes /\ DOMAIN envelopes \subseteq 1..MaxEnvelopes
    BY DEF Alive, Waits, TaskOK, EnvelopesHeld
  <2>2. runs[w].envelope # NoEnvelope
    BY <2>1 DEF NoEnvelope
  <2> QED
    BY <2>1, <2>2 DEF TaskOK, EnvelopesHeld
<1>4. CASE row'.status \in Terminal
  BY <1>2, <1>4 DEF Alive, Unfinished
<1>5. CASE runs'[w].at \notin {"record", "ack"}
  <2>1. runs[w].envelope \in Driving'
    BY <1>1, <1>3, <1>5 DEF Driving
  <2> QED
    BY <1>2, <2>1 DEF Alive, IsDriven
<1>6. CASE UNCHANGED row /\ runs[w].at \in {"record", "ack"}
  <2>1. Driving \subseteq Driving'
    BY <1>1, <1>6 DEF Driving
  <2> QED
    BY <1>2, <1>6, <2>1 DEF Alive, Unfinished, IsDriven, StaleRequest
<1>7. CASE runs[w].at = "saveFollowup"
  <2>1. runs[w].enqueued \in Unheld
    BY <1>7 DEF Alive, Waits, RunAt
  <2>2. runs[w].enqueued \in Driving'
    BY <1>1, <2>1 DEF Driving, Unheld, Held
  <2> QED
    BY <1>2, <2>2 DEF Alive, IsDriven
<1> QED
  BY <1>4, <1>5, <1>6, <1>7

LEMMA PublishAlive ==
  ASSUME TaskOK, Alive, NEW w \in Workers, runs[w].at = "followup", Publish, Moves(w),
         \/ runs'[w].at = "fail"
         \/ runs'[w].at = "saveFollowup" /\ runs'[w].enqueued = NewEnvelope,
         UNCHANGED <<row, requests, failedJobs>>
  PROVE  Alive'
<1>1. /\ NewEnvelope \in 1..MaxEnvelopes \ DOMAIN envelopes
      /\ DOMAIN envelopes' = DOMAIN envelopes \cup {NewEnvelope}
  BY NewEnvelopeIsNew DEF TaskOK, EnvelopesHeld, Publish
<1>2. \A v \in Workers : runs'[v].envelope = runs[v].envelope
  BY DEF Moves
<1>3. NewEnvelope \notin Held
  BY <1>1 DEF Held, TaskOK, EnvelopesHeld, NoEnvelope
<1>4. Unheld' = Unheld \cup {NewEnvelope}
  BY <1>1, <1>2, <1>3 DEF Unheld, Held
<1>5. Waits'
  BY <1>1, <1>2, <1>4 DEF Alive, Waits, RunAt, RequestAt, Moves
<1>6. NewEnvelope \in Driving'
  BY <1>1, <1>2, <1>3 DEF Driving, Held
<1> QED
  BY <1>5, <1>6 DEF Alive, IsDriven

LEMMA EndAlive ==
  ASSUME TaskOK, Alive, NEW w \in Workers, AckEnvelope(w) \/ ReleaseEnvelope(w) \/ Crash(w)
  PROVE  Alive'
<1>0. /\ runs \in [Workers -> Run] /\ runs[w].at # "idle"
      /\ runs' = [runs EXCEPT ![w] = Idle] /\ UNCHANGED <<row, requests>>
  BY DEF TaskOK, TaskTypes, AckEnvelope, ReleaseEnvelope, Crash, RunAt
<1>1. /\ \A v \in Workers \ {w} : runs'[v] = runs[v]
      /\ runs'[w].at = "idle" /\ runs'[w].envelope = NoEnvelope
  BY <1>0 DEF Idle
<1>2. /\ runs[w].envelope \in DOMAIN envelopes /\ NoEnvelope \notin DOMAIN envelopes
      /\ \A v \in Workers : runs[v].envelope = runs[w].envelope => v = w
  BY <1>0 DEF Alive, Waits, RunAt, TaskOK, EnvelopesHeld, NoEnvelope
<1>3. DOMAIN envelopes' \in {DOMAIN envelopes, DOMAIN envelopes \ {runs[w].envelope}}
  BY <1>2 DEF AckEnvelope, ReleaseEnvelope, ReleaseHeld, ReleaseLost, Crash, Remove
<1>4. Unheld \subseteq Unheld'
  BY <1>1, <1>2, <1>3 DEF Unheld, Held
<1>5. Waits'
  BY <1>0, <1>1, <1>2, <1>3, <1>4 DEF Alive, Waits, RunAt, RequestAt
<1>6. CASE failedJobs'
  BY <1>5, <1>6 DEF Alive, IsDriven
<1>7. CASE ~failedJobs'
  <2>1. UNCHANGED failedJobs /\ (DOMAIN envelopes' = DOMAIN envelopes \/ runs[w].at = "ack")
    BY <1>2, <1>7 DEF AckEnvelope, ReleaseEnvelope, ReleaseHeld, ReleaseLost, Crash, RunAt
  <2>2. Driving \subseteq Driving'
    BY <1>1, <1>2, <1>3, <2>1 DEF Driving
  <2> QED
    BY <1>0, <1>5, <2>1, <2>2 DEF Alive, Unfinished, IsDriven, StaleRequest
<1> QED
  BY <1>6, <1>7

LEMMA DeliverAlive ==
  ASSUME RunsOnly, TaskOK, Alive, NEW w \in Workers, NEW e \in 1..MaxEnvelopes, Deliver(w, e)
  PROVE  Alive'
<1>0. /\ runs \in [Workers -> Run] /\ runs[w] \in Run
      /\ e \in DOMAIN envelopes \ Held /\ DOMAIN envelopes' = DOMAIN envelopes
      /\ runs' = [runs EXCEPT ![w].at = "begin", ![w].envelope = e,
                              ![w].attempts = envelopes[e] + 1]
      /\ UNCHANGED <<row, requests, failedJobs>>
  BY DEF TaskOK, TaskTypes, Deliver
<1>1. ~Unsaved(e)
  BY DEF Deliver, Mishap, RunsOnly
<1>2. /\ \A v \in Workers \ {w} : runs'[v] = runs[v]
      /\ runs'[w].at = "begin" /\ runs'[w].envelope = e
  BY <1>0 DEF Run
<1>3. Unheld' = Unheld \ {e}
  <2>1. runs[w].envelope \notin DOMAIN envelopes
    BY <1>0 DEF Deliver, RunAt, TaskOK, EnvelopesHeld, Idle, NoEnvelope
  <2> QED
    BY <1>0, <1>2, <2>1 DEF Unheld, Held
<1>4. Waits'
  BY <1>0, <1>1, <1>2, <1>3 DEF Alive, Waits, Unsaved, RunAt, RequestAt
<1>5. Driving \subseteq Driving'
  BY <1>0, <1>2 DEF Driving
<1> QED
  BY <1>0, <1>4, <1>5 DEF Alive, Unfinished, IsDriven, StaleRequest

LEMMA RequestAlive ==
  ASSUME TaskOK, Alive, NEW r \in Requests, RequestNext(r)
  PROVE  Alive'
<1>0. /\ TaskTypes /\ requests \in [Requests -> Request] /\ requests[r] \in Request
      /\ requests[r].record # NoRow <=> requests[r].at \in Submitting
      /\ requests[r].record # NoRow => requests[r].record \in Records
      /\ \A s \in Requests \ {r} : requests[r].record # NoRow => requests[s].record = NoRow
      /\ UNCHANGED <<runs, failedJobs>>
  BY DEF TaskOK, TaskTypes, Request, OneCreator, RequestNext, Lookup, Create,
         SubmitToProvider, SaveSubmitted, SaveRefused, EnqueueFirst, SavePublished
<1>1. ASSUME NEW step, NEW record, RequestGoes(r, step, record)
      PROVE  /\ requests'[r].at = step /\ requests'[r].record = record
             /\ \A s \in Requests \ {r} : requests'[s] = requests[s]
  BY <1>0, <1>1 DEF RequestGoes, Request
<1>2. ASSUME \A s \in Requests \ {r} : requests'[s] = requests[s], Unheld \subseteq Unheld',
             DOMAIN envelopes \subseteq DOMAIN envelopes',
             RequestAt(r, "savePublished")' => requests'[r].enqueued \in Unheld',
             RequestAt(r, "saveRefused")' => requests'[r].record.status \in Terminal
      PROVE  Waits'
  BY <1>0, <1>2 DEF Alive, Waits, RunAt, RequestAt
<1>3. CASE Lookup(r) \/ (Create(r) /\ row # NoRow)
  <2>1. \E step \in {"create", "answered"} : RequestGoes(r, step, NoRow)
    BY <1>3 DEF Lookup, Create
  <2>2. /\ requests'[r].at \in {"create", "answered"}
        /\ \A s \in Requests \ {r} : requests'[s] = requests[s]
    BY <1>1, <2>1
  <2>3. UNCHANGED <<row, envelopes>> /\ requests[r].record = NoRow
    BY <1>0, <1>3 DEF Lookup, Create, RequestAt, Submitting
  <2>4. Waits'
    BY <1>0, <1>2, <2>2, <2>3 DEF RequestAt, Unheld, Held
  <2>5. \A s \in Requests : StaleRequest(s) => StaleRequest(s)'
    BY <2>2, <2>3 DEF StaleRequest
  <2> QED
    BY <1>0, <2>3, <2>4, <2>5 DEF Alive, Unfinished, IsDriven, Driving
<1>4. CASE Create(r) /\ row = NoRow
  <2>1. PICK step \in {"submit", "enqueue"} :
          RequestGoes(r, step, [status |-> "accepted", job |-> 0]) /\ UNCHANGED envelopes
    BY <1>4 DEF Create
  <2>2. [status |-> "accepted", job |-> 0] # NoRow
    BY NoRowAssumption DEF Records, Statuses
  <2>3. StaleRequest(r)' /\ requests'[r].at = step
        /\ \A s \in Requests \ {r} : requests'[s] = requests[s]
    BY <1>1, <2>1, <2>2 DEF StaleRequest, Writing
  <2>4. Waits'
    BY <1>0, <1>2, <2>1, <2>3 DEF RequestAt, Unheld, Held
  <2> QED
    BY <2>3, <2>4 DEF Alive, IsDriven
<1>5. CASE SubmitToProvider(r)
  <2>1. requests[r].record \in Records /\ UNCHANGED envelopes
    BY <1>0, <1>5 DEF SubmitToProvider, RequestAt, Submitting
  <2>2. PICK record \in Records, step \in {"saveSubmitted", "saveRefused"} :
          RequestGoes(r, step, record) /\ (step = "saveRefused" => record.status \in Terminal)
    <3>1. CASE NewJob /\ RequestGoes(r, "saveSubmitted",
                 [requests[r].record EXCEPT !.status = "running", !.job = Len(jobs')])
      <4>1. Len(jobs') \in Nat /\ "running" \in Statuses
        BY <1>0, <3>1, NewJobType DEF Statuses
      <4>2. [requests[r].record EXCEPT !.status = "running", !.job = Len(jobs')] \in Records
        BY <2>1, <4>1 DEF Records
      <4> QED
        BY <3>1, <4>2
    <3>2. CASE \E status \in {"rejected", "failed"} :
                 RequestGoes(r, "saveRefused", [requests[r].record EXCEPT !.status = status])
      <4>1. PICK status \in {"rejected", "failed"} :
              RequestGoes(r, "saveRefused", [requests[r].record EXCEPT !.status = status])
        BY <3>2
      <4>2. status \in Statuses /\ status \in Terminal
        BY DEF Statuses, Terminal
      <4>3. /\ [requests[r].record EXCEPT !.status = status] \in Records
            /\ [requests[r].record EXCEPT !.status = status].status = status
        BY <2>1, <4>2 DEF Records
      <4> QED
        BY <4>1, <4>2, <4>3
    <3> QED
      BY <1>5, <3>1, <3>2 DEF SubmitToProvider
  <2>3. record # NoRow
    BY NoRowAssumption
  <2>4. /\ requests'[r].at = step /\ requests'[r].record = record
        /\ \A s \in Requests \ {r} : requests'[s] = requests[s]
    BY <1>1, <2>2
  <2>5. StaleRequest(r)'
    BY <2>3, <2>4 DEF StaleRequest, Writing
  <2>6. Waits'
    BY <1>0, <1>2, <2>1, <2>2, <2>4 DEF RequestAt, Unheld, Held
  <2> QED
    BY <2>5, <2>6 DEF Alive, IsDriven
<1>6. CASE SaveSubmitted(r)
  <2>1. requests[r].record # NoRow /\ UNCHANGED envelopes
    BY <1>0, <1>6 DEF SaveSubmitted, RequestAt, Submitting
  <2>2. /\ requests'[r].at = "enqueue" /\ requests'[r].record = requests[r].record
        /\ \A s \in Requests \ {r} : requests'[s] = requests[s]
    BY <1>1, <1>6 DEF SaveSubmitted
  <2>3. StaleRequest(r)'
    BY <2>1, <2>2 DEF StaleRequest, Writing
  <2>4. Waits'
    BY <1>0, <1>2, <2>1, <2>2 DEF RequestAt, Unheld, Held
  <2> QED
    BY <2>3, <2>4 DEF Alive, IsDriven
<1>7. CASE SaveRefused(r) \/ SavePublished(r)
  <2>1. /\ requests'[r].at = "answered" /\ UNCHANGED envelopes /\ row' = requests[r].record
        /\ \A s \in Requests \ {r} : requests'[s] = requests[s]
    BY <1>1, <1>7 DEF SaveRefused, SavePublished, Save
  <2>2. Waits'
    BY <1>0, <1>2, <2>1 DEF RequestAt, Unheld, Held
  <2>3. CASE SaveRefused(r)
    BY <2>1, <2>2, <2>3 DEF SaveRefused, Alive, Waits, Unfinished
  <2>4. CASE SavePublished(r)
    <3>1. requests[r].enqueued \in Unheld
      BY <2>4 DEF SavePublished, Alive, Waits
    <3>2. requests[r].enqueued \in Driving'
      BY <1>0, <2>1, <3>1 DEF Driving, Unheld, Held
    <3> QED
      BY <2>2, <3>2 DEF Alive, IsDriven
  <2> QED
    BY <1>7, <2>3, <2>4
<1>8. CASE EnqueueFirst(r)
  <2>1. /\ NewEnvelope \in 1..MaxEnvelopes \ DOMAIN envelopes
        /\ DOMAIN envelopes' = DOMAIN envelopes \cup {NewEnvelope}
    BY <1>0, <1>8, NewEnvelopeIsNew DEF EnqueueFirst, TaskOK, EnvelopesHeld, Publish
  <2>2. NewEnvelope \notin Held
    BY <1>0, <2>1 DEF Held, TaskOK, EnvelopesHeld, NoEnvelope
  <2>3. Unheld' = Unheld \cup {NewEnvelope}
    BY <1>0, <2>1, <2>2 DEF Unheld, Held
  <2>4. PICK status \in Statuses :
          requests' = [requests EXCEPT ![r].at = "savePublished", ![r].enqueued = NewEnvelope,
                                       ![r].record.status = status]
    <3>1. requests[r].record.status \in Statuses /\ "queued" \in Statuses
      BY <1>0, <1>8 DEF EnqueueFirst, RequestAt, Submitting, Records, Statuses
    <3>2. CASE AtProvider
      BY <1>8, <3>1, <3>2 DEF EnqueueFirst
    <3>3. CASE ~AtProvider
      BY <1>8, <3>1, <3>3 DEF EnqueueFirst
    <3> QED
      BY <3>2, <3>3
  <2>5. requests[r].record \in Records
    BY <1>0, <1>8 DEF EnqueueFirst, RequestAt, Submitting
  <2>6. /\ requests'[r].at = "savePublished" /\ requests'[r].enqueued = NewEnvelope
        /\ requests'[r].record # NoRow
        /\ \A s \in Requests \ {r} : requests'[s] = requests[s]
    <3>1. /\ requests'[r].at = "savePublished" /\ requests'[r].enqueued = NewEnvelope
          /\ requests'[r].record = [requests[r].record EXCEPT !.status = status]
          /\ \A s \in Requests \ {r} : requests'[s] = requests[s]
      BY <1>0, <2>4 DEF Request
    <3>2. [requests[r].record EXCEPT !.status = status] \in Records
      BY <2>5 DEF Records
    <3> QED
      BY <3>1, <3>2, NoRowAssumption
  <2>7. StaleRequest(r)'
    BY <2>6 DEF StaleRequest, Writing
  <2>8. Waits'
    BY <1>2, <2>1, <2>3, <2>6 DEF RequestAt
  <2> QED
    BY <2>7, <2>8 DEF Alive, IsDriven
<1> QED
  BY <1>3, <1>4, <1>5, <1>6, <1>7, <1>8 DEF RequestNext
===============================================================================
