----------------------------- MODULE QueueWorkers -----------------------------
(***************************************************************************)
(* The consumers of the queue: QueueWorker.runUntilStopped, its runner and  *)
(* worker-cli, on top of the Redis queue.                                   *)
(*                                                                          *)
(* A worker is a loop in a node process.  Every await is a point where the  *)
(* other workers, the clock and Redis may move, so the state of a worker is *)
(* the call it waits for (pc) and the payload it reserved (held).  All the  *)
(* workers of a process share ONE Redis connection (connectRedisQueueClient *)
(* memoises it), which answers in the order of the calls (pipeline): one    *)
(* worker's BLPOP keeps the calls of the others waiting, and the first      *)
(* worker that stops quits the client under the others.                     *)
(*                                                                          *)
(* Handlers are opaque here: they return, throw or hang.                    *)
(***************************************************************************)
EXTENDS RedisQueue

CONSTANTS
  Workers,       \* the worker loops
  Processes,     \* the worker-cli processes
  ProcessOf,     \* the process each worker runs in
  Unhandled,     \* the jobs no handler is registered for
  MaxAttempts,   \* envelope.maxAttempts
  Timeout,       \* envelope.timeout, which replaces workerTimeoutSeconds
  BlockFor,      \* blockForSeconds, the timeout of BLPOP
  Delays,        \* the delays jobs are enqueued with
  NoJob,         \* what an idle worker holds
  \* Bounds of the environment.
  Latency,       \* the longest a step takes, handlers and BLPOP left out
  InLine,        \* the longest a call waits behind the calls of siblings
  Downtime,      \* the longest a dead process stays down
  MaxFaults,     \* how many crashes, lost commands, hangs and signals happen
  CalmFrom,      \* the second from which no fault happens and no job arrives
  Horizon        \* the last second

ASSUME WorkerAssumption ==
  /\ ProcessOf \in [Workers -> Processes]
  /\ Unhandled \subseteq Jobs
  /\ MaxAttempts \in Nat \ {0}
  /\ Timeout \in Nat \ {0}
  /\ BlockFor \in Nat \ {0}
  /\ Delays \subseteq Nat
  /\ NoJob \notin Payload
  /\ Latency \in Nat /\ InLine \in Nat /\ Downtime \in Nat
  /\ MaxFaults \in Nat /\ CalmFrom \in Nat /\ Horizon \in Nat

VARIABLES
  pc,            \* what each worker is doing
  held,          \* the payload each worker reserved, or NoJob
  since,         \* when each worker began the await it is in
  stopping,      \* QueueWorker.stopped
  open,          \* is the Redis client of the process open
  pipeline,      \* the workers of each process whose call Redis has to answer
  orphans,       \* jobs whose handler a process abandoned and still runs
  \* History.
  enqueued,      \* the jobs handed to the queue
  completed,     \* the jobs a handler of which returned
  failed,        \* the rows of failed_jobs
  faults         \* the faults that happened

workerVars == <<pc, held, since, stopping, open, pipeline, orphans>>
historyVars == <<enqueued, completed, failed, faults>>
vars == <<queueVars, now, workerVars, historyVars>>

-----------------------------------------------------------------------------
(* The awaits of a worker.                                                  *)

Settling == {"ack", "release", "saveFailed", "ackFailed"}
Closing == {"closeStopped", "closeTimeout", "closeError"}
Idling == {"loop", "migrateDelayed", "migrateReserved", "reserve"}
Location == Settling \cup Closing \cup Idling \cup {"handle", "blocked", "exited"}

(* The awaits that end in runUntilStopped throwing when their call fails.   *)
Fatal == (Settling \ {"ack"}) \cup (Idling \ {"loop"}) \cup {"blocked"}

(* The awaits whose call goes through the Redis connection.                 *)
Calls == Closing \cup (Idling \ {"loop"}) \cup {"blocked", "ack", "release", "ackFailed"}

Siblings(w) == {v \in Workers \ {w} : ProcessOf[v] = ProcessOf[w]}

(* The call of w is the next that Redis answers.                            *)
Answered(w) ==
  /\ open[ProcessOf[w]]
  /\ pipeline[ProcessOf[w]] # <<>>
  /\ Head(pipeline[ProcessOf[w]]) = w

Fault == now < CalmFrom /\ faults < MaxFaults /\ faults' = faults + 1

At(w, location) == pc[w] = location

(* The line of calls without the one of w: a worker awaits one call.        *)
Without(line, w) ==
  IF w \in ToSet(line) THEN RemoveAt(line, CHOOSE i \in DOMAIN line : line[i] = w) ELSE line

(* w is through with its call, and awaits the next thing.  A call carries   *)
(* the time at which it is made, not the one at which Redis answers it.     *)
Goto(w, location) ==
  LET others == Without(pipeline[ProcessOf[w]], w)
  IN  /\ pc' = [pc EXCEPT ![w] = location]
      /\ since' = [since EXCEPT ![w] = now]
      /\ pipeline' = [pipeline EXCEPT ![ProcessOf[w]] =
                        IF location \in Calls THEN Append(others, w) ELSE others]

Drop(w) == held' = [held EXCEPT ![w] = NoJob]

(* Faulty variants: one attempt too many; the last failure is not recorded. *)
AfterErrorOnceMore(w) ==
  IF held[w].attempts <= MaxAttempts THEN "release" ELSE "saveFailed"

AfterErrorForgetful(w) ==
  IF held[w].attempts < MaxAttempts THEN "release" ELSE "ackFailed"

(* Where a worker goes when its handler, or the ack after it, fails.        *)
AfterError(w) ==
  IF held[w].attempts < MaxAttempts THEN "release" ELSE "saveFailed"

Init ==
  /\ QueueInit
  /\ pc = [w \in Workers |-> "loop"]
  /\ held = [w \in Workers |-> NoJob]
  /\ since = [w \in Workers |-> 0]
  /\ stopping = [w \in Workers |-> FALSE]
  /\ open = [p \in Processes |-> TRUE]
  /\ pipeline = [p \in Processes |-> <<>>]
  /\ orphans = [p \in Processes |-> {}]
  /\ enqueued = {} /\ completed = {} /\ failed = {}
  /\ faults = 0

-----------------------------------------------------------------------------
(* The other side of the queue: the API process (and the handlers) enqueue. *)

Enqueue(job, delay) ==
  /\ job \notin enqueued /\ now < CalmFrom
  /\ EnqueueScript(job, delay)
  /\ enqueued' = enqueued \cup {job}
  /\ UNCHANGED <<now, workerVars, completed, failed, faults>>

(* Time.  A handler's timer fires on time, a BLPOP gives up, other steps    *)
(* take no longer than Latency once the calls of the siblings are answered. *)
Patience(w) ==
  CASE At(w, "handle") -> Timeout
    [] At(w, "exited") -> Downtime
    [] At(w, "blocked") -> IF Answered(w) THEN BlockFor + Latency ELSE BlockFor + InLine
    [] pc[w] \in Calls \ {"blocked"} -> IF Answered(w) THEN Latency ELSE InLine
    [] OTHER -> Latency

MayWait(w) == now < since[w] + Patience(w)

Tick ==
  /\ now < Horizon
  /\ \A w \in Workers : MayWait(w)
  /\ now' = now + 1
  /\ UNCHANGED <<queueVars, workerVars, historyVars>>

-----------------------------------------------------------------------------
(* The loop: stopIfNecessary, migrate, reserve, waitForNotify.              *)

BeginPass(w) ==
  /\ At(w, "loop")
  /\ Goto(w, IF stopping[w] THEN "closeStopped" ELSE "migrateDelayed")
  /\ UNCHANGED <<queueVars, now, held, stopping, open, orphans, historyVars>>

(* driver.migrate calls the script again while it moves a full batch.       *)
MigrateDelayed(w) ==
  /\ At(w, "migrateDelayed") /\ Answered(w)
  /\ \E batch \in Batches(delayed, since[w]) :
       /\ MigrateFromDelayed(batch)
       /\ Goto(w, IF Len(batch) = BatchSize THEN "migrateDelayed" ELSE "migrateReserved")
  /\ UNCHANGED <<now, held, stopping, open, orphans, historyVars>>

MigrateReserved(w) ==
  /\ At(w, "migrateReserved") /\ Answered(w)
  /\ \E batch \in Batches(reserved, since[w]) :
       /\ MigrateFromReserved(batch)
       /\ Goto(w, IF Len(batch) = BatchSize THEN "migrateReserved" ELSE "reserve")
  /\ UNCHANGED <<now, held, stopping, open, orphans, historyVars>>

(* reserve found a job: a payload that does not decode and a job without a  *)
(* handler go straight to persistFailure, any other to its handler.         *)
ReserveJob(w) ==
  /\ At(w, "reserve") /\ Answered(w)
  /\ ready # <<>>
  /\ PopScript(since[w])
  /\ held' = [held EXCEPT ![w] = CountAttempt(Head(ready))]
  /\ Goto(w, IF Head(ready).id \in Malformed \cup Unhandled
             THEN "saveFailed" ELSE "handle")
  /\ UNCHANGED <<now, stopping, open, orphans, historyVars>>

(* reserve found none: a worker that was told to stop does, others block.   *)
ReserveNone(w) ==
  /\ At(w, "reserve") /\ Answered(w)
  /\ ready = <<>>
  /\ Goto(w, IF stopping[w] THEN "closeStopped" ELSE "blocked")
  /\ UNCHANGED <<queueVars, now, held, stopping, open, orphans, historyVars>>

(* BLPOP takes a token that was pushed for a job: the worker looks again.   *)
WakeUp(w) ==
  /\ At(w, "blocked") /\ Answered(w)
  /\ TakeToken
  /\ Goto(w, "loop")
  /\ UNCHANGED <<now, held, stopping, open, orphans, historyVars>>

(* BLPOP gives up after blockForSeconds; the worker sleeps and looks again. *)
BlockTimeout(w) ==
  /\ At(w, "blocked") /\ Answered(w)
  /\ notify = 0
  /\ now >= since[w] + BlockFor
  /\ Goto(w, "loop")
  /\ UNCHANGED <<queueVars, now, held, stopping, open, orphans, historyVars>>

-----------------------------------------------------------------------------
(* handleReservedJob.                                                       *)

HandlerReturns(w) ==
  /\ At(w, "handle")
  /\ completed' = completed \cup {held[w].id}
  /\ Goto(w, "ack")
  /\ UNCHANGED <<queueVars, now, held, stopping, open, orphans,
                 enqueued, failed, faults>>

HandlerThrows(w) ==
  /\ At(w, "handle")
  /\ Goto(w, AfterError(w))
  /\ UNCHANGED <<queueVars, now, held, stopping, open, orphans, historyVars>>

(* The timer fires: the job is neither released nor failed, its handler is  *)
(* not stopped (nothing listens to the abort signal), and the worker exits. *)
HandlerTimesOut(w) ==
  /\ At(w, "handle")
  /\ now >= since[w] + Timeout
  /\ Fault
  /\ orphans' = [orphans EXCEPT ![ProcessOf[w]] = @ \cup {held[w].id}]
  /\ Goto(w, "closeTimeout")
  /\ Drop(w)
  /\ UNCHANGED <<queueVars, now, stopping, open, enqueued, completed, failed>>

Ack(w) ==
  /\ At(w, "ack") /\ Answered(w)
  /\ AckCommand(held[w])
  /\ Goto(w, "loop") /\ Drop(w)
  /\ UNCHANGED <<now, stopping, open, orphans, historyVars>>

(* The ack is inside the try of the handler: when it is rejected, because   *)
(* the client was closed or the connection broke before or after Redis ran  *)
(* it, the job that succeeded is treated as one that threw.                 *)
AckRejected(w) ==
  /\ At(w, "ack")
  /\ \/ ~open[ProcessOf[w]] /\ UNCHANGED <<queueVars, faults>>
     \/ open[ProcessOf[w]] /\ Fault /\ (AckCommand(held[w]) \/ UNCHANGED queueVars)
  /\ Goto(w, AfterError(w))
  /\ UNCHANGED <<now, held, stopping, open, orphans, enqueued, completed, failed>>

Release(w) ==
  /\ At(w, "release") /\ Answered(w)
  /\ ReleaseScript(held[w], since[w] + RetryDelay(held[w].attempts))
  /\ Goto(w, "loop") /\ Drop(w)
  /\ UNCHANGED <<now, stopping, open, orphans, historyVars>>

(* persistFailure writes the row of failed_jobs, and acks after it.         *)
SaveFailed(w) ==
  /\ At(w, "saveFailed")
  /\ failed' = failed \cup {held[w]}
  /\ Goto(w, "ackFailed")
  /\ UNCHANGED <<queueVars, now, held, stopping, open, orphans,
                 enqueued, completed, faults>>

AckFailed(w) ==
  /\ At(w, "ackFailed") /\ Answered(w)
  /\ AckCommand(held[w])
  /\ Goto(w, "loop") /\ Drop(w)
  /\ UNCHANGED <<now, stopping, open, orphans, historyVars>>

(* Faulty variant: a call on a closed client waits for a reconnect.          *)
CallHangs(w) ==
  /\ pc[w] \in Fatal
  /\ open[ProcessOf[w]] /\ Fault
  /\ Goto(w, "closeError") /\ Drop(w)
  /\ UNCHANGED <<queueVars, now, stopping, open, orphans,
                 enqueued, completed, failed>>

(* Any other call that is rejected ends runUntilStopped.                    *)
CallRejected(w) ==
  /\ pc[w] \in Fatal
  /\ \/ ~open[ProcessOf[w]] /\ pc[w] # "saveFailed" /\ UNCHANGED faults
     \/ Fault
  /\ Goto(w, "closeError") /\ Drop(w)
  /\ UNCHANGED <<queueVars, now, stopping, open, orphans,
                 enqueued, completed, failed>>

-----------------------------------------------------------------------------
(* QueueWorkerRunner.run and worker-cli.                                    *)

(* The finally block quits the client of the process; a timeout makes the   *)
(* exit code 1, upon which main stops the other workers (if the quit was    *)
(* rejected, run throws instead and nobody is stopped).                     *)
Close(w) ==
  /\ pc[w] \in Closing
  /\ open[ProcessOf[w]] => Answered(w)
  /\ open' = [open EXCEPT ![ProcessOf[w]] = FALSE]
  /\ stopping' = IF At(w, "closeTimeout") /\ open[ProcessOf[w]]
                 THEN [v \in Workers |-> stopping[v] \/ v \in Siblings(w)]
                 ELSE stopping
  /\ Goto(w, "exited")
  /\ UNCHANGED <<queueVars, now, held, orphans, historyVars>>

(* SIGTERM or SIGINT: every runner of the process stops its worker.         *)
Signal(p) ==
  /\ Fault
  /\ stopping' = [v \in Workers |-> stopping[v] \/ ProcessOf[v] = p]
  /\ UNCHANGED <<queueVars, now, pc, held, since, open, pipeline, orphans,
                 enqueued, completed, failed>>

OrphanSettles(p, job) ==
  /\ job \in orphans[p]
  /\ orphans' = [orphans EXCEPT ![p] = @ \ {job}]
  /\ UNCHANGED <<queueVars, now, pc, held, since, stopping, open, pipeline, historyVars>>

(* A process that starts again, all its memory gone.                        *)
Fresh(p) ==
  /\ pc' = [w \in Workers |-> IF ProcessOf[w] = p THEN "loop" ELSE pc[w]]
  /\ held' = [w \in Workers |-> IF ProcessOf[w] = p THEN NoJob ELSE held[w]]
  /\ since' = [w \in Workers |-> IF ProcessOf[w] = p THEN now ELSE since[w]]
  /\ stopping' = [w \in Workers |-> stopping[w] /\ ProcessOf[w] # p]
  /\ open' = [open EXCEPT ![p] = TRUE]
  /\ pipeline' = [pipeline EXCEPT ![p] = <<>>]
  /\ orphans' = [orphans EXCEPT ![p] = {}]
  /\ UNCHANGED <<queueVars, now, enqueued, completed, failed>>

(* The process ends when nothing is left in its event loop: every worker    *)
(* has exited and the abandoned handlers are over.  supervisord restarts it.*)
Restart(p) ==
  /\ \A w \in Workers : ProcessOf[w] = p => At(w, "exited")
  /\ orphans[p] = {}
  /\ Fresh(p)
  /\ UNCHANGED faults

Crash(p) ==
  /\ Fault
  /\ Fresh(p)

-----------------------------------------------------------------------------
(* What a worker does by itself, faults left out.                           *)
Progress(w) ==
  \/ BeginPass(w) \/ MigrateDelayed(w) \/ MigrateReserved(w)
  \/ ReserveJob(w) \/ ReserveNone(w) \/ WakeUp(w) \/ BlockTimeout(w)
  \/ HandlerReturns(w) \/ HandlerThrows(w)
  \/ Ack(w) \/ Release(w) \/ SaveFailed(w) \/ AckFailed(w) \/ Close(w)

(* What a closed client makes of the calls that are still to come.          *)
ClosedClient(w) ==
  ~open[ProcessOf[w]] /\ (AckRejected(w) \/ CallRejected(w))

WorkerNext(w) ==
  \/ Progress(w)
  \/ HandlerTimesOut(w) \/ AckRejected(w) \/ CallRejected(w)

ProcessNext(p) ==
  \/ Signal(p) \/ Restart(p) \/ Crash(p)
  \/ \E job \in Jobs : OrphanSettles(p, job)

Next ==
  \/ \E job \in Jobs, delay \in Delays : Enqueue(job, delay)
  \/ Tick
  \/ \E w \in Workers : WorkerNext(w)
  \/ \E p \in Processes : ProcessNext(p)

Spec == Init /\ [][Next]_vars

(* The event loop runs what is due, Redis answers what is next in line and  *)
(* supervisord restarts what exits: weak fairness.  Time goes on, although  *)
(* what is due comes first again and again: strong fairness.  Nothing is    *)
(* fair about faults and about which way a handler ends.                    *)
Fairness ==
  /\ SF_vars(Tick)
  /\ \A w \in Workers : WF_vars(Progress(w)) /\ WF_vars(ClosedClient(w))
  /\ \A p \in Processes :
       /\ WF_vars(Restart(p))
       /\ WF_vars(\E job \in Jobs : OrphanSettles(p, job))

FairSpec == Spec /\ Fairness

-----------------------------------------------------------------------------
(* Properties.                                                              *)

TypeOK ==
  /\ QueueTypeOK
  /\ pc \in [Workers -> Location]
  /\ held \in [Workers -> Payload \cup {NoJob}]
  /\ \A w \in Workers : pc[w] \in Settling \cup {"handle"} => held[w] # NoJob
  /\ since \in [Workers -> Nat]
  /\ stopping \in [Workers -> BOOLEAN]
  /\ open \in [Processes -> BOOLEAN]
  /\ pipeline \in [Processes -> Seq(Workers)]
  /\ orphans \in [Processes -> SUBSET Jobs]
  /\ enqueued \subseteq Jobs
  /\ completed \subseteq enqueued
  /\ failed \subseteq Payload
  /\ faults \in Nat

FailedIds == {p.id : p \in failed}

(* A job that was enqueued is in Redis until its handler has returned or    *)
(* failed_jobs has a row for it, whatever crashes, hangs or loses its       *)
(* connection in between: pop.lua moves the payload in one step,            *)
(* persistFailure saves before it acks, release.lua removes and adds at     *)
(* once.                                                                    *)
NoJobLost ==
  \A job \in enqueued : job \in StoredIds \cup completed \cup FailedIds

(* The queue implements its abstract promise: what Redis holds is what is   *)
(* pending, the rows of failed_jobs are what was given up.                  *)
Promise == INSTANCE AtLeastOnceQueue
             WITH submitted <- enqueued, pending <- StoredIds, givenUp <- FailedIds

KeepsPromise == Promise!Spec

(* When a worker is done with a job before its reservation expires (its     *)
(* timeout and the latency of its calls stay below retryAfterSeconds, what  *)
(* validateWorkerOptions is there for), no other worker holds that job and  *)
(* no copy of it waits to be served.                                        *)
SingleReservation ==
  \A w \in Workers : held[w] # NoJob =>
    /\ \A v \in Workers \ {w} : held[v] # NoJob => held[v].id # held[w].id
    /\ \A p \in ToSet(ready) \cup DOMAIN delayed : p.id # held[w].id

(* Under the same condition, a job is tried more often than maxAttempts     *)
(* only when a fault (a hang, a crash, a lost call, a signal) made a        *)
(* reservation expire: each pays for one extra attempt at most.             *)
AttemptsAccounted ==
  \A p \in Stored : p.attempts <= MaxAttempts + faults

(* There is never a notify token without a ready job it was pushed for, so  *)
(* a worker that BLPOP wakes up was not woken up for nothing, unless        *)
(* another one was faster (the converse fails: pop.lua may take the token   *)
(* of another job, and only the timeout of BLPOP makes up for that).        *)
NoSpareToken == notify <= Len(ready)

(* A payload keeps its availableAt when it is served again, and attempts    *)
(* are added to it: the texts with one id and one availableAt are one copy  *)
(* of the job.  release.lua makes a copy with an availableAt of its own.    *)
SameCopy(p, q) ==
  p.id \notin Malformed /\ p.id = q.id /\ p.availableAt = q.availableAt

Released(w) == [held[w] EXCEPT !.availableAt = since[w] + RetryDelay(held[w].attempts)]

(* The copies of all jobs, but for the reservation w is about to release.   *)
Elsewhere(w) ==
  ToSet(ready) \cup DOMAIN delayed \cup (DOMAIN reserved \ {held[w]})
    \cup {held[v] : v \in {u \in Workers \ {w} : held[u] # NoJob}}

(* Whoever is about to release a job does so for a second for which no copy *)
(* of it is under way: what ReservationsFenced rests on.  Late workers do   *)
(* make copies, but the backoff takes each past those made before it.  (Two *)
(* handlers that throw in the same second, after both reservations were     *)
(* taken over, can break this.)                                             *)
NoTwins ==
  \A w \in Workers : At(w, "release") /\ Answered(w) =>
    \A p \in Elsewhere(w) : ~SameCopy(p, Released(w))

(* Nobody else takes away a reservation that has not expired: a worker that *)
(* comes back with an expired one acks the payload with ITS attempt count,  *)
(* which pop.lua made different from that of the reservation that followed. *)
(* (When a job is released with no delay while another worker has it, it    *)
(* exists twice with one count and one availableAt; the two reservations    *)
(* are one member of the set, and the ack of either removes it.  A backoff  *)
(* keeps the two apart, unless two handlers throw in the same second.)      *)
ReservationsFenced ==
  [][\A w \in Workers :
       (/\ held[w] # NoJob /\ held[w].id \notin Malformed
        /\ held[w] \in DOMAIN reserved /\ reserved[held[w]] > now
        /\ pc'[w] = pc[w] /\ held'[w] = held[w])
       => held[w] \in DOMAIN reserved']_vars

(* Every job that is enqueued is completed or recorded in failed_jobs, once *)
(* faults cease.                                                            *)
EveryJobSettles ==
  \A job \in Jobs : job \in enqueued ~> job \in completed \cup FailedIds

(* A worker told to stop lets its process go.                               *)
StopsWhenTold ==
  \A w \in Workers : stopping[w] ~> ~stopping[w]
=============================================================================
