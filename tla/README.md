# comfyui_worker in TLA+

A model of the task worker in `src/`: its Redis queue and the workers that drain it, the life of a
task's row, log and outputs, the ledger of generated models, the task-type definitions with their
publication, the way of a three-view payload into a modelling job, and the LoRA trainer that runs on a
GPU machine. TLC checks every module on small instances; TLAPS proves, for all values of the
constants, the safety of the queue and its timing, of the rows of both kinds of tasks, of the log and
the outputs of a run, of the task-type definitions and their publication, of a three-view payload, its
sheet and the ledger its model ends in, and of the runner script: its installation and its answers.
Every safety property that a run checks and finds true is also a theorem. `PROJECT.json` lists, for
every definition, the lines of the source it was translated from.

Paths below are relative to `src/src/` unless they begin with `src/`.

## 1. The system

Two kinds of processes run the program, several workers in each of the second kind, and all they
share is in PostgreSQL, Redis and the services they call.

```
 POST /tasks ──► API process ──┐   insert / save row        ┌──────────────┐
 task-definition routes ──►    ├──────────────────────────► │ PostgreSQL   │ worker_tasks, task_events,
                               │                            │              │ attempts, failed_jobs,
        enqueue (push/later)   ▼                            └──────▲───────┘ task_type_definitions
                            Redis ◄── pop/ack/release/BLPOP ──┐    │ read / save row
                                                              │    │
 supervisord ── starts, restarts ──► worker-cli process: N workers, one shared Redis client
                                              │        │            │
                                 Stephen render     LoRA runner    Hunyuan3D studio
                                 (ComfyUI)          over SSH       │
                                              │                    ▼
                                              └──► Pai Platform: artifacts, manifest and entity
                                                   (PACE files), worker registry
```

| Component | State it keeps | Operations | What makes it correct |
|---|---|---|---|
| Redis queue driver (`queue/RedisQueueDriver.ts`, `queue/lua/`) | per queue a ready list, a delayed and a reserved sorted set, a notify list | enqueue, migrate delayed, migrate expired, pop, BLPOP, ack, release | no payload disappears or is duplicated by a script; a reservation belongs to one attempt of one worker |
| Queue workers (`queue/QueueWorker.ts`, `QueueWorkerRunner.ts`, `worker-cli.ts`) | per worker its await and its envelope, per process the client and the stop flag | migrate–reserve–handle–settle loop, timeout, stop, crash, restart | every job ends completed or in `failed_jobs`; one worker at a time has a job, if workers are prompt; a stopped worker exits |
| Failed-job store (`tasks/dbFailedJobStore.ts`) | rows of `failed_jobs` | insert | written before the job is forgotten |
| Task submission and rows (`tasks/taskService.ts`, `taskStore.ts`, `taskScheduler.ts`) | one row per task, its events and attempts | lookup, insert, submit to provider, enqueue, save the whole row | a task is submitted once; an unfinished task is driven by something; a finished one stays finished |
| Stephen render and prop tasks (`tasks/taskExecution.ts`, `replacePropTaskExecution.ts`) | the task's envelopes and the provider's job | poll, reject, fail, download, publish, finish, follow up | succeeded means published; one polling chain |
| LoRA and Hunyuan3D tasks (`tasks/loraTrainTaskExecution.ts`, `threeView3dTaskExecution.ts`) | as above, the job submitted by the worker | submit, poll against a deadline, finalize | one provider job; the deadline ends polling; succeeded means done and finalized |
| Task log and attempts (`tasks/taskStore.ts`) | numbered events and one row per attempt of each task | append an event (read the number, insert, try again), upsert an attempt | no event is lost or numbered twice; row, last event and attempt tell one story |
| Storyboard outputs (`render/storyboardOutputs.ts`) | the shot's manifest, or a sidecar file with its temporary | append an artifact, or read–change–write–rename | what succeeded is listed, in the sidecar once; the file is never seen half written |
| Payload schema (`taskDefinitions/definitionSchema.ts`, `model3d/threeViewPayload.ts`) | none | normalise a payload by the stored definition; the worker's own reading of it | definition and worker agree on what is acceptable and on what it means |
| Turnaround slicing (`model3d/turnaroundSlice.ts`) | none | measure the valleys of a sheet, or cut it equally; trim | every view shows its own figure, as far as its columns have content |
| Entity ledger (`model3d/entityLedger.ts`) | a project's manifest and the ledger with the slots of the entity and its depictions (two files of the platform) | check the size, register a take in one conditional batch, have it measured | takes are appended; the slot written last mirrors a current take; a protected registration yields to a person; a hashed model fits |
| Task-type definitions (`taskDefinitions/`) | rows with worker name, version, enabled; two unique indexes | create, update, delete, ensure built-in | one enabled row per worker name; both processes get started |
| Registry publisher (`registry/WorkerRegistryPublisher.ts`) | what the platform has for each name | publish all, sync one name, heartbeat | the platform has the enabled definition |
| LoRA trainer sync (`train/loraTrainerSync.ts`) | script, hash and wrapper on the GPU machine, a lock file | check, copy, install under `flock` | a job is run by the submitting build's script; it is installed once |
| LoRA runner (`src/scripts/train_style_lora_runner.py`) | `status.json`, its temporary, output files, a process | submit, status, finalize, run | a final report stays; every job is reported; no checkpoint of a broken training is handed out |
| Render client, workflows, asset store, Hunyuan3D and platform clients, infrastructure | | | their answers are the environment of the models, see section 8 |

### What is hard here

- **Interleavings.** All the workers of a process await on one Redis connection that answers in the
  order of the calls, so the BLPOP of one holds up the scripts of the others, which carry a clock
  value read before they were sent. Workers of different processes, requests of the API and the
  provider's own progress interleave at every await.
- **Whole-row writes.** `taskStore.save` writes every column of the record its caller holds. Who
  read it, and when, decides what is lost. The definition store and the ledger are read–change–write
  over several round trips as well.
- **At-least-once delivery.** Crashes, lost calls, handlers that outlive their reservation and the
  ack that stands inside the handler's `try` all run a job again. Tasks poll by enqueueing a follow-up
  before the acknowledgement of the envelope in hand, so a redelivery forks the chain.
- **Effects before records.** The provider's job, the artifact and the registration of a model exist
  before the row says so.
- **Time.** Reservation, handler timeout, backoff, BLPOP timeout and 3D deadline race one another.
- **Two files, one name.** Every run of a panel writes the sidecar by way of the same temporary file.
- **Two readings of one payload.** The API judges it by a definition that an earlier release may have
  stored, the worker by its own code.
- **PostgreSQL's READ COMMITTED.** "Disable the others" updates the rows its statement saw.

Each of these is listed, at the line where it bites and with the properties that watch it, under
`hazards` in `PROJECT.json`.

## 2. The modules

```
RedisQueue ──► QueueWorkers ──(refines)──► AtLeastOnceQueue      MCQueueWorkers
                    │
                    └─► QueueWorkersProofs

TaskLifecycle ──┬─► StephenTask (MCStephenTask)
     │          └─► TrainerTask (MCTrainerTask)
TaskLifecycleProofs ──► StephenTaskProofs, TrainerTaskProofs

TaskRuns ──┬─► TaskLog ────────────┐
           └─► StoryboardOutputs ──┴─► RenderPublication (MCRenderPublication) ──► RenderPublicationProofs

PayloadSchema ──► ThreeViewPayload ──┐
                  SheetSlicing ──────┴─► ThreeViewIntake (MCThreeViewIntake) ──┐
                                         EntityLedger (MCEntityLedger) ────────┴─► Model3dProofs

TaskDefinitions (MCTaskDefinitions) ──► TaskDefinitionsProofs

LoraSync ──┐
LoraRunner ┴─► LoraTrainer (MCLoraTrainer) ──► LoraTrainerProofs
```

An MC module only extends its specification and names the values (functions, sequences, symmetry)
that a `.cfg` cannot write. Definitions headed *Faulty variant* are never part of `Next`: each is a
plausible mistake in the definition that follows it, kept to show that a property notices it.

### RedisQueue

The four keys of one queue, and one operator per Lua script or command. Redis runs a script
atomically, so a script is one step. A payload is the JSON text of an envelope; it is kept as
`id`, `attempts` and `availableAt`, which is all that tells two texts of one job apart. `PopScript`
writes the payload *re-encoded with one more attempt* into the reserved set: this is why a late ack
misses somebody else's reservation. Payloads that do not decode (`Malformed`) keep their text.
`clear` and `size` are left out: nothing calls the first, the second changes nothing.

### QueueWorkers, AtLeastOnceQueue

One worker is its await (`pc`), what it reserved (`held`) and when that await began. The workers of a
process share `open` (its client) and `pipeline` (the calls Redis has yet to answer, in order).
`BeginPass`, `MigrateDelayed`, `MigrateReserved`, `ReserveJob/None`, `WakeUp`, `BlockTimeout`,
`HandlerReturns/Throws/TimesOut`, `Ack`, `AckRejected`, `Release`, `SaveFailed`, `AckFailed`,
`CallRejected`, `Close`, `Signal`, `Restart` and `Crash` are the branches of `runUntilStopped` and of
what surrounds it. A call that reached Redis but whose reply was lost is the script followed by a
crash or a rejection. A handler that timed out is not stopped by the code: it lives on in `orphans`
and may still finish. The first worker of a process that closes quits the client for all.

Time is a counter of seconds. `Latency`, `InLine` and `Downtime` bound how long a step, a call in
line and a dead process may take before time has to wait for them; `Horizon`, `MaxFaults` and
`CalmFrom` bound the clock and the faults.

`AtLeastOnceQueue` is what the queue promises: a job is pending from its submission until a handler
returned or its failure was recorded, and nothing is promised about "at most once". `KeepsPromise`
is the refinement, with what Redis holds as the pending jobs.

### TaskLifecycle, StephenTask, TrainerTask

One task, and everyone who touches its row: requests with its `task_id`, and the runs of its handler
in the workers. Rows of other tasks are never touched on the way, so one is enough. A record is a
status and the number of the provider job it names; the steps of a run are its awaits, and whether a
record was read at the start or again before the save is kept exactly as the code has it. The queue
is what `QueueWorkers` establishes it to be: at-least-once, attempts counted, given up after
`MaxAttempts` on the record.

Mishaps are counted and of six kinds: `crash` (the process, the envelope is redelivered), `zombie`
(the handler outlives its reservation), `store` (any call rejected, before or after its effect, the
provider's included), `api` (a call of a request rejected, or the API dies), `late` (an envelope is
delivered before the save that follows its enqueue; only its delay keeps that from happening) and
`cancel` (the row is asked to cancel; nothing in the program writes that status, but the handlers
react to it). A zombie keeps the attempts it was delivered with. When its handler throws it releases
what it no longer has: the script adds a copy of the envelope all the same (`release.ts:9`,
`ReleaseLost`), or the last attempt is recorded in `failed_jobs`. A handler that is a zombie because its
timeout has passed releases nothing, as the worker has settled the envelope. Only one of the two, the
lost reservation or the timeout, befalls a run.

`StephenTask` is the render whose job the API submits; `TrainerTask` is the job that the worker
submits, with `HasDeadline` telling Hunyuan3D (true) from LoRA (false).

### TaskRuns, TaskLog, StoryboardOutputs, RenderPublication

The end of a render run, at the granularity the task modules leave out. `TaskRuns` names the runs and
the task each delivers. `TaskLog` is `appendEvent`: the highest number is read, the next one is
inserted, the unique index refuses the loser of a race, which reads again, three times in all; and
`saveAttempt`, an upsert. `StoryboardOutputs` is what a panel is left with: an artifact appended to the
shot's manifest, or the sidecar, read and rewritten by way of a temporary file. Files are kept apart
from their names, so that a writer whose file was renamed under it writes into the visible one. The
entries of the sidecar are a set of runs: the code appends to an array, whose order no property reads.
`RenderPublication` puts them together in the order of `executeStephenRenderTask`: upload, publish,
save the row, append the event, record the attempt; a call that is rejected, before its effect or
after, leads into the catch block as it does in the code. Its poll and follow-ups are `StephenTask`'s.
`platform` tells the two ways of publishing apart. `overlapped`, `raced` and `cutShort` are history,
written for the properties and read by no step.

### PayloadSchema, ThreeViewPayload, SheetSlicing, ThreeViewIntake

Pure algorithms, as operators. A JSON object is a function from paths to scalars; what may throw
gives the set of its results, empty then. `PayloadSchema` is `normalizePayloadWithDefinition`, one
round per rule in the order of the rules (`Rounds`), with the conversions of `String()`, `Number()`
and truncation. `Keys` are the names a field may have. `ThreeViewPayload` is the worker's reading,
`hydrateThreeView3dPayload`, and the built-in definition with the test that finds an older one
outdated; `BuiltIn` is written down in the order in which PostgreSQL gives the keys of the `jsonb`
back, the shorter ones first, which is the order the rules are applied in. `SheetSlicing` cuts a
sheet, kept as a row of columns, each with the luminance of what is drawn in it: the widest valleys,
their middles, the padding, the equal cut, the trimming. A column can be *faint*, dark in fewer of
its rows than `contentColumnRatio`: the measurement takes it for background, the trimming does not.
`ThreeViewIntake` joins them: the server starts on whatever definition is stored, a payload is
posted, normalised, hydrated, and its sheet is cut. Its assumptions are what the code gives:
payloads are documents; no `assets://` URI is an empty text, "0" or "FALSE"; and the definitions
that earlier releases have left are `Orderly`. That an object field takes no enum
(`definitionSchema.ts:231`) and that a field comes after the umbrella it lies below (its key is
longer) holds of every stored definition; that a default passes its own rule, that objects have
none, and that fields with fields below them are objects, of the built-in ones.
`normalizeTaskDefinitionJson` would let somebody post a definition with a default of spaces, which
then is stored as it is.

### EntityLedger

A run submits its model for the size in the payload or else for that of the entity, checks the size
once more when the model is done, and registers it for the entity or, with a `depictionIndex`, for
one of its depictions (`PlaceOf`). The takes of all these places are one group, which is unset as
one, whereas each place has a slot of its own. `registerEntityModel3d` reads the ledger, then the
manifest, then sends one batch with optimistic tests. The batch is atomic (the platform's promise as
the code uses it); everything before is a private copy. Then `initializeGeneratedModelPlacement`
reads the project's revision and has the model measured for it, twice at most. Around it are a
person's edits, modelled as external: uploading a take for a place, picking one, choosing the
previz, changing the size. `Protecting` are the registrations with `protectGeneratedCurrent`,
`Hashed` those with a `physicalInputHash`.

### TaskDefinitions

The transactions on `task_type_definitions`, statement by statement, as PostgreSQL runs them under
READ COMMITTED: an `UPDATE ... WHERE enabled` takes a snapshot of the matching rows, locks them one
by one and retests each; a write may conflict with a unique index, two transactions may deadlock and
one of them is then aborted. After the commit the request syncs each worker name involved by a read
and a publication. The API process and the worker process both ensure the built-in definition when
they start; the one that loses the race ends and is restarted (`taskTypeDefinitionStore.ts:369`
waits for code 23505, which `create` has already turned into a `ConflictError` at line 184). A PUT
changes any set of fields, the version included; `MaxChanged` bounds how many for TLC.
The Platform-API mode of the publisher is modelled.

### LoraSync, LoraRunner, LoraTrainer

`LoraSync`: each caller compares the remote hash, copies the files, waits for the lock, checks again,
then moves script, hash and wrapper, in this order. A connection may break anywhere; the kernel then
gives the lock back. `LoraRunner`: `status.json` is written by opening one shared temporary, writing,
and renaming it; inodes are kept, so that a writer whose file was renamed under it writes into the
visible file. The submit command, the process it starts and the polling commands all do this.
`LoraTrainer` composes the two and remembers which script a job was submitted with.

## 3. The runs

| Run | Instance | Properties | What it shows |
|---|---|---|---|
| QueueLate | 2 processes, a malformed job, late without limit, 1 fault | `NoJobLost`, `NoSpareToken`, `KeepsPromise`, `ReservationsFenced` | whatever expires, crashes or is rejected, no job is lost, the queue implements its promise, and a worker that comes back late never removes a reservation that another one has |
| QueueLive | 2 prompt workers of one process, 1 job, 1 fault, fairness | `TypeOK`, `SingleReservation`, `AttemptsAccounted`, `EveryJobSettles`, `StopsWhenTold` | while handlers end well before the reservation does, nobody else gets the job and no copy of it waits; a job is tried more than `maxAttempts` times only because of faults; every job is completed or recorded; a stopped process goes |
| StephenSafe | 2 requests, 2 workers, all mishaps, symmetry | `SucceededIsPublished`, `ChainsAccounted`, `ResultsAccounted`, `FinishedIsFinal` | what a task's row, envelopes and results can look like after one mishap of any kind |
| StephenLive | 1 request, 2 workers, crash or rejected call | `Driven`, `EveryTaskFinishes` | an unfinished task always has something that drives it, and finishes |
| Trainer | 1 request, 2 workers, 3D task, silent provider; crashes, rejected calls, failing API, cancellation; fairness | `OneJob`, `SucceededIsDone`, `FinishedIsFinal`, `DeadlineEndsPolling` | the same for a job submitted by the worker, and that polling ends at the deadline, though the provider never answers |
| Publication | 2 deliveries among 2 runs of a task and 1 of another task of the panel, 1 mishap, both ways of publishing | `LogIsComplete`, `RecordsAgree`, `SucceededIsListed`, `ListedOnce`, `OutputsKept` | no event is lost, the records agree, and what succeeded is listed once |
| Intake | payloads two changes away from two usual ones, 5 stored definitions, every sheet of 9 columns with up to 1 faint one | `NothingConsumedIsRefused`, `Conforms`, `NothingCutOff`, `OwnFigure` | definition and worker agree, what is stored satisfies the definition, and every view shows what its own figure has in columns with content, on a normalized sheet all of it |
| LedgerOverlap | 3 registrations (one protecting, one hashed, one for a depiction), 1 edit, 1 failure | `VersionsDiffer`, `PendingHasCause`, `LatestSlotMirrors`, `PersonsChoiceStands`, `FitsEntity` | what holds of manifest, entity, size and measurement, however registrations and edits overlap |
| LedgerWiped | 3 registrations | `AppendOnly`, **violated** | see section 4 |
| Definitions | 2 overlapping requests, both processes starting, 2 names, 2 events | `OneEnabled`, `PublishedIsEnabled`, `StartsSucceed` | unique keys under all interleavings and aborts; one enabled row per worker name and the right publication when requests do not overlap; both processes get started |
| DefinitionsPerType | one request at a time, 2 names | `OneEnabledPerType`, **violated** | see section 4 |
| LoraTrainer | 2 workers, a broken connection, a killed training, 2 polling commands | `RunsOwnScript`, `SucceededIsTrained`, `ReportIsFinal`, `EveryJobReported` | the script a job runs with, and that its end is reported once and for all |

Every property comes with a faulty variant of some definition that makes it fail under the run's own
configuration (`mutants`).

### Conditions of the properties, and why they are there

- `SingleReservation` and `AttemptsAccounted` need
  `Timeout + Latency + 3 * max(Latency, InLine) < RetryAfter`, the model's form of what
  `validateWorkerOptions` is for. The clamp there looks at `workerTimeoutSeconds`; an envelope's own
  timeout replaces it (`QueueWorker.ts:309`), so the condition is on the envelope's. The three calls
  in line are the migration that precedes the pop, the pop and the settlement.
- `ReservationsFenced` holds with retries because a released copy waits for its backoff and so differs
  in `availableAt` from those made before it (`NoTwins`, section 6). Without a backoff TLC finds two
  copies with the same count and time, which Redis keeps as one reservation; with one it would take two
  handlers of one job that throw in the same second, after both reservations were taken over, which
  lies beyond the run's horizon.
- `FinishedIsFinal` excludes steps of those who read the row before it was finished. The code does
  let those revive a finished row: the save after an enqueue (`taskScheduler.ts:17, :32`) and a
  render run's later reads (`taskExecution.ts`), which do not look at the status again.
- Trainer has one request and neither zombies nor late deliveries: its liveness takes TLC about four
  minutes with zombies and more than five with a second request. The module shares `TaskLifecycle`
  with `StephenTask`, which StephenSafe checks with two requests and every kind of mishap, and the
  theorems of section 6 have no such bound: `SucceededTasksAreDone`, `FinishedTasksStay` and
  `OneJobPerTask` hold for any requests and mishaps.
- `OneJob` is claimed without mishaps. After one crash two polling chains may keep overwriting each
  other's job number, and the number of provider jobs has no bound.
- `Driven` and the liveness of tasks are claimed for crashes and rejected calls, not for a request
  that dies between insert and enqueue (`taskService.ts:39`; its row stays accepted, and a retry of
  the request only reads it) nor for zombies (the other delivery may have been acknowledged).
- `OneEnabled` and `PublishedIsEnabled` hold when requests do not overlap: two that enable different
  rows see neither each other's row, and of two syncs the older may publish last. `OneEnabled` is about
  one worker name; that a `task_type` has one enabled row whatever its worker is false (section 4).
  `PublishedIsEnabled` also needs that nothing failed between a commit and its publication, as nobody
  makes up for it before the next start of the API.
- `SucceededIsListed` and `OutputsKept` exclude two runs that are inside the sidecar together
  (`raced`): nothing in the code keeps them apart, and without the condition both are violated. With
  the platform `SucceededIsListed` needs no condition. `ListedOnce` allows a redelivered task one
  artifact per run: the manifest is appended to, where the sidecar replaces the task's entry.
- `RecordsAgree` excludes tasks whose runs overlapped, and those with a run that could not record its
  outcome: the row, the event and the attempt are three statements in no transaction.
- `NothingConsumedIsRefused` is about known fields, and leaves out the two places where the two readings
  differ. `normalized` has to be a boolean: of the text "true" the definition makes one, so the worker
  takes what was stored for something else than what was posted, and other texts are refused
  (section 4). And the id and the preset must have a text after `String(value || '')`
  (`definitionSchema.ts:311`): the worker's `String(value ?? '')` makes a name of the id 0 or false, and
  takes a preset of spaces for the standard one, where the definition refuses them.
- `LatestSlotMirrors` is about the slot that was written last. The others drift: a registration for a
  depiction unsets the take that the entity's slot names, and the other way round, with no interleaving
  at all (section 4). `NoDriftWithoutDepictions` says of all slots what holds without depictions.
- `NothingCutOff` and `OwnFigure` claim all that is drawn only of a normalized sheet. A sheet that is
  measured loses faint columns that lie further out than the padding reaches, and a faint column
  between two figures may end up in the neighbour's view. Of such a sheet `NothingCutOff` claims what
  is drawn within the padding of the columns with content, and `OwnFigure` the columns with content.
- `OwnFigure` needs a sheet that keeps its promise of one view per cell, or figures (their columns
  with content) further apart than any gap within a figure and by at least `2 * SegmentPadding - 1`
  columns: the padded ranges of closer figures overlap.
- `FitsEntity` excludes a size that changes after it was checked, which no test of the batch notices.
- `ReportIsFinal` and `EveryJobReported` exclude jobs for which two writers of `status.json`
  collided (`raced`), and the former also overlapping status commands: `status` may find the process
  gone and write `failed` over a `done` that was written in between.

### Bounds, and why they are enough

Two workers are the least that contend for a reservation, a row, a client or a lock, and no code
path looks at more than "mine" and "another". Two jobs let one wait while the other is served, one
of them malformed. `Horizon` lets every reservation expire and be taken over at least once, and in
QueueLive lets a job go through a fault, its reservation's expiry, all its attempts and the exit of
the process. `MaxAttempts` is 2: below it, at it and beyond are reached. One mishap, or one fault,
is what separates the properties' bounds (`1 + mishaps`) from unbounded repetition; each kind is
tried at every step. Three envelopes are a chain, its follow-up and a fork. Two deliveries are the
least that race for an event number or the sidecar; they are of one task or of two tasks with one
panel. Two changes of a payload let one field decide how another is read (a sheet and views, an
entity and its physical input), and reach each branch of the hydration. Nine columns hold three
figures with padded gaps between them; one faint column (`MaxFaint`) can lie at the edge of the
sheet, in a gap or within a figure, and one shade (`MaxShades`) besides the lines tells the
tolerances apart. Three registrations are two that overlap and one that comes after them; one place
beside the entity's (`Places`) is enough for two slots to differ. One changed field a PUT
(`MaxChanged`) makes a rename, another version, another body or a switch of `enabled`; with two, TLC
takes longer than five minutes, and the theorems are for any number. Versions up to 2 and two events
are a definition, its replacement and one more request or failure; `MaxRunning` lets both admins be
in a transaction at once while a process starts. Bounds stand in the guards, not in a state
constraint, so liveness is judged on complete behaviours. Deadlock is not checked, because every one
of these instances really comes to an end: the bounded clock, requests or jobs run out.

## 4. Findings

**`LedgerWiped`** (code bug). Whether the manifest has an `artifacts` list is read before the write
and tested by nothing. Without one, the batch *adds* `/artifacts` with an empty list and then appends
(`entityLedger.ts:152`); an add at a path that exists by then replaces it. Two first registrations of
a project that overlap lose the earlier take, where the comment at line 52 says "append-only, never
overwritten". A manifest read that fails is taken for an empty one (line 89), with the same effect on
a list of any length.

**`DefinitionsPerType`** (divergence from the documentation). `src/README.md:594` says that of one
`task_type` only one version should be enabled at a time. `create` and `update` disable the enabled
rows of the same *worker name* only (`taskTypeDefinitionStore.ts:151` and `:213`). In the run the server
creates its built-in definition, then a single POST enables one of the same task type for another
worker. Both stay enabled; `getEnabledByTaskType` (line 80), which chooses the definition that payloads
are validated by, takes the one with the higher version, or the later one, of any worker.

Other places where the code does less than its documents say were met while modelling and are kept as
the conditions above: revived rows (`src/docs/hunyuan3d-three-view-integration.md:90`), accepted rows
nobody drives (the same document, line 150), two current takes (`entityLedger.ts:146` against line
53), a slot that names a take which a registration for a depiction has unset (`entityLedger.ts:148` and
`:267` against "the entity's `model3d` slot mirrors the current take" and "no … drift" in lines 53
and 54), a preset that a registration overwrites (`entityLedger.ts:182` against
`entityLedger.test.ts:145`), and the catch at `taskTypeDefinitionStore.ts:369` that never matches. The
comment of the built-in definition says of the leaves below an umbrella field that they are not there
for validation, which is the worker's (`taskTypeDefinitionStore.ts:736`); but a payload whose
`turnaround.normalized` is neither a boolean nor the text of one is refused by the rule at line 755,
where the worker would take anything but `true` for false (`threeViewPayload.ts:184`). TLC finds it
when `KnownFields` is stated without its last conjunct.

## 5. Fairness

- **QueueLive.** Weak fairness for what each worker does by itself (the event loop runs what is due,
  Redis answers what is next in line), for the rejections of a closed client, for the restart by
  supervisord (`autorestart=true`) and for the end of abandoned handlers. Strong fairness for the
  clock, because due steps come before it again and again. Nothing is fair about faults, nor about
  which way a handler ends.
- **StephenLive, Trainer.** Weak fairness for requests and runs. Strong fairness for the delivery
  of each envelope: the workers that could take it are busy again and again, and migration and
  reservation go by time, so none is passed over for ever. StephenLive expects the provider to settle
  its jobs; Trainer expects nothing of it but that time passes.
- **Definitions.** Weak fairness for each client: a request is answered, one way or the other, and a
  process that ended is restarted.
- **LoraTrainer.** Weak fairness for each command and for the training process: the training ends or
  is killed, and the worker keeps polling. That another process gets the pid of a dead one is excluded.

## 6. What is proved

Everything below is proved for every set of workers, processes, jobs, requests, registrations, runs
or callers, and all values of the bounds. Unless a theorem names another, the only assumptions are the
types of the constants, stated with them.

**Queue** (`QueueWorkersProofs`). The assumptions are `QueueAssumption`
(`RetryAfter` and `BatchSize` positive, `Backoff` a sequence of naturals, malformed jobs are jobs)
and `WorkerAssumption` (each worker is in a process, the numbers are numbers, `NoJob` is no payload).

| Theorem | Statement |
|---|---|
| `TypeCorrectness` | `Spec => []TypeOK` |
| `NothingIsLost` | `Spec => []NoJobLost`: an enqueued job is in Redis, completed, or in `failed_jobs` |
| `TokensAreBacked` | `Spec => []NoSpareToken`: never more notify tokens than ready jobs |
| `Refinement` | `Spec => KeepsPromise`: initial states map to initial states, each step to a step or a stutter |
| `OneHolder` | under `Prompt`, `Spec => []SingleReservation`: whoever has a job has it alone, and no copy of it waits |
| `OneAttemptPerFault` | under `Prompt`, `Spec => []AttemptsAccounted`: at most `MaxAttempts` attempts, and one more per fault |
| `LateWorkersAreFenced` | `Spec /\ []NoTwins => ReservationsFenced`: no late ack or release removes the valid reservation of another |
| `PromptMakesNoTwins` | under `Prompt`, `Spec => []NoTwins` |

The first four rest on `Invariance`, `Spec => []Inv` with

    Inv == QueueOK /\ ControlOK /\ RestOK /\ KnownJobs /\ SettledOnRecord /\ NoJobLost /\ NoSpareToken

`NoJobLost` is not inductive by itself. An ack removes a job from Redis, so one has to know that a
worker which is about to ack has put the outcome on record: `SettledOnRecord` says so of the locations
`ack` and `ackFailed`. A handler that returns may only complete a job that was enqueued: `KnownJobs`
says that everything in Redis, in a worker's hands or abandoned was. `QueueOK` is the queue's type
together with the finiteness of the sorted sets, which the migrations need to pick the earliest
members. The lemmas of the first part state once what each script does to the stored jobs and to the
tokens (migrations move, the pop moves one, the release moves or adds, the ack forgets at most its
own); those of the second take one action each and give `Inv'` together with the step of
`AtLeastOnceQueue` that it is. The proof covers crashes, lost calls, hangs, late workers and closed
clients: these theorems have no condition on time.

The next two are about time. `Prompt`, their hypothesis and the condition of the two properties, is

    Timeout + Latency + 3 * Longest < RetryAfter        (Longest is the larger of Latency and InLine)

`SingleReservation` follows from `SingleOK == Timely /\ Apart /\ HeldAlone`. `Timely`: no step has
been due for longer than the model of time lets it. `Apart`: a job is in one place of Redis, and once.
`HeldAlone`: the reservation of a worker's job outlives, by the budget `Needed` of the worker's
location, what that worker still has to do, so that the migration of what has expired never finds it.
Each transition spends what it takes out of the budget; `Durations` says that the sums work out, and
`Prompt` that the first budget fits.

`AttemptsAccounted` needs to know which fault is to blame for which redelivery. A job comes back
beyond its count only through a process that is *doomed*: its client is closed, or will be without
another fault, after a signal, a rejected call or a hang. Each doomed process is at least one fault.
`Threats(job)` are the doomed processes that may still lose the job; `CountOK` says that attempts and
threats together stay within `MaxAttempts + faults`, wherever the job is: a redelivery trades a threat
for an attempt.

`LateWorkersAreFenced` is for workers that are not prompt. Late workers may multiply a job, and what
then keeps them apart are two numbers in the payload. The texts with one id and one `availableAt` are
one copy (`SameCopy`): a copy is in one place of Redis (`CopiesApart`), and each time it is served it
gets one attempt more, so no two workers have the same text (`ServedOnce`) and the ZREM of one never
hits the other's. `Begun` says that a clock value sent along with a call is not from the future, so a
migration finds only what has expired. A release starts a copy of its own; that no other has its
`availableAt` is the hypothesis, `NoTwins`. Prompt workers fulfil it, as `HeldAlone` says. It also
holds of the instance of QueueLate, whose late workers do duplicate jobs: TLC finds no state without it
there when it is added to the run's invariants, and one at once if the backoff is dropped. Nothing is
assumed about timeouts, latencies, crashes or the number of attempts.

**Tasks** (`TaskLifecycleProofs`, `StephenTaskProofs`, `TrainerTaskProofs`).

| Theorem | Statement |
|---|---|
| `ChainsAreAccounted`, `ResultsAreAccounted` | of a render task: at most `1 + mishaps` polling chains, and as many results |
| `TrainerChainsAreAccounted`, `TrainerResultsAreAccounted` | the same of a task of the worker's own job: chains, and outcomes that are finalized |
| `SucceededPublished` | its row says succeeded only with an artifact of a job the provider finished |
| `FinishedStays`, `FinishedTasksStay` | a finished row stays once nobody is left who read it before (render; worker's own jobs) |
| `TasksAreDriven`, `TrainerTasksAreDriven` | `RunsOnly`, that is only crashes, rejected calls of runs and cancellations: an unfinished task has an envelope, a request or a row in `failed_jobs` (render; worker's own jobs) |
| `SucceededTasksAreDone` | a task of the worker's own job that succeeded names a job that is done, and was finalized |
| `OneJobPerTask` | without a mishap the worker submits one job |

`TaskOK`, shared by all, says who holds which envelope, that nothing is there before the row is, and
that one request creates it. Neither count is inductive: a lost reservation leaves a run whose
envelope starts again, and both may publish. `Counted` bounds, together, the chains, the runs that
lost their envelope (strays), the results and the task still to be created; its lemmas are about the
shared steps and take, as a parameter, the steps at which a run of the kind has published, so that
each kind of task adds its own steps only. `Alive` is split in the same way. The two counts and
`Driven` are no properties of the runs of the worker's own jobs, where they hold for the reasons the
runs of render tasks show; as further invariants of Trainer (`Driven` without failures of the API)
TLC finds no state without them. `Provided` follows the number of the provider's job through
request, envelope and run, and knows of a run past the poll that it found that job done; `Trained`
does the same where jobs come one after the other. `EarlyUnfinished` makes a run count as one that
read the unfinished row for as long as it saves that record. `Alive` says of each step at which an
envelope leaves the queue that it leaves a finished task, a follow-up or a record. `Single` is the
picture without mishaps: one run at work *or* one waiting envelope is all there is of a task, and
where no job is recorded there is none, but in the hands of the run that has just submitted it.

**Log, rows and outputs of a run** (`RenderPublicationProofs`). Beyond the types of the constants the
assumptions only say that the marks used next to runs are none (`ApiIsNoRun`, `NoFileIsNoRun`).

| Theorem | Statement |
|---|---|
| `LogsAreComplete` | `Spec => []LogIsComplete`: what a run has appended is in the log, in its order, and the numbers have no gap |
| `RecordsAlwaysAgree` | `Spec => []RecordsAgree`: row, last event and attempt agree at rest |
| `SucceededAreListed`, `ListedAtMostOnce` | `Spec => []SucceededIsListed`, `Spec => []ListedOnce`: a succeeded task is listed; in the sidecar once, in the manifest once per run |
| `OutputsAreKept` | `Spec => OutputsKept`: no step takes an output off the panel |

They follow from `PublicationOK == RunsOK /\ LogOK /\ RecordsOK /\ OutputsOK`. `RunsOK` has the order
of a run's calls: who has an outcome, who has uploaded. `LogOK` says that the numbers of a log are
`1..k` and that a number somebody has read is at most one beyond: only then does an insert under a
free number leave no gap, and the unique index is what makes the number free. It also bounds a run's
events by the appends that returned and one per mishap, since an insert whose reply is lost is there
as well. `RecordsOK` follows a task whose runs do not overlap through its three statements: what the
run at work has recorded so far, or, at rest, all of it. `OutputsOK` joins the files to the rows: the
sidecar's name never leads to a file that is being written, and the run that is inside
has read what is there now. Without `~raced` neither is true, as TLC shows. The temporary file may
be there between two runs, left by one that was cut short; the next run reuses it.

**Task-type definitions** (`TaskDefinitionsProofs`). The assumption is `DefinitionAssumption`: the two
processes and the requests are different clients, and the marks for "none" and for a deleted row are
neither bodies nor rows.

| Theorem | Statement |
|---|---|
| `OneIsEnabled` | `Spec => []OneEnabled`: no worker name has two enabled rows while requests do not overlap |
| `RestIsPublished` | `Spec => []PublishedIsEnabled`: at rest the platform has what is enabled, if nothing failed |

`CleanOK == ~overlapped => Clean` is the first's invariant. Its core is `Covered`: a transaction past
its "disable the others" has disabled, or still has to lock, every enabled row of its name, which the
snapshot of READ COMMITTED gives only if nobody commits in between. A request is alone
(`Alone`); two processes that start are not, and what saves them is the version they insert.
`Fresh(version)` says that it is the next one, and of two that hold the same version the unique index
lets one through; the other's is no longer fresh, so it never commits (`StarterOK`, `OneCommits`).

`CurrentOK` is the second's. From the moment the API publishes, what the platform has for a name is
what the table has, or some client still owes that name a publication (`Owes`), and whoever has read
a definition in order to publish it has read the present one. The worker may still be starting then.
`Settled` says why this does no harm: it finds a definition that is not outdated, or the one it adds
is the same; and `Beginning` what the API can rely on before it lets the first request in.

**Entity ledger** (`Model3dProofs`, first part).

| Theorem | Statement |
|---|---|
| `LedgerTypes`, `SlotAndManifestAgree` | types; the slot that was written last names a take that is current in the manifest |
| `NoDriftWithoutDepictions` | if `Places = {Entity}`, every slot that names a take names a current one |
| `HashedModelsFit` | a hashed registration fits the size, unless that changed after the check |
| `MeasurementsEnd` | a measurement is pending only after a failure or two foreign writes |
| `VersionsAreDistinct`, `ChoicesAreProtected` | under `DistinctPrefixes`: takes have distinct versions; a protected registration never replaces what a person chose |

The first two are inductive. `SizesKnown` is what a run knows of the size at each step;
`AllAccounted` how far the project's revision has moved since the run wrote. `Lineage` says that the
job in a worker's version belongs to a run that has written, and the number in a person's to its
place, although a list can be replaced by one with a single take. `AllGuarded` says what the tests of
the batch may count on: as long as the current take a protected run has read is where it was, nobody
has chosen another. `DistinctPrefixes` is a real condition: six characters of a job's identifier are
all that tells two takes with the same number apart.

**Sheets** (`Model3dProofs`, second part). The assumptions are a width of at least one column and a
padding that is a natural number.

| Theorem | Statement |
|---|---|
| `IntakeCutsNothingOff` | `IntakeSpec => []NothingCutOff`: what is drawn on a normalized sheet is in one of the views, and on a measured one what is within the padding of the columns with content |
| `IntakeShowsOwnFigures` | `IntakeSpec => []OwnFigure`: a view shows all of its own figure and none of another (on a measured sheet, as far as columns with content go), and begins and ends where something is drawn |
| `IntakeStagesFromSheet` | what is staged for a sheet is the cut of that very sheet |

The widest gaps and the separators between them are sorted sets. They are defined by rank, the
number of elements that come before, so that no recursion is involved: in a finite set under a
strict total order every rank below the cardinality is taken once (`Ranked`). The middles of the
chosen gaps then increase, a view lies between two of them (`LeftEdge`, `RightEdge`), and the
padding only widens it (`Reach`); as the middle of a gap has no content, every column with content,
and what the padding reaches from there, is in some view. For the figures, `Apart` says in terms of
the sheet what `WellApart` asks for: the gaps between figures are `count - 1` and wider than the
rest, hence they are the ones chosen, and the padding ends before it meets the next figure. A sheet
that is cut into equal parts has its figures in cells. Either way (`Separate`) what is clear in a
range is of one figure, and trimming leaves the hull of what is drawn there (`Hull`). `WellApart`
and the promise of `normalized` are the conditions of the property itself.

**Payloads** (`Model3dProofs`, third part), for every set of documents as payloads, every set of
orderly definitions, any keys and any asset URIs.

| Theorem | Statement |
|---|---|
| `NormalizedPayloadConforms` | what an orderly list of rules makes of a document satisfies each of the rules |
| `IntakeConforms` | `IntakeSpec => []Conforms` |
| `WorkerAndDefinitionAgree` | a document of known fields that the worker can use is accepted by the built-in definition, and each result is read by the worker as the document was |
| `IntakeRefusesNothingConsumed` | under `Upgraded`, `IntakeSpec => []NothingConsumedIsRefused` |
| `IntakeHasFront` | the worker never stands there without a front view, whatever the definition |

A payload is a function on paths, so the first lemmas are about paths (what is left of one below
another, and which are beside each other) and about `Get` and `Set`: what was set is found, what is
beside it has not changed, what is above it is an object. The rounds are a recursive function, whose
equation `RoundsUnrolled` establishes without induction over data: of the lengths up to which no such
function exists, one would be the smallest. In the same way `EveryRound` shows that no round is the
first after which `Progress` fails. `Progress` is the invariant of the rounds: each rule that was
applied has left one of its outcomes, or an object that fields below it have been set in (`Settled`);
what no rule has touched is as it was posted (`Untouched`, `AsPosted`); and nothing is there that did
not come with a field (`Kept`). The order of an orderly list is what makes it true: an umbrella that
came after its fields would copy the posted object over them.

For the agreement both readings are taken apart field by field. `NormalizedAgain` says that a
normalised value stays as it is when it is normalised once more; the lemmas of "What the definition
and the worker take a value for" compare `String(value || '')` with `String(value ?? '')` and the
truncations of numbers; then each part of `Hydrated`, the sheet, the views, the target, the preset,
the numbers, is the same of what was stored as of what was posted. `Agreed` and `FrontAhead` carry
this through the states of the intake. The hypothesis `Upgraded` says that every definition an
earlier release has left is found outdated when the server starts, or is the built-in one; TLC
evaluates it for the releases of the run (`MCThreeViewIntake`). A hand-made definition that has the
umbrellas and the enum, but asks for something else below, is not upgraded by the code, and the
theorem says nothing about it.

**LoRA trainer** (`LoraTrainerProofs`). `OwnScriptRuns`: a job runs the script of the build that
submits it. The script is moved before its hash, so a hash of this build vouches for the script
(`HashVouches`), and whoever is past a move, or ready, finds it in place (`Installing`).
`SucceededWasTrained`: what finalize calls succeeded was trained to its end and has its model and its
metadata, for any number of commands that poll at the same time and a kill anywhere. The property
looks at the last answer only; `DoneIsTrue` says it of every "done", in any inode and in the hands of
any process, since a late writer may bring an old one back. `AnswersStay`: a final answer stays
(`ReportIsFinal`). After it nobody is left who would write `status.json` (`Final`): a final status is
written by the training process as the last thing it does (`NotOver`), or by a command that has found
it dead and replaces only a status that is not final (`Polling`), one command at a time (`OnePolls`).
As long as no two writers collide, whoever writes has the temporary to itself (`Orderly`), so what is
renamed is what was written. All of that is `ReportOK`. The assumption is `RunnerAssumption` (the
submitter, the training process and the pollers are different processes). The number of inodes that
are followed, four, stays a bound of the model: opening a new file needs one that is unused.

No proved module declares or reaches a recursive operator.

## 7. What is only model-checked

- All liveness (`EveryJobSettles`, `StopsWhenTold`, `EveryTaskFinishes`, `DeadlineEndsPolling`,
  `StartsSucceed`, `EveryJobReported`): TLAPS does not prove liveness under fairness.
- `NoTwins` of late workers. It is not true without bounds: two handlers that outlived their
  reservations and throw in the same second release copies with one count and one time (section 3).
- `LedgerWiped` and `DefinitionsPerType`, which are counterexamples.
- That `BuiltIn` passes its own validation and that the instances satisfy `Upgraded`,
  `PayloadsAssumption` and `RulesAssumption`: TLC evaluates these for the values of the runs.

All safety properties of the passing runs are proved. TLC still has its part in them: each was checked
before it was proved, and it is TLC that shows, by the mutants and by runs without them, that their
conditions are needed.

Type invariants are proved where a proof needs them (`TypeOK` of queue and ledger, `TaskTypes`,
`SyncOK`, `RunTypes`, `Types`); one is among the properties of a run.

## 8. What is not modelled

- *Render client, workflows, asset store, Hunyuan3D client, platform client*: HTTP and storage. Their
  outcomes are the provider's answers and the rejected calls of the task modules; the upload of an image
  and the platform's batches are steps of `RenderPublication` and `EntityLedger`.
- *Payloads of the other task types* (`render/payload.ts` and its relatives) and the validation of a
  definition that is posted: sequential checks of single fields.
- *Images*: rows and heights of a view, the canvas all views are padded to, the image library. A
  column of a sheet is dark, faint or blank, which is all that the measurement asks of its rows. A
  `formatVersion` such as "constructor", which `in` finds in any object (`threeViewPayload.ts:172`),
  reaches the slicer and makes it throw, or throws at once where views are given with it
  (`threeViewPayload.ts:207`, `LayoutMissing`), so the task fails on an error instead of being
  rejected: the model has both, no property is about them.
- *Infrastructure*: connections, schema, logging. One fact of it is used: a closed database pool is
  opened again by the next caller, so only the Redis client stays closed.
- *Of modelled components*: worker options that `worker-cli` never sets (`maxJobs`, `maxTime`, `once`,
  `stopWhenEmpty`, control file); the publisher's file mode and heartbeats; `ensureWorkerNames`; two
  *different* builds installing their scripts at the same time (the hash may then vouch for the other's
  script); the training commands themselves; in `EntityLedger`, a hash without a size anywhere, which
  is always rejected before registration.

## 9. Plan

The order was: the queue and its workers first, because every task runs on them; then the task
modules on top of what the queue promises; then the shared documents that several tasks write
(ledger, definitions, log, sidecar); then the trainer and the payloads; and, module by module, the
proofs. All of these stand. What remains open:

1. **Model.** Two builds in `LoraSync`; heartbeats and the file mode of the publisher; the payloads of
   the other task types, on the operators of `PayloadSchema`.
2. **Prove.** A bound on backoff and lateness under which `NoTwins` holds.

## Running it

    tlc -workers 2 -config QueueLate.cfg MCQueueWorkers
    tlapm QueueWorkersProofs.tla && tlapm RenderPublicationProofs.tla
    tlapm TaskLifecycleProofs.tla && tlapm StephenTaskProofs.tla && tlapm TrainerTaskProofs.tla
    tlapm Model3dProofs.tla && tlapm LoraTrainerProofs.tla && tlapm TaskDefinitionsProofs.tla

The run of a `.cfg` is the MC module of its first word as listed in section 3: `Queue*` with
MCQueueWorkers, `Stephen*` with MCStephenTask, `Trainer` with MCTrainerTask, `Publication` with
MCRenderPublication, `Intake` with MCThreeViewIntake, `Ledger*` with MCEntityLedger, `Definitions*`
with MCTaskDefinitions, `LoraTrainer` with MCLoraTrainer. Intake and Definitions take the longest,
about two minutes each. The proofs take
from one minute (TaskLifecycleProofs) to ten (Model3dProofs) each when nothing is remembered.
