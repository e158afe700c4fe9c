--------------------------- MODULE TaskDefinitions ---------------------------
(* The table task_type_definitions, for one task_type, and the worker       *)
(* registry that is rebuilt from it: the requests of app.ts to create,      *)
(* change and delete definitions, the transactions of                       *)
(* TaskTypeDefinitionStore in PostgreSQL's READ COMMITTED, the built-in     *)
(* definition both processes look after when they start, and the            *)
(* publications of WorkerRegistryPublisher.                                 *)
(*                                                                          *)
(* An UPDATE ... WHERE first takes the rows that match in the rows          *)
(* committed by then, and then, one by one, waits for the transaction that  *)
(* has written the row and tests it again.  A row that starts to match in   *)
(* between is not seen.                                                     *)
EXTENDS Naturals, Sequences, FiniteSets, FiniteSetsExt, Relation

CONSTANTS
  Admins,        \* requests to /task-definitions that run at the same time
  Server,        \* the API process
  Worker,        \* the worker-cli process
  Names,         \* worker names
  WorkerName,    \* the name of the built-in definition, WORKER_NAME
  None,          \* no definition published
  Gone,          \* a deleted row
  \* Bounds.
  MaxVersion,
  MaxEvents,     \* requests and failures
  MaxChanged,    \* fields that a request changes
  MaxRunning     \* a request is let in beside fewer than this many clients

(* The body "builtin" is what this build carries; "old" lacks a field or an *)
(* enum value it requires; "custom" is anybody's.                           *)
Bodies == {"old", "builtin", "custom"}

Row == [worker : Names, version : Nat, enabled : BOOLEAN, body : Bodies]

ASSUME DefinitionAssumption ==
  /\ WorkerName \in Names
  /\ Server # Worker /\ Server \notin Admins /\ Worker \notin Admins
  /\ None \notin Bodies /\ Gone \notin Row
  /\ MaxVersion \in Nat \ {0} /\ MaxEvents \in Nat
  /\ MaxRunning \in Nat \ {0}

VARIABLES
  table,       \* the rows in the order of their ids
  clients,     \* what each request and each starting process does
  published,   \* the schema the platform has for each worker name
  requests, failures, \* how many there were
  overlapped   \* a request ran while something else did

vars == <<table, clients, published, requests, failures, overlapped>>

Starters == {Server, Worker}
Clients == Admins \cup Starters

Rows == {i \in DOMAIN table : table[i] # Gone}

EnabledOf(name) == {i \in Rows : table[i].worker = name /\ table[i].enabled}

(* The enabled row with the highest version, as the registry and the        *)
(* built-in definition choose it for a worker name.  (The validation of     *)
(* payloads chooses among the rows of all names, by version and id.)        *)
Chosen(name) ==
  IF EnabledOf(name) = {} THEN None
  ELSE table[CHOOSE i \in EnabledOf(name) :
               \A k \in EnabledOf(name) : table[k].version <= table[i].version].body

Highest(name) == Max({table[i].version : i \in EnabledOf(name)})

-----------------------------------------------------------------------------
(* Clients.  "targets" are the rows an UPDATE has yet to visit, "disabled"  *)
(* those it has written, "seen" what is to be published.                    *)

NewId == 0

Resting(at) == [at |-> at, id |-> NewId, row |-> Gone, before |-> None,
                targets |-> {}, disabled |-> {}, names |-> <<>>, seen |-> <<>>]

At(c, step) == clients[c].at = step

Busy(c) == clients[c].at \notin {"idle", "ready"}

Steps(c, record) == clients' = [clients EXCEPT ![c] = record]

(* The rows a transaction has written and not yet committed.                *)
Written(c) ==
  clients[c].disabled \cup (IF At(c, "commit") THEN {clients[c].id} \cap Rows ELSE {})

(* An UPDATE of a row deleted meanwhile writes nothing.                     *)
Exists(c) == clients[c].id = NewId \/ clients[c].id \in Rows

WaitsForRow(c, i) == {d \in Clients \ {c} : i \in Written(d)}

Key(row) == <<row.worker, row.version>>

(* The unique index makes a writer wait for those that have written a row   *)
(* with its key.                                                            *)
WaitsForKey(c) ==
  LET key == Key(clients[c].row)
  IN  {d \in Clients \ {c} :
         \/ At(d, "commit") /\ Exists(d) /\ Key(clients[d].row) = key
         \/ \E i \in Written(d) : i # clients[c].id /\ Key(table[i]) = key}

WaitsFor(c) ==
  CASE At(c, "locking") -> UNION {WaitsForRow(c, i) : i \in clients[c].targets}
    [] At(c, "write")   -> IF Exists(c) THEN WaitsForRow(c, clients[c].id) \cup WaitsForKey(c) ELSE {}
    [] At(c, "delete")  -> WaitsForRow(c, clients[c].id)
    [] OTHER            -> {}

Duplicate(c) ==
  Exists(c) /\ \E i \in Rows \ {clients[c].id} : Key(table[i]) = Key(clients[c].row)

-----------------------------------------------------------------------------
(* There may be definitions of each name already, enabled or not, the one   *)
(* of WorkerName of an older build.                                         *)
Init ==
  /\ table \in {<<>>} \cup
       {<<[worker |-> WorkerName, version |-> 1, enabled |-> e, body |-> "old"]>> : e \in BOOLEAN}
       \cup {<<[worker |-> WorkerName, version |-> 1, enabled |-> TRUE, body |-> "old"],
               [worker |-> n, version |-> 1, enabled |-> TRUE, body |-> "custom"]>> :
              n \in Names \ {WorkerName}}
  /\ clients = [c \in Clients |-> Resting(IF c \in Starters THEN "start" ELSE "idle")]
  /\ published = [name \in Names |-> None]
  /\ requests = 0 /\ failures = 0 /\ overlapped = FALSE

(* A request is let in once the API listens.  Requests have no identity: one*)
(* of those that are idle stands for all.                                   *)
Admit(c) ==
  /\ At(c, "idle") /\ c = CHOOSE a \in Admins : At(a, "idle")
  /\ At(Server, "ready")
  /\ requests + failures < MaxEvents /\ requests' = requests + 1
  /\ Cardinality({d \in Clients : Busy(d)}) < MaxRunning
  /\ overlapped' = (overlapped \/ \E d \in Clients \ {c} : Busy(d))

(* BEGIN: an enabled row first disables the others of its worker name.      *)
Opened(id, row, names) ==
  [Resting(IF row.enabled THEN "disable" ELSE "write") EXCEPT
     !.id = id, !.row = row, !.names = names]

Post(c) ==
  /\ Admit(c)
  /\ \E row \in [worker : Names, version : 1..MaxVersion, enabled : BOOLEAN,
                 body : {"custom"}] :
       Steps(c, Opened(NewId, row, <<row.worker>>))
  /\ UNCHANGED <<table, published, failures>>

(* PUT and DELETE read the row for the worker name to publish afterwards.   *)
Find(c) ==
  /\ Admit(c)
  /\ \E i \in Rows, step \in {"put", "delete"} :
       Steps(c, [Resting(step) EXCEPT !.id = i, !.before = table[i].worker,
                                      !.names = <<table[i].worker>>])
  /\ UNCHANGED <<table, published, failures>>

(* A request changes some of the fields; the others keep what it reads.     *)
Changes(row) ==
  {changed \in [worker : Names, version : {row.version} \cup 1..MaxVersion,
                enabled : BOOLEAN, body : {row.body, "custom"}] :
     Cardinality({field \in DOMAIN row : changed[field] # row[field]}) <= MaxChanged}

NamesOnlyNew(before, row) == <<row.worker>>

NamesToSync(before, row) ==
  IF row.worker = before THEN <<before>> ELSE <<before, row.worker>>

(* update() reads the row again, outside the transaction it then opens.     *)
Put(c) ==
  /\ At(c, "put")
  /\ LET i == clients[c].id
         before == clients[c].before
     IN  \/ i \notin Rows /\ Steps(c, Resting("idle"))
         \/ /\ i \in Rows
            /\ \E row \in Changes(table[i]) :
                 Steps(c, Opened(i, row, NamesToSync(before, row)))
  /\ UNCHANGED <<table, published, requests, failures, overlapped>>

Delete(c) ==
  /\ At(c, "delete") /\ WaitsFor(c) = {}
  /\ IF clients[c].id \in Rows
     THEN /\ table' = [table EXCEPT ![clients[c].id] = Gone]
          /\ Steps(c, [clients[c] EXCEPT !.at = "sync"])
     ELSE UNCHANGED table /\ Steps(c, Resting("idle"))
  /\ UNCHANGED <<published, requests, failures, overlapped>>

-----------------------------------------------------------------------------
(* Transactions.                                                            *)

(* Faulty variant: the rows of the same version only.                       *)
OthersOfVersion(c) ==
  {i \in EnabledOf(clients[c].row.worker) : table[i].version = clients[c].row.version}
    \ {clients[c].id}

Others(c) == EnabledOf(clients[c].row.worker) \ {clients[c].id}

(* Those left to visit; then the row itself is written.                     *)
Visits(c, targets, disabled) ==
  Steps(c, [clients[c] EXCEPT !.at = IF targets = {} THEN "write" ELSE "locking",
                              !.targets = targets, !.disabled = disabled])

Disable(c) ==
  /\ At(c, "disable")
  /\ Visits(c, Others(c), {})
  /\ UNCHANGED <<table, published, requests, failures, overlapped>>

(* The next row that nobody else has written; it is written if it matches   *)
(* by now.                                                                  *)
Lock(c) ==
  /\ At(c, "locking")
  /\ \E i \in clients[c].targets :
       /\ WaitsForRow(c, i) = {}
       /\ Visits(c, clients[c].targets \ {i}, clients[c].disabled \cup ({i} \cap Others(c)))
  /\ UNCHANGED <<table, published, requests, failures, overlapped>>

(* INSERT or UPDATE of the row itself; the unique index may refuse it.      *)
Write(c) ==
  /\ At(c, "write") /\ WaitsFor(c) = {} /\ ~Duplicate(c)
  /\ Steps(c, [clients[c] EXCEPT !.at = "commit"])
  /\ UNCHANGED <<table, published, requests, failures, overlapped>>

(* What a client does whose transaction was rolled back or whose request    *)
(* was refused: the request is answered, the process ends and is restarted. *)
GivesUp(c) == Steps(c, Resting(IF c \in Starters THEN "start" ELSE "idle"))

Conflict(c) ==
  /\ At(c, "write") /\ WaitsFor(c) = {} /\ Duplicate(c)
  /\ GivesUp(c)
  /\ UNCHANGED <<table, published, requests, failures, overlapped>>

(* PostgreSQL breaks a cycle of transactions that wait for each other.      *)
InCycle(c) ==
  LET waits == [d, e \in Clients |-> e \in WaitsFor(d)]
  IN  TransitiveClosure(waits, Clients)[c, c]

Deadlock(c) ==
  /\ WaitsFor(c) # {} /\ InCycle(c)
  /\ GivesUp(c)
  /\ UNCHANGED <<table, published, requests, failures, overlapped>>

(* The definition is there: the API goes on to publish, the worker to work. *)
Ensured(c) == Resting(IF c = Server THEN "publishAll" ELSE "ready")

(* COMMIT.  The row of an update may have been deleted meanwhile: what was  *)
(* disabled stays disabled, the answer is an error, nothing is published.   *)
Commit(c) ==
  /\ At(c, "commit")
  /\ LET t == clients[c]
         kept == [i \in DOMAIN table |->
                    CASE i \in t.disabled         -> [table[i] EXCEPT !.enabled = FALSE]
                      [] i = t.id /\ i \in Rows   -> t.row
                      [] OTHER                    -> table[i]]
     IN  /\ table' = IF t.id = NewId THEN Append(kept, t.row) ELSE kept
         /\ CASE c \in Starters -> Steps(c, Ensured(c))
              [] ~Exists(c)    -> Steps(c, Resting("idle"))
              [] OTHER -> Steps(c, [Resting("sync") EXCEPT !.names = t.names])
  /\ UNCHANGED <<published, requests, failures, overlapped>>

-----------------------------------------------------------------------------
(* syncWorker: the enabled rows are read, and published in another step.    *)

Sync(c) ==
  /\ At(c, "sync")
  /\ Steps(c, IF clients[c].names = <<>> THEN Resting("idle")
              ELSE [clients[c] EXCEPT !.at = "publish", !.names = Tail(@),
                                      !.seen = [n \in {Head(clients[c].names)} |-> Chosen(n)]])
  /\ UNCHANGED <<table, published, requests, failures, overlapped>>

(* registry.start() of the API: all names with an enabled row, read at once.*)
PublishAll(c) ==
  /\ c = Server /\ At(c, "publishAll")
  /\ Steps(c, [clients[c] EXCEPT !.at = "publish",
                  !.seen = [n \in {n \in Names : EnabledOf(n) # {}} |-> Chosen(n)]])
  /\ UNCHANGED <<table, published, requests, failures, overlapped>>

Publish(c) ==
  /\ At(c, "publish")
  /\ IF DOMAIN clients[c].seen = {}
     THEN /\ Steps(c, IF c \in Starters THEN Resting("ready") ELSE [clients[c] EXCEPT !.at = "sync"])
          /\ UNCHANGED published
     ELSE \E n \in DOMAIN clients[c].seen :
            /\ published' = [published EXCEPT ![n] = clients[c].seen[n]]
            /\ Steps(c, [clients[c] EXCEPT !.seen = [m \in DOMAIN @ \ {n} |-> @[m]]])
  /\ UNCHANGED <<table, requests, failures, overlapped>>

-----------------------------------------------------------------------------
(* ensureBuiltInDefinition, by the API and the worker when they start.      *)

BuiltIn(version) ==
  [worker |-> WorkerName, version |-> version, enabled |-> TRUE, body |-> "builtin"]

Versions == {table[i].version : i \in {i \in Rows : table[i].worker = WorkerName}}

(* The enabled definition, the number of definitions and the versions are   *)
(* read one after the other.                                                *)
Start(c) ==
  /\ At(c, "start")
  /\ CASE Chosen(WorkerName) = None  -> Steps(c, Resting("count"))
       [] Chosen(WorkerName) = "old" ->
            Steps(c, [Resting("number") EXCEPT !.row = BuiltIn(Highest(WorkerName))])
       [] OTHER                      -> Steps(c, Ensured(c))
  /\ UNCHANGED <<table, published, requests, failures, overlapped>>

Count(c) ==
  /\ At(c, "count")
  /\ Steps(c, IF Versions = {} THEN Opened(NewId, BuiltIn(1), <<>>) ELSE Ensured(c))
  /\ UNCHANGED <<table, published, requests, failures, overlapped>>

(* Faulty variant: the version after the enabled one.                       *)
NumberAfterEnabled(c) ==
  /\ At(c, "number")
  /\ Steps(c, Opened(NewId, BuiltIn(clients[c].row.version + 1), <<>>))
  /\ UNCHANGED <<table, published, requests, failures, overlapped>>

Number(c) ==
  /\ At(c, "number")
  /\ LET version == Max({clients[c].row.version} \cup Versions) + 1
     IN  Steps(c, Opened(NewId, BuiltIn(version), <<>>))
  /\ UNCHANGED <<table, published, requests, failures, overlapped>>

-----------------------------------------------------------------------------
(* A connection of a request breaks: its transaction is rolled back, and    *)
(* nobody publishes what was not published.                                 *)
Fails(c) ==
  /\ requests + failures < MaxEvents /\ failures' = failures + 1
  /\ Busy(c) /\ Steps(c, Resting("idle"))
  /\ UNCHANGED <<table, published, requests, overlapped>>

(* A process ends, with its requests and transactions, and is restarted.    *)
Restart(p) ==
  /\ requests + failures < MaxEvents /\ failures' = failures + 1
  /\ clients' = [c \in Clients |->
                   CASE c = p                           -> Resting("start")
                     [] p = Server /\ c \in Admins     -> Resting("idle")
                     [] OTHER                           -> clients[c]]
  /\ overlapped' = (overlapped \/ (p = Worker /\ \E c \in Admins : Busy(c)))
  /\ UNCHANGED <<table, published, requests>>

Transaction(c) == Disable(c) \/ Lock(c) \/ Write(c) \/ Conflict(c) \/ Commit(c)

Proceeds(c) ==
  \/ Put(c) \/ Delete(c) \/ Transaction(c) \/ Deadlock(c)
  \/ Sync(c) \/ PublishAll(c) \/ Publish(c)
  \/ Start(c) \/ Count(c) \/ Number(c)

Next ==
  \/ \E c \in Admins : Post(c) \/ Find(c) \/ Fails(c)
  \/ \E c \in Clients : Proceeds(c)
  \/ \E p \in Starters : Restart(p)

Spec == Init /\ [][Next]_vars

(* Each client goes on: requests are answered one way or the other, and     *)
(* supervisord restarts what ends.                                          *)
FairSpec == Spec /\ \A c \in Clients : WF_vars(Proceeds(c))

-----------------------------------------------------------------------------
(* Properties.                                                              *)

(* One enabled row for each worker name, which is what the transactions     *)
(* look after.  Requests that do not overlap keep it so, and so do the two  *)
(* processes that create or replace the built-in definition at the same     *)
(* time: the unique index lets one of them through, and the other starts    *)
(* again.  That is less than README.md:594 asks for: OneEnabledPerType.     *)
OneEnabled == ~overlapped => \A name \in Names : Cardinality(EnabledOf(name)) <= 1

(* README.md:594 asks for one enabled row of the task_type, whatever its    *)
(* worker names: no transaction enables a second one while requests do not  *)
(* overlap.  But one that names another worker does.                        *)
Enabled == {i \in Rows : table[i].enabled}

OneEnabledPerType ==
  [][~overlapped' /\ Cardinality(Enabled) <= 1 => Cardinality(Enabled') <= 1]_vars

(* Once everything has come to rest, the platform has the enabled           *)
(* definition of each worker name, also of one that lost its last, provided *)
(* that requests did not overlap (the later publication may be the older)   *)
(* and that nothing failed between a commit and its publication.            *)
PublishedIsEnabled ==
  (\A c \in Clients : ~Busy(c)) /\ ~overlapped /\ failures = 0 =>
    \A name \in Names : published[name] = Chosen(name)

(* Both processes get started: one that loses the race to create a          *)
(* definition finds it the next time.                                       *)
StartsSucceed == \A p \in Starters : At(p, "start") ~> At(p, "ready")
=============================================================================
