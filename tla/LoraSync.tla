------------------------------- MODULE LoraSync -------------------------------
(* loraTrainerSync.ts: before a submission, a worker process makes sure that *)
(* the GPU machine has the runner script of this build.  The files there are *)
(* replaced one after the other, under a lock that ends with the connection. *)
EXTENDS Naturals

CONSTANTS
  Callers,       \* worker processes; within one, activeSync joins the callers
  Version,       \* the script of this build, and its hash
  Old,           \* that of an earlier build
  Missing,       \* no file, or no holder of the lock
  MaxBreaks      \* bound: connections and processes that break

ASSUME SyncAssumption ==
  /\ Version # Old /\ Missing \notin {Version, Old} \cup Callers
  /\ MaxBreaks \in Nat

VARIABLES
  remote,    \* the script, its .sha256 and whether the wrapper exists
  lock,      \* who holds .sync.lock
  syncing,   \* where each caller is
  breaks

syncVars == <<remote, lock, syncing, breaks>>

At(c, step) == syncing[c] = step
Goes(c, step) == syncing' = [syncing EXCEPT ![c] = step]

UpToDate == remote.sha = Version /\ remote.script # Missing /\ remote.wrapper

(* Nothing there yet, or an earlier build, completely installed or not.      *)
SyncInit ==
  /\ remote \in {[script |-> Missing, sha |-> Missing, wrapper |-> FALSE]} \cup
                [script : {Old}, sha : {Old, Missing}, wrapper : {TRUE}]
  /\ lock = Missing /\ breaks = 0
  /\ syncing = [c \in Callers |-> "idle"]

Ensure(c) == At(c, "idle") /\ Goes(c, "reading") /\ UNCHANGED <<remote, lock, breaks>>

(* One command reads the three; none of them ever vanishes.                  *)
ReadRemote(c) ==
  /\ At(c, "reading") /\ Goes(c, IF UpToDate THEN "ready" ELSE "copying")
  /\ UNCHANGED <<remote, lock, breaks>>

(* mkdir and scp, to a name of this process and moment.                      *)
Copy(c) ==
  /\ At(c, "copying") /\ Goes(c, "waiting")
  /\ UNCHANGED <<remote, lock, breaks>>

Flock(c) ==
  /\ At(c, "waiting") /\ lock = Missing /\ lock' = c /\ Goes(c, "checking")
  /\ UNCHANGED <<remote, breaks>>

(* Another caller may have done it while this one waited.                    *)
Check(c) ==
  /\ At(c, "checking")
  /\ IF UpToDate THEN Goes(c, "ready") /\ lock' = Missing
                 ELSE Goes(c, "script") /\ UNCHANGED lock
  /\ UNCHANGED <<remote, breaks>>

(* Faulty variant: the hash before the script.                               *)
HashFirst(c) ==
  /\ At(c, "script") /\ remote.sha # Version
  /\ remote' = [remote EXCEPT !.sha = Version]
  /\ UNCHANGED <<lock, syncing, breaks>>

MoveScript(c) ==
  /\ At(c, "script") /\ Goes(c, "sha")
  /\ remote' = [remote EXCEPT !.script = Version]
  /\ UNCHANGED <<lock, breaks>>

HashThenScript(c) == HashFirst(c) \/ (remote.sha = Version /\ MoveScript(c))

Move(c) == MoveScript(c)

MoveSha(c) ==
  /\ At(c, "sha") /\ Goes(c, "wrapper")
  /\ remote' = [remote EXCEPT !.sha = Version]
  /\ UNCHANGED <<lock, breaks>>

MoveWrapper(c) ==
  /\ At(c, "wrapper") /\ Goes(c, "ready") /\ lock' = Missing
  /\ remote' = [remote EXCEPT !.wrapper = TRUE]
  /\ UNCHANGED breaks

(* The connection or the process is gone; the kernel gives the lock back.    *)
(* An installation that outlives its caller is one of another caller.        *)
Break(c) ==
  /\ ~At(c, "idle") /\ breaks < MaxBreaks /\ breaks' = breaks + 1
  /\ Goes(c, "idle") /\ lock' = IF lock = c THEN Missing ELSE lock
  /\ UNCHANGED remote

SyncStep(c) ==
  \/ Ensure(c) \/ ReadRemote(c) \/ Copy(c) \/ Flock(c) \/ Check(c)
  \/ Move(c) \/ MoveSha(c) \/ MoveWrapper(c)
=============================================================================
