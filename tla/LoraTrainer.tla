----------------------------- MODULE LoraTrainer -----------------------------
(* submitLoraTrainerJob and what follows on the GPU machine: a worker makes   *)
(* sure of the script, runs it to submit a job, and polls the job.            *)
EXTENDS LoraSync, LoraRunner

VARIABLE ran   \* the script that the job was submitted with

vars == <<syncVars, runnerVars, ran>>

Init == SyncInit /\ RunnerInit /\ ran = Missing

(* Bound: the other workers are not followed past the submission; without one *)
(* they go on.                                                                *)
Sync(c) == ran = Missing /\ SyncStep(c) /\ UNCHANGED <<runnerVars, ran>>

BreakSync(c) == ran = Missing /\ Break(c) /\ UNCHANGED <<runnerVars, ran>>

(* The wrapper executes whatever script is there by now.  Bound: no other     *)
(* worker is halfway through; RunsOwnScript looks at those moments too.       *)
Launch(c) ==
  /\ At(c, "ready") /\ \A d \in Callers : At(d, "idle") \/ At(d, "ready")
  /\ Submit
  /\ ran' = remote.script
  /\ UNCHANGED syncVars

Command(p) == RunnerStep(p) /\ UNCHANGED <<syncVars, ran>>

KillChild == Kill /\ UNCHANGED <<syncVars, ran>>

Next ==
  \/ \E c \in Callers : Sync(c) \/ BreakSync(c) \/ Launch(c)
  \/ \E p \in Processes : Command(p)
  \/ KillChild

Spec == Init /\ [][Next]_vars

(* Commands go on, the training ends, and the worker keeps polling.           *)
FairSpec == Spec /\ \A p \in Processes : WF_vars(Command(p))

-----------------------------------------------------------------------------
(* A job is run by the script of the build that submits it, also when an      *)
(* earlier installation broke off half-way (all workers are of one build).    *)
RunsOwnScript ==
  /\ ran \in {Missing, Version}
  /\ \A c \in Callers : At(c, "ready") => remote.script = Version /\ remote.wrapper
=============================================================================
