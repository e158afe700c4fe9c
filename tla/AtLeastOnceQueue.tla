--------------------------- MODULE AtLeastOnceQueue ---------------------------
(***************************************************************************)
(* What the queue promises to those who enqueue: every job is run at least  *)
(* once, or given up on the record.  A job is pending from the moment it is *)
(* submitted; it stops being pending only once a handler of it returned or  *)
(* its failure was recorded.  Nothing is promised about "at most once": a   *)
(* job may run again, finish again and become pending again (Revive), which *)
(* a worker that lost its reservation makes happen by releasing the job.    *)
(***************************************************************************)
CONSTANT Jobs

VARIABLES submitted, pending, completed, givenUp

vars == <<submitted, pending, completed, givenUp>>

Init ==
  /\ submitted = {}
  /\ pending = {}
  /\ completed = {}
  /\ givenUp = {}

Submit(job) ==
  /\ job \notin submitted
  /\ submitted' = submitted \cup {job}
  /\ pending' = pending \cup {job}
  /\ UNCHANGED <<completed, givenUp>>

Complete(job) ==
  /\ job \in submitted
  /\ completed' = completed \cup {job}
  /\ UNCHANGED <<submitted, pending, givenUp>>

GiveUp(job) ==
  /\ job \in submitted
  /\ givenUp' = givenUp \cup {job}
  /\ UNCHANGED <<submitted, pending, completed>>

Forget(job) ==
  /\ job \in completed \cup givenUp
  /\ pending' = pending \ {job}
  /\ UNCHANGED <<submitted, completed, givenUp>>

Revive(job) ==
  /\ job \in submitted
  /\ pending' = pending \cup {job}
  /\ UNCHANGED <<submitted, completed, givenUp>>

Next ==
  \E job \in Jobs :
    Submit(job) \/ Complete(job) \/ GiveUp(job) \/ Forget(job) \/ Revive(job)

Spec == Init /\ [][Next]_vars
=============================================================================
