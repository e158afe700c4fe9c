------------------------------- MODULE TaskRuns -------------------------------
(* Runs of tasks: the deliveries of their envelopes to the workers.          *)
EXTENDS Naturals

CONSTANTS
  Tasks,
  Runs,         \* the deliveries
  TaskOf,       \* the task each delivers
  MaxAttempts   \* envelope.maxAttempts

ASSUME RunsAssumption ==
  /\ TaskOf \in [Runs -> Tasks]
  /\ MaxAttempts \in Nat \ {0}
=============================================================================
