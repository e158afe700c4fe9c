---------------------------- MODULE MCStephenTask ----------------------------
(* Instances of StephenTask for TLC.                                         *)
EXTENDS StephenTask, TLC

CONSTANTS w1, w2, r1, r2

Symmetry == Permutations({w1, w2}) \cup Permutations({r1, r2})
=============================================================================
