-------------------------- MODULE MCTaskDefinitions --------------------------
(* Instances of TaskDefinitions for TLC.                                     *)
EXTENDS TaskDefinitions

CONSTANTS a1, a2, n1, n2
=============================================================================
