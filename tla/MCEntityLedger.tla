---------------------------- MODULE MCEntityLedger ----------------------------
(* Instances of EntityLedger for TLC.                                        *)
EXTENDS EntityLedger

CONSTANTS g1, g2, g3, jobA, jobB, jobC, small, large, depiction

DistinctJobs == g1 :> jobA @@ g2 :> jobB @@ g3 :> jobC

OneDepiction == g1 :> Entity @@ g2 :> depiction @@ g3 :> Entity
NoDepiction == [g \in Registrars |-> Entity]

SmallOrOpen == g1 :> small @@ g2 :> None @@ g3 :> small
NoSizes == [g \in Registrars |-> None]
=============================================================================
