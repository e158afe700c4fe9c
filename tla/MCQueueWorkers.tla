---------------------------- MODULE MCQueueWorkers ----------------------------
(* Instances of QueueWorkers for TLC.                                        *)
EXTENDS QueueWorkers

CONSTANTS w1, w2, p1, p2, j1, j2

TwoWorkers == {w1, w2}
OneProcess == [w \in TwoWorkers |-> p1]
TwoProcesses == [w \in TwoWorkers |-> IF w = w1 THEN p1 ELSE p2]
NoBackoff == <<>>
OneSecond == <<1>>
Growing == <<1, 2>>
=============================================================================
