------------------------- MODULE MCRenderPublication -------------------------
(* Two deliveries of a task, and one of another task of the same panel.      *)
EXTENDS RenderPublication

CONSTANTS r1, r2, r3, t1, t2

Shared == [r \in Runs |-> IF r = r3 THEN t2 ELSE t1]
=============================================================================
