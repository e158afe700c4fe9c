---------------------------- MODULE MCLoraTrainer ----------------------------
(* An instance of LoraTrainer for TLC.                                        *)
EXTENDS LoraTrainer

CONSTANTS c1, c2, p1, p2
=============================================================================
