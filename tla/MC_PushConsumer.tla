-------------------------- MODULE MC_PushConsumer ---------------------------
(* Model-checking instance of PushConsumer: two conversations, one of them *)
(* an "sg_"/"si_" conversation, given as model values in the .cfg.         *)
EXTENDS PushConsumer
CONSTANTS c1, c2
MC_Convs == {c1, c2}
MC_SyncedConvs == {c1}
=============================================================================
