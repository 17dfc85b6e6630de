--------------------------- MODULE MCLbcMessaging ---------------------------
(***************************************************************************)
(* LbcMessaging alone: tasks that have work go on.                         *)
(***************************************************************************)
EXTENDS LbcMessaging

Spec == InitLbc /\ [][LbcNext]_lbcVars /\ \A t \in Tasks : WF_lbcVars(TaskStep(t))
=============================================================================
