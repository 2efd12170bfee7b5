---------------------------- MODULE MCRolloutPlan ----------------------------
(* Instances of RolloutPlan for TLC. *)
EXTENDS RolloutPlan

MCKinds == <<"rollout", "action", "rollout">>
=============================================================================
