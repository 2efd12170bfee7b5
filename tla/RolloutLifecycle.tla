-------------------------- MODULE RolloutLifecycle --------------------------
(***************************************************************************)
(* What the rollout API promises: the state machine of a rollout as its    *)
(* users see it, without engines, copies, versions or agents.  The row     *)
(* that RolloutEngine's engines and operators fight over implements it.    *)
(***************************************************************************)
EXTENDS Integers

CONSTANT Last    \* number of the last stage, a natural number (stages count from 0)

VARIABLES state, stage

lifecycle == <<state, stage>>

LifecycleInit == state = "pending" /\ stage = 0

Begin == state = "pending" /\ state' = "in_progress" /\ UNCHANGED stage

Promote ==
    /\ state = "in_progress" /\ stage < Last
    /\ stage' = stage + 1
    /\ UNCHANGED state

Succeed ==
    /\ state = "in_progress" /\ stage = Last
    /\ state' = "succeeded"
    /\ UNCHANGED stage

Hold == state \in {"pending", "in_progress"} /\ state' = "paused" /\ UNCHANGED stage

Continue == state = "paused" /\ state' = "in_progress" /\ UNCHANGED stage

(* By an operator or by an abort criterion. *)
Stop ==
    /\ state \in {"pending", "in_progress", "paused"}
    /\ state' = "aborted"
    /\ UNCHANGED stage

Undo == state = "aborted" /\ state' = "rolled_back" /\ UNCHANGED stage

LifecycleNext == Begin \/ Promote \/ Succeed \/ Hold \/ Continue \/ Stop \/ Undo

LifecycleSpec == LifecycleInit /\ [][LifecycleNext]_lifecycle
=============================================================================
