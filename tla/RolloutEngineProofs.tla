------------------------- MODULE RolloutEngineProofs -------------------------
(* Theorems about RolloutEngine, for every fleet, every list of stages and *)
(* any number of engines.                                                  *)
EXTENDS RolloutEngine, FiniteSetTheorems, TLAPS

-----------------------------------------------------------------------------
(* Types. *)

(* The stages of a rollout are numbered from 0. *)
LEMMA StageNumbers == Len(Stages) \in Nat /\ Len(Stages) > 0
BY StagesAssumption

(* The freshly created row, and the local state of an idle engine, have    *)
(* their types.                                                            *)
LEMMA IdleType == NewRollout \in Rollout /\ Idle \in EngineRec
<1>1. NewRollout \in Rollout
  BY StageNumbers DEF NewRollout, Rollout, States, Ages
<1> QED
  BY <1>1 DEF Idle, Local, EngineRec, PCs, Ops

(* An engine's local state is made of a phase, an operation and two rows. *)
LEMMA LocalType ==
    ASSUME NEW pc \in PCs, NEW op \in Ops, NEW r \in Rollout, NEW f \in Rollout
    PROVE  Local(pc, op, r, f) \in EngineRec
BY DEF Local, EngineRec

(* The updates the engine and the operators make of a row keep its type. *)
LEMMA RowUpdates ==
    ASSUME NEW r \in Rollout
    PROVE  /\ \A s \in States : [r EXCEPT !.state = s] \in Rollout
           /\ \A x \in Ages : [r EXCEPT !.age = x] \in Rollout
           /\ \A s \in States, x \in Ages : [r EXCEPT !.state = s, !.age = x] \in Rollout
           /\ \A b \in BOOLEAN : [r EXCEPT !.blackout = b] \in Rollout
           /\ \A A \in SUBSET Agents : [r EXCEPT !.pushed = @ \cup A] \in Rollout
           /\ [r EXCEPT !.version = @ + 1] \in Rollout
           /\ r.stage # LastStage => [r EXCEPT !.stage = @ + 1, !.age = "fresh"] \in Rollout
<1> USE StageNumbers DEF Rollout
<1>1. \A s \in States : [r EXCEPT !.state = s] \in Rollout
  OBVIOUS
<1>2. \A x \in Ages : [r EXCEPT !.age = x] \in Rollout
  OBVIOUS
<1>3. \A s \in States, x \in Ages : [r EXCEPT !.state = s, !.age = x] \in Rollout
  OBVIOUS
<1>4. \A b \in BOOLEAN : [r EXCEPT !.blackout = b] \in Rollout
  OBVIOUS
<1>5. \A A \in SUBSET Agents : [r EXCEPT !.pushed = @ \cup A] \in Rollout
  OBVIOUS
<1>6. [r EXCEPT !.version = @ + 1] \in Rollout
  OBVIOUS
<1>7. r.stage # LastStage => [r EXCEPT !.stage = @ + 1, !.age = "fresh"] \in Rollout
  <2>1. r.stage # LastStage => r.stage + 1 \in 0..(Len(Stages) - 1)
    BY DEF LastStage
  <2>2. "fresh" \in Ages
    BY DEF Ages
  <2> QED
    BY <2>1, <2>2
<1> QED
  BY <1>1, <1>2, <1>3, <1>4, <1>5, <1>6, <1>7

(* The row that a reconciled write makes of the reloaded one has its type. *)
LEMMA ReapplyType ==
    ASSUME NEW op, NEW r \in Rollout, NEW f \in Rollout PROVE Reapply(op, r, f) \in Rollout
BY DEF Reapply, Rollout, States

(* A stage's canary is drawn from the members of the group. *)
LEMMA CanaryInGroup ==
    ASSUME TypeOK, NEW k
    PROVE  canaryAgentsForStage(k) \subseteq member /\ canaryAgentsForStage(k) \subseteq Agents
BY DEF canaryAgentsForStage, matchByLabel, FirstN, TypeOK

(* The age of a stage stays an age as time passes. *)
LEMMA OlderType == ASSUME NEW x \in Ages PROVE Older(x) \in Ages
BY DEF Older, Ages

(* A fault uses up one of the bounded supply. *)
LEMMA FaultType == ASSUME TypeOK, NEW k, Fault(k) PROVE faults' \in 0..MaxFaults
BY BoundsAssumption DEF TypeOK, Fault

(* Moving one engine on, and the other helpers of its steps, keep types. *)
LEMMA GotoType ==
    ASSUME TypeOK, NEW e \in Engines, NEW pc \in PCs, NEW op \in Ops, NEW r \in Rollout,
           Goto(e, pc, op, r) \/ Return(e)
    PROVE  eng' \in [Engines -> EngineRec]
BY IdleType, LocalType DEF Goto, Return, TypeOK

LEMMA DeliverType ==
    ASSUME TypeOK, NEW A, NEW B, NEW c \in Configs, Deliver(A, B, c)
    PROVE  pin' \in [Agents -> Configs] /\ effective' \in [Agents -> Configs]
BY DEF TypeOK, Deliver

LEMMA WrittenType ==
    ASSUME TypeOK, NEW A, NEW B, Written(A, B) PROVE faults' \in 0..MaxFaults
BY FaultType DEF TypeOK, Written

(* An engine's copies of the row are rows. *)
LEMMA CopyType ==
    ASSUME TypeOK, NEW e \in Engines
    PROVE  /\ eng[e].pc \in PCs /\ eng[e].op \in Ops
           /\ eng[e].r \in Rollout /\ eng[e].fresh \in Rollout
BY DEF TypeOK, EngineRec

LEMMA UpdateType ==
    ASSUME NEW r \in Rollout, UpdateRollout(r) PROVE row' \in Rollout
BY RowUpdates DEF UpdateRollout

LEMMA AfterType ==
    ASSUME TypeOK, NEW e \in Engines, NEW r \in Rollout, AfterPersist(e, r) \/ AfterYield(e)
    PROVE  eng' \in [Engines -> EngineRec]
BY GotoType, CopyType DEF AfterPersist, AfterYield, PCs, Ops

(* The steps an engine takes keep every variable in its type. *)
LEMMA EngineStepType ==
    ASSUME TypeOK, NEW e \in Engines, EngineStep(e) PROVE TypeOK'
<1>r. /\ eng[e].pc \in PCs /\ eng[e].op \in Ops
      /\ eng[e].r \in Rollout /\ eng[e].fresh \in Rollout
  BY CopyType
<1>s. /\ "pending" \in States /\ "in_progress" \in States /\ "succeeded" \in States
      /\ "aborted" \in States /\ "rolled_back" \in States /\ "fresh" \in Ages
  BY DEF States, Ages
<1>c. "target" \in Configs /\ "previous" \in Configs /\ "none" \in Configs
  BY DEF Configs
<1>p. /\ \A pc \in {"listed", "apply", "persist", "reload", "retry", "coverage", "promote",
                    "cleanup"} : pc \in PCs
      /\ \A op \in {"none", "start", "advance", "finish", "abort", "rollback"} : op \in Ops
  BY DEF PCs, Ops
<1>1. CASE ListRollouts(e)
  <2>1. eng' \in [Engines -> EngineRec]
    BY <1>1, <1>p, GotoType DEF ListRollouts, TypeOK
  <2> QED
    BY <1>1, <2>1 DEF ListRollouts, TypeOK, fleet, world
<1>2. CASE BlackoutBlocked(e)
  <2>1. row' \in Rollout
    BY <1>2, <1>r, UpdateType, RowUpdates DEF BlackoutBlocked, TypeOK
  <2>2. eng' \in [Engines -> EngineRec]
    BY <1>2, <1>r, GotoType DEF BlackoutBlocked
  <2> QED
    BY <1>2, <2>1, <2>2, FaultType DEF BlackoutBlocked, TypeOK, fleet, world
<1>3. CASE ClearBlackout(e)
  <2> DEFINE r == [eng[e].r EXCEPT !.blackout = FALSE]
  <2>1. r \in Rollout /\ [r EXCEPT !.version = @ + 1] \in Rollout
    BY <1>r, RowUpdates
  <2>2. row' \in Rollout
    BY <1>3, <2>1, UpdateType DEF ClearBlackout, TypeOK
  <2>3. eng' \in [Engines -> EngineRec]
    BY <1>3, <2>1, <1>p, GotoType DEF ClearBlackout
  <2>4. faults' \in 0..MaxFaults
    BY <1>3, FaultType DEF ClearBlackout, TypeOK
  <2> QED
    BY <1>3, <2>2, <2>3, <2>4 DEF ClearBlackout, TypeOK, fleet, world
<1>4. CASE Start(e)
  <2>1. eng' \in [Engines -> EngineRec]
    BY <1>4, <1>r, <1>s, <1>p, RowUpdates, GotoType DEF Start
  <2> QED
    BY <1>4, <2>1 DEF Start, TypeOK, fleet, world
<1>5. CASE CriteriaAbort(e)
  <2>1. eng' \in [Engines -> EngineRec]
    BY <1>5, <1>r, <1>s, <1>p, RowUpdates, GotoType DEF CriteriaAbort, TriggerAbort
  <2> QED
    BY <1>5, <2>1, FaultType DEF CriteriaAbort, evaluateAbortCriteria, TypeOK, fleet, world
<1>6. CASE ConvergenceTimeout(e)
  <2>1. eng' \in [Engines -> EngineRec]
    BY <1>6, <1>r, <1>s, <1>p, RowUpdates, GotoType DEF ConvergenceTimeout, TriggerAbort
  <2> QED
    BY <1>6, <2>1, FaultType DEF ConvergenceTimeout, NotConverged, TypeOK, fleet, world
<1>7. CASE Wait(e)
  <2>1. eng' \in [Engines -> EngineRec]
    BY <1>7, <1>r, GotoType DEF Wait
  <2> QED
    BY <1>7, <2>1, FaultType DEF Wait, NotConverged, TypeOK, fleet, world
<1>8. CASE Advance(e)
  <2>1. eng' \in [Engines -> EngineRec]
    BY <1>8, <1>r, <1>s, <1>p, RowUpdates, GotoType DEF Advance
  <2> QED
    BY <1>8, <2>1 DEF Advance, TypeOK, fleet, world
<1>9. CASE Finish(e)
  <2>1. eng' \in [Engines -> EngineRec]
    BY <1>9, <1>r, <1>s, <1>p, RowUpdates, GotoType DEF Finish
  <2> QED
    BY <1>9, <2>1 DEF Finish, TypeOK, fleet, world
<1>10. CASE ApplyStage(e)
  <2> DEFINE toPush == canaryAgentsForStage(eng[e].r.stage) \ eng[e].r.pushed
  <2>1. PICK assigned \in SUBSET toPush, acked \in SUBSET toPush :
          /\ Written(toPush, assigned)
          /\ Deliver(assigned, acked, "target")
          /\ Goto(e, "persist", eng[e].op, [eng[e].r EXCEPT !.pushed = @ \cup assigned])
    BY <1>10 DEF ApplyStage
  <2>2. assigned \in SUBSET Agents
    BY CanaryInGroup
  <2>3. eng' \in [Engines -> EngineRec]
    BY <2>1, <2>2, <1>r, <1>p, RowUpdates, GotoType
  <2>4. faults' \in 0..MaxFaults /\ pin' \in [Agents -> Configs] /\ effective' \in [Agents -> Configs]
    BY <2>1, <1>c, WrittenType, DeliverType
  <2> QED
    BY <1>10, <2>3, <2>4 DEF ApplyStage, TypeOK, world
<1>11. CASE ApplyStageFails(e)
  <2>1. eng' \in [Engines -> EngineRec]
    BY <1>11, <1>r, GotoType DEF ApplyStageFails
  <2> QED
    BY <1>11, <2>1, FaultType DEF ApplyStageFails, TypeOK, fleet, world
<1>12. CASE Rollback(e)
  <2>1. eng' \in [Engines -> EngineRec]
    BY <1>12, <1>r, <1>s, <1>p, RowUpdates, GotoType DEF Rollback
  <2>2. faults' \in 0..MaxFaults /\ pin' \in [Agents -> Configs] /\ effective' \in [Agents -> Configs]
    BY <1>12, <1>c, WrittenType, DeliverType, FaultType DEF Rollback, TypeOK
  <2> QED
    BY <1>12, <2>1, <2>2 DEF Rollback, TypeOK, world
<1>13. CASE Persist(e)
  <2>1. eng' \in [Engines -> EngineRec]
    BY <1>13, <1>r, <1>p, GotoType, AfterType DEF Persist
  <2>2. row' \in Rollout
    BY <1>13, <1>r, UpdateType DEF Persist, TypeOK
  <2> QED
    BY <1>13, <2>1, <2>2, FaultType DEF Persist, TypeOK, fleet, world
<1>14. CASE Reload(e)
  <2>1. eng' \in [Engines -> EngineRec]
    <3>1. Local("retry", eng[e].op, eng[e].r, Reapply(eng[e].op, eng[e].r, row)) \in EngineRec
      BY <1>r, <1>p, ReapplyType, LocalType DEF TypeOK
    <3> QED
      BY <1>14, <3>1, <1>r, AfterType DEF Reload, TypeOK
  <2> QED
    BY <1>14, <2>1, FaultType DEF Reload, TypeOK, fleet, world
<1>15. CASE RetryPersist(e)
  <2>1. eng' \in [Engines -> EngineRec]
    BY <1>15, <1>r, AfterType DEF RetryPersist
  <2>2. row' \in Rollout
    BY <1>15, <1>r, UpdateType DEF RetryPersist, TypeOK
  <2> QED
    BY <1>15, <2>1, <2>2, FaultType DEF RetryPersist, TypeOK, fleet, world
<1>16. CASE CheckCoverage(e)
  <2>1. eng' \in [Engines -> EngineRec]
    BY <1>16, <1>r, <1>p, GotoType DEF CheckCoverage
  <2> QED
    BY <1>16, <2>1, FaultType DEF CheckCoverage, TypeOK, fleet, world
<1>17. CASE PromoteTargetToGroupConfig(e)
  <2>1. eng' \in [Engines -> EngineRec]
    BY <1>17, <1>r, <1>p, GotoType DEF PromoteTargetToGroupConfig
  <2> QED
    BY <1>17, <2>1, <1>c, FaultType DEF PromoteTargetToGroupConfig, TypeOK, world
<1>18. CASE DeletePins(e)
  <2>1. eng' \in [Engines -> EngineRec]
    BY <1>18, <1>r, GotoType DEF DeletePins
  <2>2. pin' \in [Agents -> Configs] /\ faults' \in 0..MaxFaults
    BY <1>18, <1>c, WrittenType DEF DeletePins, TypeOK
  <2> QED
    BY <1>18, <2>1, <2>2 DEF DeletePins, TypeOK, world
<1> QED
  BY <1>1, <1>2, <1>3, <1>4, <1>5, <1>6, <1>7, <1>8, <1>9, <1>10, <1>11, <1>12, <1>13,
     <1>14, <1>15, <1>16, <1>17, <1>18 DEF EngineStep

(* Init gives every variable its type, and every step keeps it: the rows,  *)
(* the engines' copies and the bounded budgets never leave their ranges.   *)
THEOREM TypeCorrect == Spec => []TypeOK
<1>1. Init => TypeOK
  BY IdleType, FleetAssumption, BoundsAssumption DEF Init, TypeOK, Configs
<1>2. TypeOK /\ [Next]_vars => TypeOK'
  <2> SUFFICES ASSUME TypeOK, [Next]_vars PROVE TypeOK'
    OBVIOUS
  <2>1. ASSUME NEW e \in Engines, EngineStep(e) PROVE TypeOK'
    BY <2>1, EngineStepType
  <2>2. ASSUME NEW e \in Engines, Crash(e) PROVE TypeOK'
    BY <2>2, IdleType, FaultType DEF Crash, Return, TypeOK, fleet, world
  <2>3. CASE Pause \/ Resume \/ Abort
    <3>1. cmds' \in 0..MaxCommands
      BY <2>3, BoundsAssumption DEF Pause, Resume, Abort, Command, TypeOK
    <3>2. row' \in Rollout
      BY <2>3, UpdateType, RowUpdates DEF Pause, Resume, Abort, TypeOK, States, Ages
    <3> QED
      BY <2>3, <3>1, <3>2 DEF Pause, Resume, Abort, Command, TypeOK, fleet, world
  <2>x. CASE SetExcludeFromLearning
    BY <2>x, UpdateType, BoundsAssumption DEF SetExcludeFromLearning, Command, TypeOK, fleet, world
  <2>4. ASSUME NEW a \in Agents, ReconcileAgent(a) PROVE TypeOK'
    BY <2>4 DEF ReconcileAgent, resolveStoredConfig, TypeOK, world
  <2>5. ASSUME NEW a \in Agents, ChangeGroup(a) PROVE TypeOK'
    BY <2>5, FaultType DEF ChangeGroup, TypeOK, fleet
  <2>6. ASSUME NEW a \in Agents, Relabel(a) PROVE TypeOK'
    BY <2>6, FaultType DEF Relabel, TypeOK, fleet
  <2>7. CASE TimePasses
    <3>1. \A r \in Rollout : [r EXCEPT !.age = Older(@)] \in Rollout
      BY OlderType DEF Rollout
    <3>2. eng' \in [Engines -> EngineRec]
      BY <2>7, <3>1, LocalType, CopyType DEF TimePasses
    <3> QED
      BY <2>7, <3>1, <3>2 DEF TimePasses, TypeOK, fleet, world
  <2>8. CASE UNCHANGED vars
    BY <2>8 DEF vars, TypeOK
  <2> QED
    BY <2>1, <2>2, <2>3, <2>x, <2>4, <2>5, <2>6, <2>7, <2>8 DEF Next
<1> QED
  BY <1>1, <1>2, PTL DEF Spec

-----------------------------------------------------------------------------
(* Optimistic concurrency. *)

(* The fields of an engine's local state. *)
LEMMA LocalFields ==
    ASSUME NEW pc, NEW op, NEW r, NEW f
    PROVE  /\ Local(pc, op, r, f).pc = pc /\ Local(pc, op, r, f).op = op
           /\ Local(pc, op, r, f).r = r /\ Local(pc, op, r, f).fresh = f
BY DEF Local

(* An idle engine holds no copy, and an engine whose work on the row is    *)
(* over holds none it will write.                                          *)
LEMMA IdleOK ==
    ASSUME NEW w \in Rollout PROVE LocalOK(Idle, w)
BY DEF Idle, Local, LocalOK, PhaseOK, CopyOK, RetryOK, ProgressOK, NewRollout, Rollout, Reconciles

(* What may happen to the stored row in one step. *)
SameRow(w, v) ==
    v.state = w.state /\ v.stage = w.stage /\ v.version = w.version /\ v.pushed = w.pushed

(* The transitions of the lifecycle, from the row w to the row v. *)
EngineTransition(w, v) ==
    \/ w.state = "pending" /\ v.state = "in_progress" /\ v.stage = w.stage
    \/ /\ w.state = "in_progress" /\ v.state = "in_progress"
       /\ w.stage < LastStage /\ v.stage = w.stage + 1
    \/ /\ w.state = "in_progress" /\ v.state = "succeeded"
       /\ w.stage = LastStage /\ v.stage = w.stage
    \/ w.state = "in_progress" /\ v.state = "aborted" /\ v.stage = w.stage
    \/ w.state = "aborted" /\ v.state = "rolled_back" /\ v.stage = w.stage

OperatorTransition(w, v) ==
    /\ v.stage = w.stage
    /\ \/ w.state \in {"pending", "in_progress"} /\ v.state = "paused"
       \/ w.state = "paused" /\ v.state = "in_progress"
       \/ w.state \in {"pending", "in_progress", "paused"} /\ v.state = "aborted"

RowStep(w, v) ==
    \/ SameRow(w, v)
    \/ /\ v.version = w.version + 1
       /\ \/ EngineTransition(w, v)
          \/ OperatorTransition(w, v)
          \/ v.state = w.state /\ v.stage = w.stage

(* What all those transitions have in common. *)
LEMMA RowStepFacts ==
    ASSUME NEW w \in Rollout, NEW v \in Rollout, RowStep(w, v)
    PROVE  /\ w.stage <= v.stage
           /\ v.state = "pending" => w.state = "pending" /\ v.stage = w.stage
           /\ w.state = "aborted" => v.state \in {"aborted", "rolled_back"}
           /\ w.state \in {"succeeded", "rolled_back"} => v.state = w.state
BY StageNumbers DEF RowStep, SameRow, EngineTransition, OperatorTransition, Rollout

(* A write by somebody else makes a copy stale but never wrong. *)
LEMMA StaleCopy ==
    ASSUME NEW s \in EngineRec, NEW w \in Rollout, NEW v \in Rollout, RowStep(w, v),
           LocalOK(s, w)
    PROVE  LocalOK(s, v)
<1>t. /\ w.version \in Nat /\ v.version \in Nat /\ w.stage \in Int /\ v.stage \in Int
      /\ s.r.version \in Nat /\ s.fresh.version \in Nat /\ s.r.stage \in Int
      /\ LoadedStage(s) \in Int
  BY StageNumbers DEF Rollout, EngineRec, LoadedStage
<1>1. PhaseOK(s, v)
  BY RowStepFacts DEF LocalOK, PhaseOK
<1>2. ProgressOK(s, v)
  <2>1. LoadedStage(s) <= w.stage => LoadedStage(s) <= v.stage
    BY <1>t, RowStepFacts
  <2>2. w.state \in {"aborted", "rolled_back"} => v.state \in {"aborted", "rolled_back"}
    BY RowStepFacts
  <2> QED
    BY <2>1, <2>2 DEF LocalOK, ProgressOK
<1>3. CASE SameRow(w, v)
  <2>1. CopyOK(s, v)
    BY <1>3 DEF SameRow, LocalOK, CopyOK
  <2>2. RetryOK(s, v)
    BY <1>3 DEF SameRow, LocalOK, RetryOK, StillApplies
  <2> QED
    BY <1>1, <1>2, <2>1, <2>2 DEF LocalOK
<1>4. CASE ~SameRow(w, v)
  <2>1. v.version = w.version + 1
    BY <1>4 DEF RowStep
  <2>2. CopyOK(s, v)
    BY <2>1, <1>t DEF LocalOK, CopyOK
  <2>3. RetryOK(s, v)
    BY <2>1, <1>t DEF LocalOK, RetryOK
  <2> QED
    BY <1>1, <1>2, <2>2, <2>3 DEF LocalOK
<1> QED
  BY <1>3, <1>4

(* Only the engine that moves changes its local state. *)
LEMMA Moves ==
    ASSUME TypeOK, NEW e \in Engines
    PROVE  /\ \A l : eng' = [eng EXCEPT ![e] = l] =>
                eng'[e] = l /\ \A x \in Engines \ {e} : eng'[x] = eng[x]
           /\ \A pc, op, r : Goto(e, pc, op, r) =>
                /\ eng'[e] = Local(pc, op, r, NewRollout)
                /\ \A x \in Engines \ {e} : eng'[x] = eng[x]
           /\ Return(e) => eng'[e] = Idle /\ \A x \in Engines \ {e} : eng'[x] = eng[x]
BY DEF TypeOK, Goto, Return

(* What an engine's step establishes: a legal change of the row, made only *)
(* to a row that is neither paused nor terminal, and a local state that    *)
(* agrees with it.                                                         *)
StepOK(e) ==
    /\ RowStep(row, row')
    /\ row' = row \/ row.state \in {"pending", "in_progress", "aborted"}
    /\ LocalOK(eng'[e], row')
    /\ \A x \in Engines \ {e} : eng'[x] = eng[x]

(* A step that leaves the row alone and ends the pass is fine. *)
LEMMA ReturnOK ==
    ASSUME TypeOK, NEW e \in Engines, Return(e), UNCHANGED row PROVE StepOK(e)
BY Moves, IdleOK DEF TypeOK, StepOK, RowStep, SameRow

(* The table of process(): from a listed copy q in a given state, the      *)
(* phase, operation and new copy r that each transition makes of it.       *)
Decision(q, pc, op, r) ==
    /\ r.version = q.version
    /\ \/ /\ pc = "apply" /\ op = "start"
          /\ q.state = "pending" /\ r.state = "in_progress" /\ r.stage = q.stage
       \/ /\ pc = "apply" /\ op = "advance"
          /\ q.state = "in_progress" /\ r.state = "in_progress" /\ r.stage = q.stage + 1
       \/ /\ pc = "persist" /\ op = "abort"
          /\ q.state = "in_progress" /\ r.state = "aborted" /\ r.stage = q.stage
       \/ /\ pc = "persist" /\ op = "finish" /\ r.stage = LastStage
          /\ q.state = "in_progress" /\ r.state = "succeeded" /\ r.stage = q.stage
       \/ /\ pc = "persist" /\ op = "rollback"
          /\ q.state = "aborted" /\ r.state = "rolled_back" /\ r.stage = q.stage

(* A decision made on a listed copy is as current as that copy. *)
LEMMA DecisionOK ==
    ASSUME NEW s \in EngineRec, NEW w \in Rollout, LocalOK(s, w), s.pc = "listed",
           NEW pc, NEW op, NEW r \in Rollout, Decision(s.r, pc, op, r)
    PROVE  LocalOK(Local(pc, op, r, NewRollout), w)
<1> DEFINE l == Local(pc, op, r, NewRollout)
<1>f. l.pc = pc /\ l.op = op /\ l.r = r
  BY LocalFields
<1>t. /\ w.version \in Nat /\ w.stage \in Int /\ s.r.version \in Nat /\ s.r.stage \in Int
      /\ r.version \in Nat /\ r.stage \in Int
  BY StageNumbers DEF EngineRec, Rollout
<1>o. s.op = "none"
  BY DEF LocalOK, PhaseOK
<1>g. LoadedStage(l) = s.r.stage /\ LoadedStage(s) = s.r.stage
  BY <1>f, <1>t, <1>o DEF LoadedStage, Decision
<1>h. LoadedState(l) = s.r.state /\ LoadedState(s) = s.r.state
  BY <1>f, <1>o DEF LoadedState, Decision
<1> HIDE DEF l
<1>1. PhaseOK(l, w)
  BY <1>f DEF PhaseOK, Decision, Reconciles
<1>2. CopyOK(l, w)
  BY <1>f, <1>g, <1>h DEF LocalOK, CopyOK, Decision
<1>3. RetryOK(l, w)
  BY <1>f DEF RetryOK, Decision
<1>4. ProgressOK(l, w)
  BY <1>f, <1>g DEF LocalOK, ProgressOK, Decision
<1> QED
  BY <1>1, <1>2, <1>3, <1>4 DEF LocalOK, l

(* The deciding steps of process(): the copy changes, the row does not. *)
LEMMA DecideOK ==
    ASSUME TypeOK, NEW e \in Engines, LocalOK(eng[e], row),
           \/ Start(e) \/ CriteriaAbort(e) \/ ConvergenceTimeout(e)
           \/ Advance(e) \/ Finish(e) \/ Rollback(e)
    PROVE  StepOK(e)
<1> DEFINE q == eng[e].r
<1>t. q \in Rollout /\ eng[e] \in EngineRec
  BY CopyType DEF TypeOK
<1>u. row' = row /\ row \in Rollout
  BY DEF Start, CriteriaAbort, ConvergenceTimeout, Advance, Finish, Rollback, TypeOK
<1>l. eng[e].pc = "listed"
  BY DEF Start, CriteriaAbort, ConvergenceTimeout, Advance, Finish, Rollback, Processing, At
<1>1. \E pc \in PCs, op \in Ops, r \in Rollout : Decision(q, pc, op, r) /\ Goto(e, pc, op, r)
  <2>1. CASE Start(e)
    <3> DEFINE r == [q EXCEPT !.state = "in_progress", !.age = "fresh"]
    <3>1. r \in Rollout
      BY <1>t, RowUpdates DEF States, Ages
    <3>2. Decision(q, "apply", "start", r)
      BY <2>1, <1>t DEF Start, Processing, Decision, Rollout
    <3> QED
      BY <2>1, <3>1, <3>2 DEF Start, PCs, Ops
  <2>2. CASE CriteriaAbort(e) \/ ConvergenceTimeout(e)
    <3> DEFINE r == [q EXCEPT !.state = "aborted"]
    <3>1. r \in Rollout
      BY <1>t, RowUpdates DEF States
    <3>2. Decision(q, "persist", "abort", r)
      BY <2>2, <1>t DEF CriteriaAbort, ConvergenceTimeout, Processing, Decision, Rollout
    <3> QED
      BY <2>2, <3>1, <3>2 DEF CriteriaAbort, ConvergenceTimeout, TriggerAbort, PCs, Ops
  <2>3. CASE Advance(e)
    <3> DEFINE r == [q EXCEPT !.stage = @ + 1, !.age = "fresh"]
    <3>1. r \in Rollout
      BY <2>3, <1>t, RowUpdates DEF Advance
    <3>2. Decision(q, "apply", "advance", r)
      BY <2>3, <1>t DEF Advance, Processing, Decision, Rollout
    <3> QED
      BY <2>3, <3>1, <3>2 DEF Advance, PCs, Ops
  <2>4. CASE Finish(e)
    <3> DEFINE r == [q EXCEPT !.state = "succeeded"]
    <3>1. r \in Rollout
      BY <1>t, RowUpdates DEF States
    <3>2. Decision(q, "persist", "finish", r)
      BY <2>4, <1>t DEF Finish, Processing, Decision, Rollout
    <3> QED
      BY <2>4, <3>1, <3>2 DEF Finish, PCs, Ops
  <2>5. CASE Rollback(e)
    <3> DEFINE r == [q EXCEPT !.state = "rolled_back"]
    <3>1. r \in Rollout
      BY <1>t, RowUpdates DEF States
    <3>2. Decision(q, "persist", "rollback", r)
      BY <2>5, <1>t DEF Rollback, Processing, Decision, Rollout
    <3> QED
      BY <2>5, <3>1, <3>2 DEF Rollback, PCs, Ops
  <2> QED
    BY <2>1, <2>2, <2>3, <2>4, <2>5
<1>2. PICK pc \in PCs, op \in Ops, r \in Rollout : Decision(q, pc, op, r) /\ Goto(e, pc, op, r)
  BY <1>1
<1>3. LocalOK(Local(pc, op, r, NewRollout), row)
  BY <1>2, <1>t, <1>u, <1>l, DecisionOK
<1> QED
  BY <1>2, <1>3, <1>u, Moves DEF StepOK, RowStep, SameRow

(* List: the copy is the row. *)
LEMMA ListOK ==
    ASSUME TypeOK, NEW e \in Engines, ListRollouts(e), row.state = "pending" => row.stage = 0
    PROVE  StepOK(e)
<1> DEFINE l == Local("listed", "none", row, NewRollout)
<1>f. l.pc = "listed" /\ l.op = "none" /\ l.r = row
  BY LocalFields
<1>t. row \in Rollout /\ row.version \in Nat /\ row.stage \in Int
  BY StageNumbers DEF TypeOK, Rollout
<1> HIDE DEF l
<1>1. LocalOK(l, row)
  BY <1>f, <1>t DEF ListRollouts, LocalOK, PhaseOK, CopyOK, RetryOK, ProgressOK,
                    LoadedState, LoadedStage
<1> QED
  BY <1>1, Moves DEF ListRollouts, StepOK, RowStep, SameRow, l

(* applyBlackoutCheck writes only through a current copy, so it changes    *)
(* nothing but the version and the blackout reason.                        *)
LEMMA BlackoutOK ==
    ASSUME TypeOK, NEW e \in Engines, LocalOK(eng[e], row), BlackoutBlocked(e) \/ ClearBlackout(e)
    PROVE  StepOK(e)
<1> DEFINE q == eng[e].r
<1>t. /\ q \in Rollout /\ eng[e] \in EngineRec /\ row \in Rollout
      /\ q.version \in Nat /\ row.version \in Nat /\ q.stage \in Int /\ row.stage \in Int
  BY CopyType, StageNumbers DEF TypeOK, Rollout
<1>l. eng[e].pc = "listed" /\ eng[e].op = "none" /\ q.state \in {"pending", "in_progress"}
  BY DEF BlackoutBlocked, ClearBlackout, Forward, At, LocalOK, PhaseOK
<1>c. q.version = row.version => row.state = q.state /\ row.stage = q.stage
  BY <1>l DEF LocalOK, CopyOK, LoadedState, LoadedStage
<1>1. ASSUME NEW b \in BOOLEAN, UpdateRollout([q EXCEPT !.blackout = b])
      PROVE  /\ q.version = row.version /\ row' \in Rollout
             /\ row'.version = row.version + 1 /\ row'.state = row.state /\ row'.stage = row.stage
  <2>1. [q EXCEPT !.blackout = b] \in Rollout
    BY <1>t, RowUpdates
  <2> QED
    BY <1>1, <2>1, <1>t, <1>c, UpdateType DEF UpdateRollout, Rollout
<1>2. CASE BlackoutBlocked(e)
  <2>1. CASE row' = row
    BY <2>1, <1>2, ReturnOK DEF BlackoutBlocked
  <2>2. CASE row' # row
    <3>1. UpdateRollout([q EXCEPT !.blackout = TRUE])
      BY <1>2, <2>2 DEF BlackoutBlocked
    <3>2. /\ row' \in Rollout /\ row'.version = row.version + 1
          /\ row'.state = row.state /\ row'.stage = row.stage /\ row.state = q.state
      BY <3>1, <1>1, <1>c
    <3> QED
      BY <1>2, <3>2, <1>l, <1>t, Moves, IdleOK DEF BlackoutBlocked, StepOK, RowStep
  <2> QED
    BY <2>1, <2>2
<1>3. CASE ClearBlackout(e)
  <2> DEFINE r == [q EXCEPT !.blackout = FALSE]
  <2>1. r \in Rollout /\ r.version = q.version /\ r.state = q.state /\ r.stage = q.stage
    BY <1>t, RowUpdates DEF Rollout
  <2>2. ASSUME NEW p \in Rollout, NEW w \in Rollout, p.state = q.state, p.stage = q.stage,
               w.stage = row.stage, w.state = row.state,
               p.version <= w.version, p.version = w.version => row.state = q.state /\ row.stage = q.stage
        PROVE  LocalOK(Local("listed", "none", p, NewRollout), w)
    <3> DEFINE l == Local("listed", "none", p, NewRollout)
    <3>f. l.pc = "listed" /\ l.op = "none" /\ l.r = p
      BY LocalFields
    <3> HIDE DEF l
    <3>1. PhaseOK(l, w)
      BY <3>f, <2>2, <1>l DEF PhaseOK
    <3>2. CopyOK(l, w)
      BY <3>f, <2>2 DEF CopyOK, LoadedState, LoadedStage
    <3>3. RetryOK(l, w)
      BY <3>f DEF RetryOK
    <3>4. ProgressOK(l, w)
      BY <3>f, <2>2, <1>l DEF ProgressOK, LoadedStage, LocalOK
    <3> QED
      BY <3>1, <3>2, <3>3, <3>4 DEF LocalOK, l
  <2>3. q.version <= row.version
    BY <1>l DEF LocalOK, CopyOK
  <2>4. CASE UpdateRollout(r) /\ Goto(e, "listed", "none", [r EXCEPT !.version = @ + 1])
    <3>1. /\ q.version = row.version /\ row' \in Rollout /\ row'.version = row.version + 1
          /\ row'.state = row.state /\ row'.stage = row.stage /\ row.state = q.state
          /\ row.stage = q.stage
      BY <2>4, <1>1, <1>c
    <3> DEFINE p == [r EXCEPT !.version = @ + 1]
    <3>2. p \in Rollout /\ p.state = q.state /\ p.stage = q.stage /\ p.version = q.version + 1
      <4> HIDE DEF r
      <4> QED
        BY <2>1, <1>t, RowUpdates DEF Rollout
    <3> HIDE DEF p
    <3>3. LocalOK(Local("listed", "none", p, NewRollout), row')
      BY <3>1, <3>2, <2>2, <1>t
    <3> QED
      BY <2>4, <3>1, <3>3, <1>l, <1>t, Moves DEF StepOK, RowStep, p
  <2>5. CASE row' = row /\ Goto(e, "listed", "none", r)
    <3>1. LocalOK(Local("listed", "none", r, NewRollout), row)
      BY <2>1, <2>2, <2>3, <1>t, <1>c
    <3> QED
      BY <2>5, <3>1, Moves DEF StepOK, RowStep, SameRow
  <2> QED
    BY <1>3, <2>4, <2>5 DEF ClearBlackout
<1> QED
  BY <1>2, <1>3

(* applyStage adds to the pushed-set of the copy and nothing else. *)
LEMMA ApplyOK ==
    ASSUME TypeOK, NEW e \in Engines, LocalOK(eng[e], row), ApplyStage(e)
    PROVE  StepOK(e)
<1> DEFINE q == eng[e].r
           toPush == canaryAgentsForStage(q.stage) \ q.pushed
<1>t. q \in Rollout /\ row \in Rollout /\ row' = row /\ eng[e].pc = "apply"
  BY CopyType DEF TypeOK, ApplyStage, At
<1>o. eng[e].op \in {"start", "advance"}
  BY <1>t DEF LocalOK, PhaseOK
<1>1. PICK A \in SUBSET toPush :
         Goto(e, "persist", eng[e].op, [q EXCEPT !.pushed = @ \cup A])
  BY DEF ApplyStage
<1> DEFINE r == [q EXCEPT !.pushed = @ \cup A]
<1>2. r.version = q.version /\ r.state = q.state /\ r.stage = q.stage
  BY <1>t DEF Rollout
<1> DEFINE l == Local("persist", eng[e].op, r, NewRollout)
<1>f. l.pc = "persist" /\ l.op = eng[e].op /\ l.r = r
  BY LocalFields
<1>g. LoadedStage(l) = LoadedStage(eng[e])
  BY <1>f, <1>2, <1>o DEF LoadedStage
<1>h. LoadedState(l) = LoadedState(eng[e])
  BY <1>f, <1>o, <1>t DEF LoadedState
<1> HIDE DEF l, r
<1>3. PhaseOK(l, row)
  BY <1>f, <1>2, <1>o, <1>t DEF LocalOK, PhaseOK
<1>4. CopyOK(l, row)
  BY <1>f, <1>g, <1>h, <1>2, <1>t DEF LocalOK, CopyOK
<1>5. RetryOK(l, row)
  BY <1>f DEF RetryOK
<1>6. ProgressOK(l, row)
  BY <1>f, <1>g, <1>2, <1>o, <1>t DEF LocalOK, ProgressOK
<1>7. eng'[e] = l /\ \A x \in Engines \ {e} : eng'[x] = eng[x]
  BY <1>1, Moves DEF l, r
<1> QED
  BY <1>3, <1>4, <1>5, <1>6, <1>7, <1>t DEF LocalOK, StepOK, RowStep, SameRow

(* Once an engine is past its writes, its copy is only read for the        *)
(* pushed-set.                                                             *)
LEMMA TailOK ==
    ASSUME NEW w \in Rollout, NEW r \in Rollout, NEW pc \in {"coverage", "promote", "cleanup"},
           NEW op \in {"finish", "rollback"}, r.stage <= w.stage,
           op = "finish" => /\ r.state = "succeeded" /\ r.stage = LastStage
                            /\ w.state = "succeeded",
           op = "rollback" => /\ r.state = "rolled_back" /\ pc = "cleanup"
                              /\ w.state \in {"aborted", "rolled_back"}
    PROVE  LocalOK(Local(pc, op, r, NewRollout), w)
<1> DEFINE l == Local(pc, op, r, NewRollout)
<1>f. l.pc = pc /\ l.op = op /\ l.r = r
  BY LocalFields
<1> HIDE DEF l
<1>1. PhaseOK(l, w)
  BY <1>f DEF PhaseOK
<1>2. CopyOK(l, w) /\ RetryOK(l, w)
  BY <1>f DEF CopyOK, RetryOK
<1>3. ProgressOK(l, w)
  BY <1>f DEF ProgressOK, LoadedStage
<1> QED
  BY <1>1, <1>2, <1>3 DEF LocalOK, l

(* A write that lands with a copy r: legal, and followed by the cleanup    *)
(* that belongs to the operation.                                          *)
LEMMA LandedOK ==
    ASSUME TypeOK, NEW e \in Engines, NEW r \in Rollout, LocalOK(eng[e], row),
           eng[e].pc \in {"persist", "retry"}, r.state = eng[e].r.state,
           UpdateRollout(r), AfterPersist(e, r),
           eng[e].op = "finish" => r.stage = LastStage,
           row.state = LoadedState(eng[e]),
           row.stage = IF eng[e].op = "advance" THEN r.stage - 1 ELSE r.stage
    PROVE  StepOK(e)
<1>t. /\ row \in Rollout /\ row' \in Rollout /\ row.version \in Nat
      /\ row.stage \in Int /\ r.stage \in Int
  BY StageNumbers, UpdateType DEF TypeOK, Rollout
<1>1. row'.version = row.version + 1 /\ row'.state = r.state /\ row'.stage = r.stage
  BY DEF UpdateRollout, Rollout
<1>o. eng[e].op # "none" /\ eng[e].op \in Ops
  BY CopyType DEF LocalOK, PhaseOK, Reconciles
<1>s. /\ eng[e].op \in {"start", "advance"} => r.state = "in_progress"
      /\ eng[e].op = "finish" => r.state = "succeeded" /\ r.stage = LastStage
      /\ eng[e].op = "abort" => r.state = "aborted"
      /\ eng[e].op = "rollback" => r.state = "rolled_back"
  BY DEF LocalOK, PhaseOK
<1>2. row.state \in {"pending", "in_progress", "aborted"}
  BY <1>o DEF LoadedState, Ops
<1>3. row.stage = IF eng[e].op = "advance" THEN r.stage - 1 ELSE r.stage
  OBVIOUS
<1>4. EngineTransition(row, row')
  <2>1. CASE eng[e].op = "advance"
    <3>1. row.state = "in_progress" /\ row'.state = "in_progress" /\ row'.stage = row.stage + 1
      BY <2>1, <1>1, <1>s, <1>3, <1>t DEF LoadedState
    <3>2. row.stage < LastStage
      BY <3>1, <1>1, <1>3, <1>t, <2>1, StageNumbers DEF Rollout, LastStage
    <3> QED
      BY <3>1, <3>2 DEF EngineTransition
  <2>2. CASE eng[e].op # "advance"
    BY <2>2, <1>1, <1>s, <1>3, <1>o DEF LoadedState, EngineTransition, Ops
  <2> QED
    BY <2>1, <2>2
<1>5. RowStep(row, row')
  BY <1>1, <1>4 DEF RowStep
<1>6. LocalOK(eng'[e], row') /\ \A x \in Engines \ {e} : eng'[x] = eng[x]
  <2>1. CASE eng[e].op = "finish"
    <3>1. LocalOK(Local("coverage", "finish", r, NewRollout), row')
      BY <2>1, <1>1, <1>s, <1>t, TailOK
    <3> QED
      BY <2>1, <3>1, Moves DEF AfterPersist
  <2>2. CASE eng[e].op = "rollback"
    <3>1. LocalOK(Local("cleanup", "rollback", r, NewRollout), row')
      BY <2>2, <1>1, <1>s, <1>t, TailOK
    <3> QED
      BY <2>2, <3>1, Moves DEF AfterPersist
  <2>3. CASE eng[e].op \notin {"finish", "rollback"}
    BY <2>3, <1>t, Moves, IdleOK DEF AfterPersist
  <2> QED
    BY <2>1, <2>2, <2>3
<1> QED
  BY <1>2, <1>5, <1>6 DEF StepOK

(* Giving way: the pass ends, or goes on to the cleanup of a rollback. *)
LEMMA YieldOK ==
    ASSUME TypeOK, NEW e \in Engines, LocalOK(eng[e], row), AfterYield(e), UNCHANGED row,
           ~At(e, "idle")
    PROVE  StepOK(e)
<1>1. CASE eng[e].op = "rollback"
  <2>1. LocalOK(Local("cleanup", "rollback", eng[e].r, NewRollout), row)
    <3>1. /\ eng[e].r \in Rollout /\ row \in Rollout /\ eng[e].r.state = "rolled_back"
          /\ row.state \in {"aborted", "rolled_back"} /\ eng[e].r.stage <= row.stage
      BY <1>1, CopyType DEF TypeOK, LocalOK, PhaseOK, ProgressOK, LoadedStage, At
    <3> QED
      BY <3>1, TailOK
  <2> QED
    BY <1>1, <2>1, Moves DEF AfterYield, StepOK, RowStep, SameRow
<1>2. CASE eng[e].op # "rollback"
  BY <1>2, ReturnOK DEF AfterYield
<1> QED
  BY <1>1, <1>2

(* The first write of persist and persistWithReconcile. *)
LEMMA PersistOK ==
    ASSUME TypeOK, NEW e \in Engines, LocalOK(eng[e], row), Persist(e)
    PROVE  StepOK(e)
<1> DEFINE q == eng[e].r
<1>t. /\ q \in Rollout /\ row \in Rollout /\ eng[e].pc = "persist" /\ ~At(e, "idle")
      /\ q.stage \in Int /\ row.stage \in Int /\ q.version \in Nat
  BY CopyType, StageNumbers DEF TypeOK, Persist, At, Rollout
<1>1. CASE UpdateRollout(q) /\ AfterPersist(e, q)
  <2>1. /\ row.state = LoadedState(eng[e])
        /\ row.stage = IF eng[e].op = "advance" THEN q.stage - 1 ELSE q.stage
    BY <1>1, <1>t DEF LocalOK, CopyOK, UpdateRollout, LoadedStage
  <2>2. eng[e].op = "finish" => q.stage = LastStage
    BY DEF LocalOK, PhaseOK
  <2> QED
    BY <1>1, <1>t, <2>1, <2>2, LandedOK
<1>2. CASE /\ row' = row
           /\ IF Reconciles(eng[e].op) THEN Goto(e, "reload", eng[e].op, q) ELSE Return(e)
  <2>1. CASE ~Reconciles(eng[e].op)
    BY <1>2, <2>1, ReturnOK
  <2>2. CASE Reconciles(eng[e].op)
    <3> DEFINE l == Local("reload", eng[e].op, q, NewRollout)
    <3>f. l.pc = "reload" /\ l.op = eng[e].op /\ l.r = q
      BY LocalFields
    <3> HIDE DEF l
    <3>1. PhaseOK(l, row)
      BY <3>f, <2>2 DEF LocalOK, PhaseOK
    <3>2. CopyOK(l, row) /\ RetryOK(l, row)
      BY <3>f DEF CopyOK, RetryOK
    <3>3. ProgressOK(l, row)
      BY <3>f, <1>t DEF LocalOK, ProgressOK, LoadedStage
    <3>4. eng'[e] = l /\ \A x \in Engines \ {e} : eng'[x] = eng[x]
      BY <1>2, <2>2, Moves DEF l
    <3> QED
      BY <1>2, <3>1, <3>2, <3>3, <3>4 DEF LocalOK, StepOK, RowStep, SameRow
  <2> QED
    BY <2>1, <2>2
<1>3. CASE AfterYield(e) /\ row' = row
  BY <1>3, <1>t, YieldOK
<1> QED
  BY <1>1, <1>2, <1>3 DEF Persist

(* persistWithReconcile reloads: the projected row is the reloaded one     *)
(* moved by the engine's transition, if that still applies.                *)
LEMMA ReloadOK ==
    ASSUME TypeOK, NEW e \in Engines, LocalOK(eng[e], row), Reload(e),
           row.state = "pending" => row.stage = 0
    PROVE  StepOK(e)
<1> DEFINE q == eng[e].r
           op == eng[e].op
           f == Reapply(op, q, row)
<1>t. /\ q \in Rollout /\ row \in Rollout /\ eng[e].pc = "reload" /\ ~At(e, "idle")
      /\ row' = row /\ row.version \in Nat
  BY CopyType DEF TypeOK, Reload, At, Rollout
<1>o. op \in {"start", "advance", "rollback"}
  BY <1>t DEF LocalOK, PhaseOK, Reconciles
<1>1. CASE AfterYield(e)
  BY <1>1, <1>t, YieldOK
<1>2. CASE StillApplies(op, q, row) /\ eng' = [eng EXCEPT ![e] = Local("retry", op, q, f)]
  <2> DEFINE l == Local("retry", op, q, f)
  <2>f. l.pc = "retry" /\ l.op = op /\ l.r = q /\ l.fresh = f
    BY LocalFields
  <2>1. f.version = row.version /\ f.state = q.state
    BY <1>t, <1>o DEF Reapply, Rollout, LocalOK, PhaseOK
  <2>2. (op # "rollback" => f.stage = q.stage) /\ (op = "rollback" => f.stage = row.stage)
    BY <1>t, <1>o DEF Reapply, Rollout
  <2>3. op = "start" => row.stage = f.stage
    BY <1>2, <2>2, <1>t DEF StillApplies, LocalOK, ProgressOK
  <2> HIDE DEF l, f
  <2>4. PhaseOK(l, row)
    BY <2>f, <1>t, <1>o DEF LocalOK, PhaseOK, Reconciles
  <2>5. CopyOK(l, row)
    BY <2>f DEF CopyOK
  <2>6. RetryOK(l, row)
    BY <2>f, <2>1, <2>2, <2>3, <1>2, <1>t, <1>o DEF RetryOK
  <2>7. ProgressOK(l, row)
    BY <2>f, <1>t DEF LocalOK, ProgressOK, LoadedStage
  <2>8. eng'[e] = l /\ \A x \in Engines \ {e} : eng'[x] = eng[x]
    BY <1>2, Moves DEF l, f
  <2> QED
    BY <2>4, <2>5, <2>6, <2>7, <2>8, <1>t DEF LocalOK, StepOK, RowStep, SameRow
<1> QED
  BY <1>1, <1>2 DEF Reload

(* The single retry. *)
LEMMA RetryPersistOK ==
    ASSUME TypeOK, NEW e \in Engines, LocalOK(eng[e], row), RetryPersist(e)
    PROVE  StepOK(e)
<1> DEFINE f == eng[e].fresh
<1>t. /\ f \in Rollout /\ row \in Rollout /\ eng[e].pc = "retry" /\ ~At(e, "idle")
      /\ f.stage \in Int /\ row.stage \in Int /\ eng[e].r.stage \in Int
  BY CopyType, StageNumbers DEF TypeOK, RetryPersist, At, Rollout
<1>o. eng[e].op \in {"start", "advance", "rollback"}
  BY <1>t DEF LocalOK, PhaseOK, Reconciles
<1>1. CASE UpdateRollout(f) /\ AfterPersist(e, f)
  <2>1. /\ f.state = eng[e].r.state /\ StillApplies(eng[e].op, eng[e].r, row)
        /\ eng[e].op # "rollback" => f.stage = eng[e].r.stage
        /\ eng[e].op # "advance" => row.stage = f.stage
    BY <1>1, <1>t DEF LocalOK, RetryOK, UpdateRollout
  <2>2. row.state = LoadedState(eng[e])
    BY <2>1, <1>t, <1>o DEF StillApplies, LoadedState, LocalOK, ProgressOK
  <2>3. row.stage = IF eng[e].op = "advance" THEN f.stage - 1 ELSE f.stage
    BY <2>1, <1>t, <1>o DEF StillApplies
  <2> QED
    BY <1>1, <1>t, <1>o, <2>1, <2>2, <2>3, LandedOK
<1>2. CASE AfterYield(e) /\ row' = row
  BY <1>2, <1>t, YieldOK
<1> QED
  BY <1>1, <1>2 DEF RetryPersist

(* finalizeCanaryAssignments: the row has been written already. *)
LEMMA FinalizeOK ==
    ASSUME TypeOK, NEW e \in Engines, LocalOK(eng[e], row),
           CheckCoverage(e) \/ PromoteTargetToGroupConfig(e) \/ DeletePins(e)
    PROVE  StepOK(e)
<1>u. row' = row /\ row \in Rollout /\ eng[e].r \in Rollout
  BY CopyType DEF TypeOK, CheckCoverage, PromoteTargetToGroupConfig, DeletePins, fleet
<1>1. CASE Return(e)
  BY <1>1, <1>u, ReturnOK
<1>2. ASSUME NEW pc \in {"promote", "cleanup"}, Goto(e, pc, "finish", eng[e].r),
             eng[e].pc \in {"coverage", "promote"}, eng[e].op = "finish"
      PROVE  StepOK(e)
  <2>1. /\ eng[e].r.state = "succeeded" /\ row.state = "succeeded"
        /\ eng[e].r.stage = LastStage /\ eng[e].r.stage <= row.stage
    BY <1>2 DEF LocalOK, PhaseOK, ProgressOK, LoadedStage
  <2>2. LocalOK(Local(pc, "finish", eng[e].r, NewRollout), row)
    BY <2>1, <1>u, TailOK
  <2> QED
    BY <1>2, <2>2, <1>u, Moves DEF StepOK, RowStep, SameRow
<1>3. eng[e].pc \in {"coverage", "promote"} => eng[e].op = "finish"
  BY DEF LocalOK, PhaseOK
<1> QED
  BY <1>1, <1>2, <1>3 DEF CheckCoverage, PromoteTargetToGroupConfig, DeletePins, At

(* Every step of an engine. *)
LEMMA EngineStepOK ==
    ASSUME TypeOK, SnapshotInv, NEW e \in Engines, EngineStep(e) PROVE StepOK(e)
<1>1. LocalOK(eng[e], row) /\ (row.state = "pending" => row.stage = 0)
  BY DEF SnapshotInv
<1>2. CASE Wait(e) \/ ApplyStageFails(e)
  BY <1>2, ReturnOK DEF Wait, ApplyStageFails
<1> QED
  BY <1>1, <1>2, ListOK, BlackoutOK, DecideOK, ApplyOK, PersistOK, ReloadOK, RetryPersistOK,
     FinalizeOK DEF EngineStep

(* The operators' commands change the row in a legal way. *)
LEMMA CommandOK ==
    ASSUME TypeOK, Pause \/ Resume \/ Abort
    PROVE  /\ RowStep(row, row') /\ eng' = eng /\ cmds' < cmds
           /\ row'.stage = row.stage /\ row'.pushed = row.pushed
           /\ row'.state # "pending"
<1>t. row \in Rollout /\ row.version \in Nat /\ row.stage \in Int
  BY StageNumbers DEF TypeOK, Rollout
<1>1. /\ row'.version = row.version + 1 /\ row'.stage = row.stage /\ row'.pushed = row.pushed
      /\ row'.state \in {"paused", "in_progress", "aborted"}
  BY <1>t DEF Pause, Resume, Abort, UpdateRollout, Rollout
<1>2. \/ row.state \in {"pending", "in_progress"} /\ row'.state = "paused"
      \/ row.state = "paused" /\ row'.state = "in_progress"
      \/ row.state \in {"pending", "in_progress", "paused", "aborted"} /\ row'.state = "aborted"
  <2>1. CASE Pause
    BY <2>1, <1>t DEF Pause, UpdateRollout, Rollout
  <2>2. CASE Resume
    BY <2>2, <1>t DEF Resume, UpdateRollout, Rollout
  <2>3. CASE Abort
    BY <2>3, <1>t DEF Abort, UpdateRollout, Rollout, States
  <2> QED
    BY <2>1, <2>2, <2>3
<1>3. eng' = eng /\ cmds' < cmds
  BY DEF Pause, Resume, Abort, Command, TypeOK
<1> QED
  BY <1>1, <1>2, <1>3, <1>t DEF RowStep, OperatorTransition

(* The flip of the opt-out flag changes nothing but the version. *)
LEMMA ExcludeOK ==
    ASSUME TypeOK, SetExcludeFromLearning
    PROVE  /\ RowStep(row, row') /\ row' = [row EXCEPT !.version = @ + 1]
           /\ row'.state = row.state /\ row'.stage = row.stage /\ row'.pushed = row.pushed
           /\ row'.age = row.age /\ row'.version = row.version + 1
           /\ eng' = eng /\ pin' = pin /\ cmds' < cmds
<1>1. row' = [row EXCEPT !.version = @ + 1]
  BY DEF SetExcludeFromLearning, UpdateRollout
<1>2. /\ row'.state = row.state /\ row'.stage = row.stage /\ row'.pushed = row.pushed
      /\ row'.age = row.age /\ row'.version = row.version + 1
  BY <1>1 DEF TypeOK, Rollout
<1> QED
  BY <1>1, <1>2 DEF RowStep, SetExcludeFromLearning, Command, fleet, TypeOK

(* Time changes ages only. *)
LEMMA TimeOK ==
    ASSUME TypeOK, TimePasses, NEW e \in Engines, LocalOK(eng[e], row)
    PROVE  SameRow(row, row') /\ LocalOK(eng'[e], row')
<1> DEFINE s == eng[e]
           t == eng'[e]
<1>t. row \in Rollout /\ s.r \in Rollout /\ s.fresh \in Rollout
  BY CopyType DEF TypeOK
<1>1. SameRow(row, row')
  BY <1>t DEF TimePasses, SameRow, Rollout
<1>2. t = Local(s.pc, s.op, [s.r EXCEPT !.age = Older(@)], [s.fresh EXCEPT !.age = Older(@)])
  BY DEF TimePasses
<1>3. /\ t.pc = s.pc /\ t.op = s.op
      /\ t.r.state = s.r.state /\ t.r.stage = s.r.stage /\ t.r.version = s.r.version
      /\ t.fresh.state = s.fresh.state /\ t.fresh.stage = s.fresh.stage
      /\ t.fresh.version = s.fresh.version
  BY <1>2, <1>t, LocalFields DEF Rollout
<1> HIDE DEF s, t
<1>4. LoadedState(t) = LoadedState(s) /\ LoadedStage(t) = LoadedStage(s)
  BY <1>3 DEF LoadedState, LoadedStage
<1>5. PhaseOK(t, row')
  BY <1>1, <1>3 DEF LocalOK, PhaseOK, SameRow, s
<1>6. CopyOK(t, row')
  BY <1>1, <1>3, <1>4 DEF LocalOK, CopyOK, SameRow, s
<1>7. RetryOK(t, row')
  BY <1>1, <1>3 DEF LocalOK, RetryOK, SameRow, StillApplies, s
<1>8. ProgressOK(t, row')
  BY <1>1, <1>3, <1>4 DEF LocalOK, ProgressOK, SameRow, s
<1> QED
  BY <1>1, <1>5, <1>6, <1>7, <1>8 DEF LocalOK, t

(* Every step changes the row legally and keeps the copies consistent. *)
LEMMA SnapshotStep ==
    ASSUME TypeOK, TypeOK', SnapshotInv, [Next]_vars
    PROVE  SnapshotInv' /\ RowStep(row, row')
<1>t. /\ row \in Rollout /\ row' \in Rollout
      /\ \A x \in Engines : eng[x] \in EngineRec /\ eng'[x] \in EngineRec
  BY DEF TypeOK
<1>l. /\ \A x \in Engines : LocalOK(eng[x], row)
      /\ row.state = "pending" => row.stage = 0
  BY DEF SnapshotInv
<1>p. RowStep(row, row') => (row'.state = "pending" => row'.stage = 0)
  BY <1>l, <1>t, RowStepFacts
<1>q. ASSUME RowStep(row, row'), NEW x \in Engines, eng'[x] = eng[x]
      PROVE  LocalOK(eng'[x], row')
  BY <1>q, <1>t, <1>l, StaleCopy
<1>1. ASSUME NEW e \in Engines, EngineStep(e) PROVE SnapshotInv' /\ RowStep(row, row')
  <2>1. StepOK(e)
    BY <1>1, EngineStepOK
  <2>2. \A x \in Engines : LocalOK(eng'[x], row')
    BY <2>1, <1>q DEF StepOK
  <2> QED
    BY <2>1, <2>2, <1>p DEF StepOK, SnapshotInv
<1>2. ASSUME NEW e \in Engines, Crash(e) PROVE SnapshotInv' /\ RowStep(row, row')
  <2>1. StepOK(e)
    BY <1>2, ReturnOK DEF Crash
  <2>2. \A x \in Engines : LocalOK(eng'[x], row')
    BY <2>1, <1>q DEF StepOK
  <2> QED
    BY <2>1, <2>2, <1>p DEF StepOK, SnapshotInv
<1>3. CASE Pause \/ Resume \/ Abort
  <2>1. RowStep(row, row') /\ eng' = eng
    BY <1>3, CommandOK
  <2>2. \A x \in Engines : LocalOK(eng'[x], row')
    BY <2>1, <1>q
  <2> QED
    BY <2>1, <2>2, <1>p DEF SnapshotInv
<1>x. CASE SetExcludeFromLearning
  <2>1. RowStep(row, row') /\ eng' = eng
    BY <1>x, ExcludeOK
  <2>2. \A x \in Engines : LocalOK(eng'[x], row')
    BY <2>1, <1>q
  <2> QED
    BY <2>1, <2>2, <1>p DEF SnapshotInv
<1>4. CASE \E a \in Agents : ReconcileAgent(a) \/ ChangeGroup(a) \/ Relabel(a)
  BY <1>4, <1>l DEF ReconcileAgent, ChangeGroup, Relabel, SnapshotInv, RowStep, SameRow
<1>5. CASE TimePasses
  <2>1. SameRow(row, row')
    BY <1>5, <1>t DEF TimePasses, SameRow, Rollout
  <2>2. \A x \in Engines : LocalOK(eng'[x], row')
    BY <1>5, <1>l, TimeOK
  <2> QED
    BY <2>1, <2>2, <1>p DEF SnapshotInv, RowStep
<1>6. CASE UNCHANGED vars
  BY <1>6, <1>l DEF vars, SnapshotInv, RowStep, SameRow
<1> QED
  BY <1>1, <1>2, <1>3, <1>x, <1>4, <1>5, <1>6 DEF Next

(* Whatever engines, operators and faults do, an engine's copy with the    *)
(* stored version is a copy of the stored row and no copy is more than one *)
(* stage ahead: UpdateRollout's version check is enough for the engine's   *)
(* reload-and-retry and for several engines at once.                       *)
THEOREM CopiesConsistent == Spec => []SnapshotInv
<1>1. Init => SnapshotInv
  BY IdleOK, IdleType DEF Init, SnapshotInv, NewRollout
<1>2. TypeOK /\ TypeOK' /\ SnapshotInv /\ [Next]_vars => SnapshotInv'
  BY SnapshotStep
<1> QED
  BY <1>1, <1>2, TypeCorrect, PTL DEF Spec

(* An abort, a pause and a terminal state survive every engine write: the  *)
(* operator wins each race, for any number of engines and any faults.      *)
THEOREM OperatorAlwaysWins == Spec => OperatorWins
<1>1. TypeOK /\ TypeOK' /\ SnapshotInv /\ [Next]_vars => [KeepsDecision]_vars
  <2> SUFFICES ASSUME TypeOK, TypeOK', SnapshotInv, [Next]_vars PROVE KeepsDecision \/ UNCHANGED vars
    OBVIOUS
  <2>1. RowStep(row, row')
    BY SnapshotStep
  <2>2. /\ row.state = "aborted" => row'.state \in {"aborted", "rolled_back"}
        /\ row.state \in {"succeeded", "rolled_back"} => row'.state = row.state
    BY <2>1, RowStepFacts DEF TypeOK
  <2>3. ASSUME row.state = "paused", ~UNCHANGED vars
        PROVE  \/ [row' EXCEPT !.age = row.age] = row
               \/ cmds' < cmds /\ row'.stage = row.stage /\ row'.pushed = row.pushed
    <3>t. row \in Rollout /\ row' \in Rollout
      BY DEF TypeOK
    <3>1. row' = row => [row' EXCEPT !.age = row.age] = row
      BY <3>t DEF Rollout
    <3>2. ASSUME NEW e \in Engines, EngineStep(e) PROVE row' = row
      BY <3>2, <2>3, EngineStepOK DEF StepOK
    <3>3. ASSUME NEW e \in Engines, Crash(e) PROVE row' = row
      BY <3>3 DEF Crash
    <3>4. ASSUME NEW a \in Agents, ReconcileAgent(a) \/ ChangeGroup(a) \/ Relabel(a)
          PROVE  row' = row
      BY <3>4 DEF ReconcileAgent, ChangeGroup, Relabel
    <3>5. CASE TimePasses
      BY <3>5, <3>t DEF TimePasses, Rollout
    <3>6. CASE Pause \/ Resume \/ Abort
      BY <3>6, CommandOK
    <3>7. CASE SetExcludeFromLearning
      BY <3>7, ExcludeOK
    <3> QED
      BY <2>3, <3>1, <3>2, <3>3, <3>4, <3>5, <3>6, <3>7 DEF Next
  <2> QED
    BY <2>2, <2>3 DEF KeepsDecision
<1> QED
  BY <1>1, TypeCorrect, CopiesConsistent, PTL DEF Spec, OperatorWins
-----------------------------------------------------------------------------
(* Promotion and blast radius. *)

(* The group config is promoted only once the success is in the store. *)
LEMMA PromotionStep ==
    ASSUME TypeOK, TypeOK', SnapshotInv, PromotedOnlyIfSucceeded, [Next]_vars
    PROVE  PromotedOnlyIfSucceeded'
<1>1. row.state = "succeeded" => row'.state = "succeeded"
  BY SnapshotStep, RowStepFacts DEF TypeOK
<1>2. CASE groupConfig' = groupConfig
  BY <1>1, <1>2 DEF PromotedOnlyIfSucceeded
<1>3. CASE groupConfig' # groupConfig
  <2>1. PICK e \in Engines : PromoteTargetToGroupConfig(e)
    BY <1>3 DEF Next, EngineStep, Crash, Pause, Resume, Abort, SetExcludeFromLearning, Command, ReconcileAgent,
       ChangeGroup, Relabel, TimePasses, ListRollouts, BlackoutBlocked, ClearBlackout, Start,
       CriteriaAbort, ConvergenceTimeout, Wait, Advance, Finish, ApplyStage, ApplyStageFails,
       Rollback, Persist, Reload, RetryPersist, CheckCoverage, DeletePins, fleet, vars
  <2>2. row.state = "succeeded"
    BY <2>1 DEF PromoteTargetToGroupConfig, At, SnapshotInv, LocalOK, PhaseOK
  <2> QED
    BY <1>1, <2>2 DEF PromotedOnlyIfSucceeded
<1> QED
  BY <1>2, <1>3

(* A group config equal to the target implies a recorded success, also     *)
(* when several engines race, crash or lose their writes.                  *)
THEOREM PromotionFollowsSuccess == Spec => []PromotedOnlyIfSucceeded
<1>1. Init => PromotedOnlyIfSucceeded
  BY DEF Init, PromotedOnlyIfSucceeded
<1>2. TypeOK /\ TypeOK' /\ SnapshotInv /\ PromotedOnlyIfSucceeded /\ [Next]_vars
        => PromotedOnlyIfSucceeded'
  BY PromotionStep
<1> QED
  BY <1>1, <1>2, TypeCorrect, CopiesConsistent, PTL DEF Spec

(* More stages, more agents. *)
LEMMA CohortsGrow ==
    ASSUME NEW k \in Int, NEW m \in Int, k <= m PROVE CohortsUpTo(k) \subseteq CohortsUpTo(m)
BY StageNumbers DEF CohortsUpTo, LastStage

(* Only applyStage exposes an agent that was not exposed before. *)
LEMMA ExposureStep ==
    ASSUME TypeOK, SnapshotInv, PromotedOnlyIfSucceeded, [Next]_vars, row.state # "succeeded"
    PROVE  \/ Exposed' \subseteq Exposed
           \/ \E e \in Engines : /\ eng[e].pc = "apply"
                               /\ Exposed' \subseteq Exposed \cup canaryAgentsForStage(eng[e].r.stage)
<1>1. CASE UNCHANGED <<pin, effective>>
  BY <1>1 DEF Exposed
<1>2. ASSUME NEW e \in Engines, ApplyStage(e)
      PROVE  /\ eng[e].pc = "apply"
             /\ Exposed' \subseteq Exposed \cup canaryAgentsForStage(eng[e].r.stage)
  BY <1>2 DEF ApplyStage, Deliver, Exposed, At
<1>3. ASSUME NEW e \in Engines, Rollback(e) PROVE Exposed' \subseteq Exposed
  BY <1>3 DEF Rollback, Deliver, Exposed
<1>4. ASSUME NEW e \in Engines, DeletePins(e) PROVE Exposed' \subseteq Exposed
  BY <1>4 DEF DeletePins, Exposed
<1>5. ASSUME NEW a \in Agents, ReconcileAgent(a) PROVE Exposed' \subseteq Exposed
  <2>1. groupConfig # "target"
    BY DEF PromotedOnlyIfSucceeded
  <2>2. resolveStoredConfig(a) = "target" => pin[a] = "target"
    BY <2>1 DEF resolveStoredConfig
  <2> QED
    BY <1>5, <2>2 DEF ReconcileAgent, Exposed, TypeOK
<1>6. ASSUME NEW e \in Engines, EngineStep(e), ~ApplyStage(e), ~Rollback(e), ~DeletePins(e)
      PROVE  UNCHANGED <<pin, effective>>
  BY <1>6 DEF EngineStep, ListRollouts, BlackoutBlocked, ClearBlackout, Start, CriteriaAbort,
     ConvergenceTimeout, Wait, Advance, Finish, ApplyStageFails, Persist, Reload, RetryPersist,
     CheckCoverage, PromoteTargetToGroupConfig, fleet
<1>7. CASE \/ \E e \in Engines : Crash(e)
           \/ Pause \/ Resume \/ Abort \/ SetExcludeFromLearning \/ TimePasses
           \/ \E a \in Agents : ChangeGroup(a) \/ Relabel(a)
           \/ UNCHANGED vars
  <2>1. UNCHANGED <<pin, effective>>
    BY <1>7 DEF Crash, Pause, Resume, Abort, SetExcludeFromLearning, Command, TimePasses,
       ChangeGroup, Relabel, fleet, vars
  <2> QED
    BY <2>1, <1>1
<1> QED
  BY <1>1, <1>2, <1>3, <1>4, <1>5, <1>6, <1>7 DEF Next

(* While nobody joins, leaves or is relabelled, the target stays within    *)
(* the stage after the recorded one until the rollout has succeeded: no    *)
(* crash, lost write or lost race lets the engine skip a stage.            *)
THEOREM BlastRadiusBounded == ASSUME "churn" \notin Faults PROVE Spec => []BlastRadius
<1>1. Init => BlastRadius
  BY DEF Init, BlastRadius, Exposed
<1>2. ASSUME TypeOK, TypeOK', SnapshotInv, PromotedOnlyIfSucceeded, BlastRadius, [Next]_vars
      PROVE  BlastRadius'
  <2> SUFFICES ASSUME row'.state # "succeeded" PROVE Exposed' \subseteq CohortsUpTo(row.stage + 1)'
    BY DEF BlastRadius
  <2>1. UNCHANGED <<member, label>>
    BY <1>2 DEF Next, EngineStep, Crash, Pause, Resume, Abort, SetExcludeFromLearning, Command, ReconcileAgent,
       ChangeGroup, Relabel, Fault, TimePasses, ListRollouts, BlackoutBlocked, ClearBlackout,
       Start, CriteriaAbort, ConvergenceTimeout, Wait, Advance, Finish, ApplyStage,
       ApplyStageFails, Rollback, Persist, Reload, RetryPersist, CheckCoverage,
       PromoteTargetToGroupConfig, DeletePins, world, vars
  <2>t. row.stage \in Int /\ row'.stage \in Int
    BY <1>2, StageNumbers DEF TypeOK, Rollout
  <2>2. row.stage <= row'.stage /\ row.state # "succeeded"
    BY <1>2, <2>t, SnapshotStep, RowStepFacts DEF TypeOK
  <2>3. CohortsUpTo(row.stage + 1) \subseteq CohortsUpTo(row.stage + 1)'
    <3>1. CohortsUpTo(row.stage + 1) \subseteq CohortsUpTo(row'.stage + 1)
      BY <2>2, <2>t, CohortsGrow
    <3>2. CohortsUpTo(row'.stage + 1) = CohortsUpTo(row.stage + 1)'
      BY <2>1 DEF CohortsUpTo, canaryAgentsForStage, matchByLabel, FirstN, CeilPercent,
                  StageAt, LastStage
    <3> QED
      BY <3>1, <3>2
  <2>4. Exposed \subseteq CohortsUpTo(row.stage + 1)
    BY <1>2, <2>2 DEF BlastRadius
  <2>5. ASSUME NEW e \in Engines, eng[e].pc = "apply"
        PROVE  canaryAgentsForStage(eng[e].r.stage) \subseteq CohortsUpTo(row.stage + 1)
    <3>1. eng[e].r.stage \in 0..LastStage
      BY <1>2, CopyType DEF Rollout, LastStage
    <3>2. LoadedStage(eng[e]) <= row.stage
      BY <1>2, <2>5 DEF SnapshotInv, LocalOK, ProgressOK
    <3>3. eng[e].r.stage <= row.stage + 1
      BY <3>1, <3>2, <2>t, StageNumbers DEF LoadedStage, LastStage
    <3> QED
      BY <3>1, <3>3 DEF CohortsUpTo
  <2> QED
    BY <1>2, <2>2, <2>3, <2>4, <2>5, ExposureStep
<1> QED
  BY <1>1, <1>2, TypeCorrect, CopiesConsistent, PromotionFollowsSuccess, PTL DEF Spec
-----------------------------------------------------------------------------
(* Refinement. *)

(* The stored row implements the abstract lifecycle for any number of      *)
(* engines, agents, stages, operator commands and faults: every write that *)
(* lands is one of its transitions from the state that was stored just     *)
(* before it.                                                              *)
THEOREM RowImplementsLifecycle == Spec => ImplementsLifecycle
<1>1. Init => Lifecycle!LifecycleInit
  BY DEF Init, NewRollout, Lifecycle!LifecycleInit
<1>2. TypeOK /\ TypeOK' /\ SnapshotInv /\ [Next]_vars
        => [Lifecycle!LifecycleNext]_(Lifecycle!lifecycle)
  <2> SUFFICES ASSUME TypeOK, TypeOK', SnapshotInv, [Next]_vars
               PROVE  Lifecycle!LifecycleNext \/ UNCHANGED Lifecycle!lifecycle
    OBVIOUS
  <2>1. RowStep(row, row')
    BY SnapshotStep
  <2>2. CASE EngineTransition(row, row')
    BY <2>2 DEF EngineTransition, Lifecycle!LifecycleNext, Lifecycle!Begin, Lifecycle!Promote,
       Lifecycle!Succeed, Lifecycle!Stop, Lifecycle!Undo
  <2>3. CASE OperatorTransition(row, row')
    BY <2>3 DEF OperatorTransition, Lifecycle!LifecycleNext, Lifecycle!Hold,
       Lifecycle!Continue, Lifecycle!Stop
  <2>4. CASE row'.state = row.state /\ row'.stage = row.stage
    BY <2>4 DEF Lifecycle!lifecycle
  <2> QED
    BY <2>1, <2>2, <2>3, <2>4 DEF RowStep, SameRow
<1> QED
  BY <1>1, <1>2, TypeCorrect, CopiesConsistent, PTL
     DEF Spec, ImplementsLifecycle, Lifecycle!LifecycleSpec
-----------------------------------------------------------------------------
(* The moves of process(), from the local state s and the stored row w to  *)
(* the local state t and the row v.                                        *)

EndsPass(w, t, v) == v = w /\ t.pc = "idle" /\ t.op = "none"

Lists(s, w, t, v) ==
    s.pc = "idle" /\ v = w /\ t.pc = "listed" /\ t.op = "none" /\ t.r = w

(* applyBlackoutCheck: the copy p with the new reason is written, or it is *)
(* refused; the pass ends or goes on with it.                              *)
ChecksBlackout(s, w, t, v) ==
    /\ s.pc = "listed" /\ s.r.state \in {"pending", "in_progress"}
    /\ t.pc \in {"idle", "listed"} /\ t.op = "none"
    /\ \E p \in Rollout :
          /\ p.state = s.r.state /\ p.stage = s.r.stage /\ p.age = s.r.age
          /\ p.pushed = s.r.pushed
          /\ t.pc = "listed" => t.r = p
          /\ \/ v = w /\ p.version = s.r.version
             \/ s.r.version = w.version /\ p.version = w.version + 1 /\ v = p

(* The table of process(), with the dwell gate. *)
Decides(s, w, t, v) ==
    /\ s.pc = "listed" /\ v = w
    /\ t.r.version = s.r.version /\ t.r.pushed = s.r.pushed
    /\ \/ s.r.state = "pending" /\ t.pc = "apply" /\ t.op = "start"
       \/ /\ s.r.state = "in_progress" /\ t.pc = "apply" /\ t.op = "advance"
          /\ DwellElapsed(s.r) /\ t.r.stage = s.r.stage + 1
       \/ s.r.state = "in_progress" /\ t.pc = "persist" /\ t.op = "abort"
       \/ /\ s.r.state = "in_progress" /\ t.pc = "persist" /\ t.op = "finish"
          /\ t.r.stage = s.r.stage
       \/ s.r.state = "aborted" /\ t.pc = "persist" /\ t.op = "rollback"

Applies(s, w, t, v) ==
    /\ s.pc = "apply" /\ t.pc = "persist" /\ t.op = s.op /\ v = w
    /\ t.r.stage = s.r.stage /\ t.r.version = s.r.version

(* A write of the copy r lands. *)
Lands(s, w, t, v) ==
    \E r \in Rollout :
        /\ \/ s.pc = "persist" /\ r = s.r
           \/ s.pc = "retry" /\ r = s.fresh
        /\ r.version = w.version /\ v.version = w.version + 1
        /\ v.state = r.state /\ v.stage = r.stage /\ v.age = r.age /\ v.pushed = r.pushed
        /\ \/ s.op \notin {"finish", "rollback"} /\ t.pc = "idle" /\ t.op = "none"
           \/ s.op = "finish" /\ t.pc = "coverage" /\ t.op = "finish" /\ t.r = r
           \/ s.op = "rollback" /\ t.pc = "cleanup" /\ t.op = "rollback" /\ t.r = r

Reloads(s, w, t, v) ==
    /\ v = w /\ t.op = s.op /\ t.r = s.r
    /\ \/ s.pc = "persist" /\ t.pc = "reload" /\ Reconciles(s.op) /\ s.r.version # w.version
       \/ /\ s.pc = "reload" /\ t.pc = "retry" /\ StillApplies(s.op, s.r, w)
          /\ t.fresh = Reapply(s.op, s.r, w)

(* The cleanup after the writes. *)
Finalizes(s, w, t, v) ==
    /\ v = w /\ t.op = s.op /\ t.r = s.r
    /\ \/ s.pc \in {"persist", "reload", "retry"} /\ s.op = "rollback" /\ t.pc = "cleanup"
       \/ s.pc = "coverage" /\ t.pc = "promote"
       \/ s.pc = "promote" /\ t.pc = "cleanup"

EngineMove(s, w, t, v) ==
    \/ EndsPass(w, t, v) \/ Lists(s, w, t, v) \/ ChecksBlackout(s, w, t, v)
    \/ Decides(s, w, t, v) \/ Applies(s, w, t, v) \/ Lands(s, w, t, v)
    \/ Reloads(s, w, t, v) \/ Finalizes(s, w, t, v)

(* Every step of an engine is one of these moves. *)
LEMMA EngineMoves ==
    ASSUME TypeOK, SnapshotInv, NEW e \in Engines, EngineStep(e)
    PROVE  /\ EngineMove(eng[e], row, eng'[e], row')
           /\ \A x \in Engines \ {e} : eng'[x] = eng[x]
<1> DEFINE s == eng[e]
           t == eng'[e]
           Others == \A x \in Engines \ {e} : eng'[x] = eng[x]
<1>t. /\ s.r \in Rollout /\ s.fresh \in Rollout /\ row \in Rollout
      /\ s.pc \in PCs /\ s.op \in Ops /\ LocalOK(s, row)
  BY CopyType DEF TypeOK, SnapshotInv
<1>i. Idle.pc = "idle" /\ Idle.op = "none"
  BY DEF Idle, Local
<1>g. ASSUME NEW pc, NEW op, NEW r, Goto(e, pc, op, r)
      PROVE  t.pc = pc /\ t.op = op /\ t.r = r /\ Others
  BY <1>g, Moves, LocalFields
<1>j. ASSUME Return(e) PROVE t.pc = "idle" /\ t.op = "none" /\ Others
  BY <1>j, <1>i, Moves
<1>v. ASSUME NEW q \in Rollout, NEW p, p = [q EXCEPT !.version = @ + 1]
      PROVE  /\ p \in Rollout /\ p.state = q.state /\ p.stage = q.stage /\ p.age = q.age
             /\ p.pushed = q.pushed /\ p.version = q.version + 1
  BY <1>v DEF Rollout
<1>b. ASSUME NEW b \in BOOLEAN, NEW q, q = [s.r EXCEPT !.blackout = b],
             NEW p, p = [q EXCEPT !.version = @ + 1]
      PROVE  /\ q \in Rollout /\ q.state = s.r.state /\ q.stage = s.r.stage /\ q.age = s.r.age
             /\ q.pushed = s.r.pushed /\ q.version = s.r.version
             /\ p \in Rollout /\ p.state = s.r.state /\ p.stage = s.r.stage /\ p.age = s.r.age
             /\ p.pushed = s.r.pushed /\ p.version = s.r.version + 1
  <2>1. /\ q \in Rollout /\ q.state = s.r.state /\ q.stage = s.r.stage /\ q.age = s.r.age
        /\ q.pushed = s.r.pushed /\ q.version = s.r.version
    BY <1>b, <1>t DEF Rollout
  <2>2. /\ p \in Rollout /\ p.state = q.state /\ p.stage = q.stage /\ p.age = q.age
        /\ p.pushed = q.pushed /\ p.version = q.version + 1
    BY <1>b, <2>1, <1>v
  <2> QED
    BY <2>1, <2>2
<1>1. CASE ListRollouts(e)
  BY <1>1, <1>g DEF ListRollouts, At, Lists, EngineMove
<1>2. ASSUME Return(e), row' = row PROVE EndsPass(row, t, row') /\ Others
  BY <1>2, <1>j DEF EndsPass
<1>3. CASE Wait(e) \/ ApplyStageFails(e) \/ DeletePins(e)
  <2>1. Return(e) /\ row' = row
    BY <1>3 DEF Wait, ApplyStageFails, DeletePins
  <2> QED
    BY <2>1, <1>2 DEF EngineMove
<1>4. CASE BlackoutBlocked(e)
  <2> DEFINE q == [s.r EXCEPT !.blackout = TRUE]
             p == [q EXCEPT !.version = @ + 1]
  <2>1. /\ p \in Rollout /\ p.state = s.r.state /\ p.stage = s.r.stage /\ p.age = s.r.age
        /\ p.pushed = s.r.pushed /\ p.version = s.r.version + 1
    BY <1>t, <1>b
  <2>2. CASE row' = row
    BY <2>2, <1>4, <1>2 DEF BlackoutBlocked, EngineMove
  <2>3. CASE UpdateRollout([s.r EXCEPT !.blackout = TRUE])
    <3>1. row' = p /\ s.r.version = row.version
      BY <2>3, <1>t, <1>b DEF UpdateRollout
    <3>2. /\ t.pc = "idle" /\ t.op = "none" /\ Others
          /\ s.pc = "listed" /\ s.r.state \in {"pending", "in_progress"}
      BY <1>4, <1>j DEF BlackoutBlocked, At, Forward
    <3> HIDE DEF p
    <3>3. ChecksBlackout(s, row, t, row')
      BY <3>1, <3>2, <2>1, <1>t DEF ChecksBlackout
    <3> QED
      BY <3>2, <3>3 DEF EngineMove
  <2> QED
    BY <1>4, <2>2, <2>3 DEF BlackoutBlocked
<1>5. CASE ClearBlackout(e)
  <2> DEFINE r == [s.r EXCEPT !.blackout = FALSE]
             p == [r EXCEPT !.version = @ + 1]
  <2>1. /\ r \in Rollout /\ r.state = s.r.state /\ r.stage = s.r.stage /\ r.age = s.r.age
        /\ r.pushed = s.r.pushed /\ r.version = s.r.version
        /\ p \in Rollout /\ p.state = s.r.state /\ p.stage = s.r.stage /\ p.age = s.r.age
        /\ p.pushed = s.r.pushed /\ p.version = s.r.version + 1
    BY <1>t, <1>b
  <2>2. s.pc = "listed" /\ s.r.state \in {"pending", "in_progress"}
    BY <1>5 DEF ClearBlackout, At, Forward
  <2>3. CASE UpdateRollout(r) /\ Goto(e, "listed", "none", p)
    <3>1. row' = p /\ s.r.version = row.version
      BY <2>3, <2>1 DEF UpdateRollout
    <3>2. t.pc = "listed" /\ t.op = "none" /\ t.r = p /\ Others
      BY <2>3, <1>g
    <3> HIDE DEF p, r
    <3>3. ChecksBlackout(s, row, t, row')
      BY <3>1, <3>2, <2>1, <2>2 DEF ChecksBlackout
    <3> QED
      BY <3>2, <3>3 DEF EngineMove
  <2>4. CASE row' = row /\ Goto(e, "listed", "none", r)
    <3>1. t.pc = "listed" /\ t.op = "none" /\ t.r = r /\ Others
      BY <2>4, <1>g
    <3> HIDE DEF p, r
    <3>2. ChecksBlackout(s, row, t, row')
      BY <2>4, <3>1, <2>1, <2>2 DEF ChecksBlackout
    <3> QED
      BY <3>1, <3>2 DEF EngineMove
  <2> QED
    BY <1>5, <2>3, <2>4 DEF ClearBlackout
<1>6. CASE Start(e)
  <2> DEFINE r == [s.r EXCEPT !.state = "in_progress", !.age = "fresh"]
  <2>1. r.version = s.r.version /\ r.pushed = s.r.pushed
    BY <1>t DEF Rollout
  <2>2. t.pc = "apply" /\ t.op = "start" /\ t.r = r /\ Others
    BY <1>6, <1>g DEF Start
  <2> HIDE DEF r
  <2> QED
    BY <1>6, <2>1, <2>2 DEF Start, Processing, At, Decides, EngineMove
<1>7. CASE CriteriaAbort(e) \/ ConvergenceTimeout(e)
  <2> DEFINE r == [s.r EXCEPT !.state = "aborted"]
  <2>1. r.version = s.r.version /\ r.pushed = s.r.pushed
    BY <1>t DEF Rollout
  <2>2. t.pc = "persist" /\ t.op = "abort" /\ t.r = r /\ Others
    BY <1>7, <1>g DEF CriteriaAbort, ConvergenceTimeout, TriggerAbort
  <2> HIDE DEF r
  <2> QED
    BY <1>7, <2>1, <2>2 DEF CriteriaAbort, ConvergenceTimeout, Processing, At, Decides, EngineMove
<1>8. CASE Advance(e)
  <2> DEFINE r == [s.r EXCEPT !.stage = @ + 1, !.age = "fresh"]
  <2>1. r.version = s.r.version /\ r.pushed = s.r.pushed /\ r.stage = s.r.stage + 1
    BY <1>t DEF Rollout
  <2>2. t.pc = "apply" /\ t.op = "advance" /\ t.r = r /\ Others
    BY <1>8, <1>g DEF Advance
  <2> HIDE DEF r
  <2> QED
    BY <1>8, <2>1, <2>2 DEF Advance, Processing, At, GateOpen, Decides, EngineMove
<1>9. CASE Finish(e)
  <2> DEFINE r == [s.r EXCEPT !.state = "succeeded"]
  <2>1. r.version = s.r.version /\ r.pushed = s.r.pushed /\ r.stage = s.r.stage
    BY <1>t DEF Rollout
  <2>2. t.pc = "persist" /\ t.op = "finish" /\ t.r = r /\ Others
    BY <1>9, <1>g DEF Finish
  <2> HIDE DEF r
  <2> QED
    BY <1>9, <2>1, <2>2 DEF Finish, Processing, At, Decides, EngineMove
<1>10. CASE Rollback(e)
  <2> DEFINE r == [s.r EXCEPT !.state = "rolled_back"]
  <2>1. r.version = s.r.version /\ r.pushed = s.r.pushed
    BY <1>t DEF Rollout
  <2>2. t.pc = "persist" /\ t.op = "rollback" /\ t.r = r /\ Others
    BY <1>10, <1>g DEF Rollback
  <2> HIDE DEF r
  <2> QED
    BY <1>10, <2>1, <2>2 DEF Rollback, Processing, At, Decides, EngineMove
<1>11. CASE ApplyStage(e)
  <2>1. PICK A : Goto(e, "persist", s.op, [s.r EXCEPT !.pushed = @ \cup A])
    BY <1>11 DEF ApplyStage
  <2> DEFINE r == [s.r EXCEPT !.pushed = @ \cup A]
  <2>2. r.version = s.r.version /\ r.stage = s.r.stage
    BY <1>t DEF Rollout
  <2>3. t.pc = "persist" /\ t.op = s.op /\ t.r = r /\ Others
    BY <2>1, <1>g
  <2> HIDE DEF r
  <2> QED
    BY <1>11, <2>2, <2>3 DEF ApplyStage, At, Applies, EngineMove
<1>12. ASSUME NEW r \in Rollout, \/ s.pc = "persist" /\ r = s.r
                                 \/ s.pc = "retry" /\ r = s.fresh,
              UpdateRollout(r), AfterPersist(e, r)
       PROVE  Lands(s, row, t, row') /\ Others
  <2>1. /\ r.version = row.version /\ row'.version = row.version + 1 /\ row'.state = r.state
        /\ row'.stage = r.stage /\ row'.age = r.age /\ row'.pushed = r.pushed
    BY <1>12 DEF UpdateRollout, Rollout
  <2>2. /\ \/ s.op \notin {"finish", "rollback"} /\ t.pc = "idle" /\ t.op = "none"
           \/ s.op = "finish" /\ t.pc = "coverage" /\ t.op = "finish" /\ t.r = r
           \/ s.op = "rollback" /\ t.pc = "cleanup" /\ t.op = "rollback" /\ t.r = r
        /\ Others
    BY <1>12, <1>g, <1>j DEF AfterPersist
  <2> HIDE DEF s, t, Others
  <2> QED
    BY <1>12, <2>1, <2>2 DEF Lands
<1>13. ASSUME AfterYield(e), row' = row, s.pc \in {"persist", "reload", "retry"}
       PROVE  EngineMove(s, row, t, row') /\ Others
  <2>1. CASE s.op = "rollback"
    BY <1>13, <2>1, <1>g DEF AfterYield, Finalizes, EngineMove
  <2>2. CASE s.op # "rollback"
    BY <1>13, <2>2, <1>2 DEF AfterYield, EngineMove
  <2> QED
    BY <2>1, <2>2
<1>14. CASE Persist(e)
  <2>1. s.pc = "persist"
    BY <1>14 DEF Persist, At
  <2>2. CASE UpdateRollout(s.r) /\ AfterPersist(e, s.r)
    BY <2>1, <2>2, <1>12, <1>t DEF EngineMove
  <2>3. CASE /\ VersionConflict(s.r) /\ row' = row
             /\ IF Reconciles(s.op) THEN Goto(e, "reload", s.op, s.r) ELSE Return(e)
    <3>1. CASE Reconciles(s.op)
      BY <2>1, <2>3, <3>1, <1>g DEF VersionConflict, Reloads, EngineMove
    <3>2. CASE ~Reconciles(s.op)
      BY <2>3, <3>2, <1>2 DEF EngineMove
    <3> QED
      BY <3>1, <3>2
  <2>4. CASE AfterYield(e) /\ row' = row
    BY <2>1, <2>4, <1>13
  <2> QED
    BY <1>14, <2>2, <2>3, <2>4 DEF Persist
<1>15. CASE Reload(e)
  <2>1. s.pc = "reload" /\ row' = row
    BY <1>15 DEF Reload, At
  <2>2. CASE /\ StillApplies(s.op, s.r, row)
             /\ eng' = [eng EXCEPT ![e] = Local("retry", s.op, s.r, Reapply(s.op, s.r, row))]
    <3>1. t = Local("retry", s.op, s.r, Reapply(s.op, s.r, row)) /\ Others
      BY <2>2, Moves
    <3>2. t.pc = "retry" /\ t.op = s.op /\ t.r = s.r /\ t.fresh = Reapply(s.op, s.r, row)
      BY <3>1, LocalFields
    <3> QED
      BY <2>1, <2>2, <3>1, <3>2 DEF Reloads, EngineMove
  <2>3. CASE AfterYield(e)
    BY <2>1, <2>3, <1>13
  <2> QED
    BY <1>15, <2>2, <2>3 DEF Reload
<1>16. CASE RetryPersist(e)
  <2>1. s.pc = "retry"
    BY <1>16 DEF RetryPersist, At
  <2>2. CASE UpdateRollout(s.fresh) /\ AfterPersist(e, s.fresh)
    BY <2>1, <2>2, <1>12, <1>t DEF EngineMove
  <2>3. CASE AfterYield(e) /\ row' = row
    BY <2>1, <2>3, <1>13
  <2> QED
    BY <1>16, <2>2, <2>3 DEF RetryPersist
<1>17. CASE CheckCoverage(e)
  <2>1. s.pc = "coverage" /\ row' = row /\ s.op = "finish"
    BY <1>17, <1>t DEF CheckCoverage, At, LocalOK, PhaseOK
  <2>2. CASE Goto(e, "promote", "finish", s.r)
    BY <2>1, <2>2, <1>g DEF Finalizes, EngineMove
  <2>3. CASE Return(e)
    BY <2>1, <2>3, <1>2 DEF EngineMove
  <2> QED
    BY <1>17, <2>2, <2>3 DEF CheckCoverage
<1>18. CASE PromoteTargetToGroupConfig(e)
  <2>1. s.pc = "promote" /\ row' = row /\ s.op = "finish"
    BY <1>18, <1>t DEF PromoteTargetToGroupConfig, At, LocalOK, PhaseOK
  <2>2. CASE Goto(e, "cleanup", "finish", s.r)
    BY <2>1, <2>2, <1>g DEF Finalizes, EngineMove
  <2>3. CASE Return(e)
    BY <2>1, <2>3, <1>2 DEF EngineMove
  <2> QED
    BY <1>18, <2>2, <2>3 DEF PromoteTargetToGroupConfig
<1> QED
  BY <1>1, <1>3, <1>4, <1>5, <1>6, <1>7, <1>8, <1>9, <1>10, <1>11, <1>14, <1>15, <1>16,
     <1>17, <1>18 DEF EngineStep
-----------------------------------------------------------------------------
(* The current stage of a rollout in progress has been applied. *)

Cohorts == [k \in 0..LastStage |-> canaryAgentsForStage(k)]

(* Without churn the cohorts stay what they are. *)
LEMMA FleetFixed ==
    ASSUME "churn" \notin Faults, [Next]_vars
    PROVE  UNCHANGED <<member, label>> /\ Cohorts' = Cohorts
<1>1. UNCHANGED <<member, label>>
  BY DEF Next, EngineStep, Crash, Pause, Resume, Abort, SetExcludeFromLearning, Command, ReconcileAgent,
     ChangeGroup, Relabel, Fault, TimePasses, ListRollouts, BlackoutBlocked, ClearBlackout,
     Start, CriteriaAbort, ConvergenceTimeout, Wait, Advance, Finish, ApplyStage,
     ApplyStageFails, Rollback, Persist, Reload, RetryPersist, CheckCoverage,
     PromoteTargetToGroupConfig, DeletePins, world, vars
<1> QED
  BY <1>1 DEF Cohorts, canaryAgentsForStage, matchByLabel, FirstN, CeilPercent, StageAt, LastStage

(* A copy that is still current has the recorded pushed-set, and a copy    *)
(* that starts or enters a stage has delivered to the whole cohort, C      *)
(* being the cohorts.                                                      *)
AppliedCopy(s, w, C) ==
    /\ s.pc = "listed" /\ s.r.version = w.version => s.r.pushed = w.pushed
    /\ s.pc \in {"persist", "reload", "retry"} /\ s.op \in {"start", "advance"} =>
          C[s.r.stage] \subseteq s.r.pushed
    /\ s.pc = "retry" /\ s.op \in {"start", "advance"} => s.fresh.pushed = s.r.pushed

(* The row, n being the commands left: a rollout that has not started has  *)
(* pushed nothing, also when it was paused before it could; only a Resume  *)
(* after that puts it in progress without a start.                         *)
AppliedRow(w, C, n) ==
    /\ w.state = "pending" => w.stage = 0 /\ w.pushed = {}
    /\ w.state = "paused" => \/ C[w.stage] \subseteq w.pushed
                             \/ w.stage = 0 /\ w.pushed = {}
    /\ w.state = "in_progress" => \/ C[w.stage] \subseteq w.pushed
                                  \/ n + 2 <= MaxCommands /\ w.stage = 0 /\ w.pushed = {}

AppliedInv ==
    AppliedRow(row, Cohorts, cmds) /\ \A e \in Engines : AppliedCopy(eng[e], row, Cohorts)

(* A paused rollout was paused by a command. *)
HoldInv == row.state = "paused" => cmds < MaxCommands

(* An engine that does not move keeps what it knows. *)
LEMMA AppliedStale ==
    ASSUME NEW s \in EngineRec, NEW w \in Rollout, NEW v \in Rollout, NEW C,
           RowStep(w, v), LocalOK(s, w), AppliedCopy(s, w, C)
    PROVE  AppliedCopy(s, v, C)
<1>1. w.version \in Nat /\ v.version \in Nat /\ s.r.version \in Nat
  BY DEF Rollout, EngineRec
<1>2. s.pc = "listed" => s.r.version <= w.version
  BY DEF LocalOK, CopyOK
<1>3. v.version = w.version + 1 \/ (v.version = w.version /\ v.pushed = w.pushed)
  BY DEF RowStep, SameRow
<1> QED
  BY <1>1, <1>2, <1>3 DEF AppliedCopy

(* The state an engine's write puts into the row. *)
LEMMA LandedState ==
    ASSUME NEW s \in EngineRec, NEW t \in EngineRec, NEW w \in Rollout, NEW v \in Rollout,
           LocalOK(s, w), Lands(s, w, t, v)
    PROVE  /\ v.state \in {"in_progress", "succeeded", "aborted", "rolled_back"}
           /\ v.state = "in_progress" => s.op \in {"start", "advance"}
<1>1. \/ s.pc = "persist" /\ v.state = s.r.state
      \/ s.pc = "retry" /\ v.state = s.fresh.state
  BY DEF Lands
<1>2. s.op # "none" /\ v.state = s.r.state /\ s.op \in Ops
  BY <1>1 DEF LocalOK, PhaseOK, RetryOK, Reconciles, EngineRec
<1> QED
  BY <1>2 DEF LocalOK, PhaseOK, Ops

(* A move of an engine that has delivered to the whole cohort when it      *)
(* applies a stage.                                                        *)
LEMMA AppliedMove ==
    ASSUME NEW s \in EngineRec, NEW t \in EngineRec, NEW w \in Rollout, NEW v \in Rollout, NEW C,
           NEW n, LocalOK(s, w), AppliedCopy(s, w, C), AppliedRow(w, C, n), EngineMove(s, w, t, v),
           s.pc = "apply" /\ t.pc = "persist" => C[t.r.stage] \subseteq t.r.pushed
    PROVE  AppliedCopy(t, v, C) /\ AppliedRow(v, C, n)
<1>1. CASE EndsPass(w, t, v) \/ Lists(s, w, t, v) \/ Finalizes(s, w, t, v)
  BY <1>1 DEF EndsPass, Lists, Finalizes, AppliedCopy, AppliedRow
<1>2. CASE ChecksBlackout(s, w, t, v)
  <2>1. PICK p \in Rollout :
          /\ p.state = s.r.state /\ p.stage = s.r.stage /\ p.pushed = s.r.pushed
          /\ t.pc = "listed" => t.r = p
          /\ \/ v = w /\ p.version = s.r.version
             \/ s.r.version = w.version /\ v = p
    BY <1>2 DEF ChecksBlackout
  <2>2. s.pc = "listed" /\ t.pc \in {"idle", "listed"} /\ t.op = "none" /\ s.op = "none"
    BY <1>2 DEF ChecksBlackout, LocalOK, PhaseOK
  <2>3. s.r.version = w.version =>
          w.state = s.r.state /\ w.stage = s.r.stage /\ w.pushed = s.r.pushed
    BY <2>2 DEF LocalOK, CopyOK, LoadedState, LoadedStage, AppliedCopy
  <2> QED
    BY <2>1, <2>2, <2>3 DEF AppliedCopy, AppliedRow
<1>3. CASE Decides(s, w, t, v) \/ Applies(s, w, t, v)
  BY <1>3 DEF Decides, Applies, AppliedCopy, AppliedRow, LocalOK, PhaseOK
<1>4. CASE Lands(s, w, t, v)
  <2>1. PICK r \in Rollout :
          /\ \/ s.pc = "persist" /\ r = s.r
             \/ s.pc = "retry" /\ r = s.fresh
          /\ v.state = r.state /\ v.stage = r.stage /\ v.pushed = r.pushed
    BY <1>4 DEF Lands
  <2>2. t.pc \in {"idle", "coverage", "cleanup"} /\ s.pc \in {"persist", "retry"}
    BY <1>4 DEF Lands
  <2>3. ASSUME r.state = "in_progress" PROVE s.op \in {"start", "advance"} /\ r.stage = s.r.stage
    <3>1. r.state = s.r.state
      BY <2>1 DEF LocalOK, RetryOK
    <3>2. s.op \in {"start", "advance"}
      BY <2>2, <2>3, <3>1 DEF LocalOK, PhaseOK, Reconciles, EngineRec, Ops
    <3> QED
      BY <2>1, <3>2 DEF LocalOK, RetryOK
  <2>4. r.state = "in_progress" => r.pushed = s.r.pushed /\ C[s.r.stage] \subseteq s.r.pushed
    BY <2>1, <2>3 DEF AppliedCopy
  <2>5. v.state \notin {"pending", "paused"}
    BY <1>4, LandedState
  <2> QED
    BY <2>1, <2>2, <2>3, <2>4, <2>5 DEF AppliedCopy, AppliedRow
<1>5. CASE Reloads(s, w, t, v)
  <2>1. CASE t.pc = "retry"
    <3>1. s.pc = "reload" /\ t.fresh = Reapply(s.op, s.r, w) /\ t.op = s.op /\ t.r = s.r /\ v = w
      BY <1>5, <2>1 DEF Reloads
    <3>2. s.op \in {"start", "advance"} => t.fresh.pushed = s.r.pushed
      BY <3>1 DEF Reapply, Rollout
    <3> QED
      BY <2>1, <3>1, <3>2 DEF AppliedCopy, AppliedRow
  <2>2. CASE t.pc # "retry"
    BY <1>5, <2>2 DEF Reloads, AppliedCopy, AppliedRow
  <2> QED
    BY <2>1, <2>2
<1> QED
  BY <1>1, <1>2, <1>3, <1>4, <1>5 DEF EngineMove

(* An engine's step is one of its moves, also when the process dies. *)
LEMMA EngineSteps ==
    ASSUME TypeOK, SnapshotInv, NEW e \in Engines, EngineStep(e) \/ Crash(e)
    PROVE  /\ EngineMove(eng[e], row, eng'[e], row')
           /\ \A x \in Engines \ {e} : eng'[x] = eng[x]
<1>1. CASE EngineStep(e)
  BY <1>1, EngineMoves
<1>2. CASE Crash(e)
  BY <1>2, Moves DEF Crash, Idle, Local, EndsPass, EngineMove
<1> QED
  BY <1>1, <1>2

LEMMA EngineNeverPauses ==
    ASSUME NEW s \in EngineRec, NEW t \in EngineRec, NEW w \in Rollout, NEW v \in Rollout,
           LocalOK(s, w), EngineMove(s, w, t, v), v.state = "paused"
    PROVE  w.state = "paused"
<1>1. CASE Lands(s, w, t, v)
  BY <1>1, LandedState
<1>2. CASE ChecksBlackout(s, w, t, v)
  BY <1>2 DEF ChecksBlackout
<1>3. CASE v = w
  BY <1>3
<1> QED
  BY <1>1, <1>2, <1>3 DEF EngineMove, EndsPass, Lists, Decides, Applies, Reloads, Finalizes

(* Engines give no commands, and operators never give one back. *)
LEMMA CommandsFall ==
    ASSUME TypeOK, [Next]_vars
    PROVE  /\ cmds' <= cmds
           /\ \A e \in Engines : EngineStep(e) \/ Crash(e) => cmds' = cmds
           /\ Pause \/ Resume \/ Abort \/ SetExcludeFromLearning => cmds' = cmds - 1
           /\ TimePasses => cmds' = cmds
           /\ (\E a \in Agents : ReconcileAgent(a) \/ ChangeGroup(a) \/ Relabel(a)) => cmds' = cmds
<1>1. \A e \in Engines : EngineStep(e) \/ Crash(e) => cmds' = cmds
  BY DEF EngineStep, Crash, ListRollouts, BlackoutBlocked, ClearBlackout,
     Start, CriteriaAbort, ConvergenceTimeout, Wait, Advance, Finish, ApplyStage,
     ApplyStageFails, Rollback, Persist, Reload, RetryPersist, CheckCoverage,
     PromoteTargetToGroupConfig, DeletePins
<1>2. Pause \/ Resume \/ Abort \/ SetExcludeFromLearning => cmds' = cmds - 1
  BY DEF Pause, Resume, Abort, SetExcludeFromLearning, Command
<1>3. /\ TimePasses => cmds' = cmds
      /\ (\E a \in Agents : ReconcileAgent(a) \/ ChangeGroup(a) \/ Relabel(a)) => cmds' = cmds
  BY DEF TimePasses, ReconcileAgent, ChangeGroup, Relabel
<1>4. cmds \in Int /\ (UNCHANGED vars => cmds' = cmds)
  BY BoundsAssumption DEF TypeOK, vars
<1>5. cmds' = cmds \/ cmds' = cmds - 1
  BY <1>1, <1>2, <1>3, <1>4 DEF Next
<1> QED
  BY <1>1, <1>2, <1>3, <1>4, <1>5

(* Only Pause pauses. *)
LEMMA HoldStep ==
    ASSUME TypeOK, TypeOK', SnapshotInv, HoldInv, [Next]_vars
    PROVE  HoldInv'
<1>t. /\ row \in Rollout /\ row' \in Rollout /\ RowStep(row, row')
      /\ cmds \in Int /\ cmds' \in Int /\ MaxCommands \in Int /\ cmds <= MaxCommands /\ cmds' <= cmds
  BY SnapshotStep, CommandsFall, BoundsAssumption DEF TypeOK
<1>1. CASE row.state = "paused"
  BY <1>1, <1>t DEF HoldInv
<1>2. CASE row.state # "paused" /\ row'.state = "paused"
  <2>1. ASSUME NEW e \in Engines, EngineStep(e) \/ Crash(e) PROVE FALSE
    <3>1. EngineMove(eng[e], row, eng'[e], row')
      BY <2>1, EngineSteps
    <3>2. eng[e] \in EngineRec /\ eng'[e] \in EngineRec /\ LocalOK(eng[e], row)
      BY DEF TypeOK, SnapshotInv
    <3> QED
      BY <3>1, <3>2, <1>2, <1>t, EngineNeverPauses
  <2>2. ASSUME TimePasses PROVE FALSE
    BY <2>2, <1>2, <1>t DEF TimePasses, Rollout
  <2>3. ASSUME \E a \in Agents : ReconcileAgent(a) \/ ChangeGroup(a) \/ Relabel(a) PROVE FALSE
    BY <2>3, <1>2 DEF ReconcileAgent, ChangeGroup, Relabel
  <2>4. ASSUME UNCHANGED vars PROVE FALSE
    BY <2>4, <1>2 DEF vars
  <2>5. cmds' = cmds - 1
    BY <2>1, <2>2, <2>3, <2>4, CommandsFall DEF Next
  <2> QED
    BY <2>5, <1>t DEF HoldInv
<1>3. CASE row'.state # "paused"
  BY <1>3 DEF HoldInv
<1> QED
  BY <1>1, <1>2, <1>3

LEMMA HoldHolds == Spec => []HoldInv
<1>1. Init => HoldInv
  BY DEF Init, HoldInv, NewRollout
<1>2. TypeOK /\ TypeOK' /\ SnapshotInv /\ HoldInv /\ [Next]_vars => HoldInv'
  BY HoldStep
<1> QED
  BY <1>1, <1>2, TypeCorrect, CopiesConsistent, PTL DEF Spec

(* applyStage writes every agent of the cohort unless a write fails. *)
LEMMA CohortDelivered ==
    ASSUME TypeOK, "write" \notin Faults, NEW e \in Engines, EngineStep(e) \/ Crash(e),
           eng[e].pc = "apply", eng'[e].pc = "persist"
    PROVE  /\ ApplyStage(e)
           /\ eng'[e].r.stage = eng[e].r.stage
           /\ eng'[e].r.pushed = eng[e].r.pushed \cup canaryAgentsForStage(eng[e].r.stage)
<1> DEFINE q == eng[e].r
           toPush == canaryAgentsForStage(q.stage) \ q.pushed
<1>1. ApplyStage(e)
  <2>1. ApplyStageFails(e) \/ Crash(e) => eng'[e].pc = "idle"
    BY Moves DEF ApplyStageFails, Crash, Idle, Local
  <2> QED
    BY <2>1 DEF EngineStep, At, ListRollouts, BlackoutBlocked, ClearBlackout, Start, CriteriaAbort,
       ConvergenceTimeout, Wait, Advance, Finish, Rollback, Persist, Reload, RetryPersist,
       CheckCoverage, PromoteTargetToGroupConfig, DeletePins, Processing
<1>2. PICK A \in SUBSET toPush :
        Written(toPush, A) /\ Goto(e, "persist", eng[e].op, [q EXCEPT !.pushed = @ \cup A])
  BY <1>1 DEF ApplyStage
<1>3. A = toPush
  BY <1>2 DEF Written, Fault
<1>4. eng'[e].r = [q EXCEPT !.pushed = @ \cup toPush]
  BY <1>2, <1>3, Moves, LocalFields
<1>5. q \in Rollout
  BY CopyType
<1>6. [q EXCEPT !.pushed = @ \cup toPush].pushed = q.pushed \cup toPush
      /\ [q EXCEPT !.pushed = @ \cup toPush].stage = q.stage
  BY <1>5 DEF Rollout
<1> QED
  BY <1>1, <1>4, <1>6

LEMMA AppliedStep ==
    ASSUME "churn" \notin Faults, "write" \notin Faults,
           TypeOK, TypeOK', SnapshotInv, HoldInv, AppliedInv, [Next]_vars
    PROVE  AppliedInv'
<1>1. PICK C : C = Cohorts
  OBVIOUS
<1>2. Cohorts' = C
  BY <1>1, FleetFixed
<1>t. /\ row \in Rollout /\ row' \in Rollout /\ RowStep(row, row')
      /\ \A x \in Engines : eng[x] \in EngineRec /\ eng'[x] \in EngineRec
      /\ \A x \in Engines : LocalOK(eng[x], row)
  BY SnapshotStep DEF TypeOK, SnapshotInv
<1>h. AppliedRow(row, C, cmds) /\ \A x \in Engines : AppliedCopy(eng[x], row, C)
  BY <1>1 DEF AppliedInv
<1>q. \A x \in Engines : eng'[x] = eng[x] => AppliedCopy(eng'[x], row', C)
  BY <1>t, <1>h, AppliedStale
<1> SUFFICES AppliedRow(row', C, cmds') /\ \A x \in Engines : AppliedCopy(eng'[x], row', C)
  BY <1>2 DEF AppliedInv
<1>3. ASSUME NEW e \in Engines, EngineStep(e) \/ Crash(e)
      PROVE  AppliedRow(row', C, cmds') /\ \A x \in Engines : AppliedCopy(eng'[x], row', C)
  <2>1. /\ EngineMove(eng[e], row, eng'[e], row')
        /\ \A x \in Engines \ {e} : eng'[x] = eng[x]
    BY <1>3, EngineSteps
  <2>2. eng[e].pc = "apply" /\ eng'[e].pc = "persist" => C[eng'[e].r.stage] \subseteq eng'[e].r.pushed
    <3> SUFFICES ASSUME eng[e].pc = "apply", eng'[e].pc = "persist"
                 PROVE  C[eng'[e].r.stage] \subseteq eng'[e].r.pushed
      OBVIOUS
    <3>1. /\ eng'[e].r.stage = eng[e].r.stage
          /\ eng'[e].r.pushed = eng[e].r.pushed \cup canaryAgentsForStage(eng[e].r.stage)
      BY <1>3, CohortDelivered
    <3>2. C[eng[e].r.stage] = canaryAgentsForStage(eng[e].r.stage)
      BY <1>1, CopyType DEF Cohorts, Rollout, LastStage
    <3> QED
      BY <3>1, <3>2
  <2>3. AppliedCopy(eng'[e], row', C) /\ AppliedRow(row', C, cmds)
    BY <1>t, <1>h, <2>1, <2>2, AppliedMove
  <2>4. cmds' = cmds
    BY <1>3, CommandsFall
  <2> QED
    BY <2>1, <2>3, <2>4, <1>q
<1>n. cmds \in Int /\ MaxCommands \in Int
  BY BoundsAssumption DEF TypeOK
<1>4. CASE Pause \/ Resume \/ Abort
  <2>1. eng' = eng /\ row'.stage = row.stage /\ row'.pushed = row.pushed /\ row'.state # "pending"
    BY <1>4, CommandOK
  <2>2. AppliedRow(row', C, cmds')
    <3>1. CASE Pause
      <4>1. row.state \in {"pending", "in_progress"} /\ row'.state = "paused"
        BY <3>1, <1>t DEF Pause, UpdateRollout, Rollout
      <4> QED
        BY <4>1, <2>1, <1>h DEF AppliedRow
    <3>2. CASE Resume
      <4>1. row.state = "paused" /\ row'.state = "in_progress"
        BY <3>2, <1>t DEF Resume, UpdateRollout, Rollout
      <4>2. cmds < MaxCommands /\ cmds' = cmds - 1
        BY <4>1, <3>2, CommandsFall DEF HoldInv
      <4>3. cmds' + 2 <= MaxCommands
        BY <4>2, <1>n
      <4> QED
        BY <4>1, <4>3, <2>1, <1>h DEF AppliedRow
    <3>3. CASE Abort
      <4>1. row'.state = "aborted"
        BY <3>3, <1>t DEF Abort, UpdateRollout, Rollout
      <4> QED
        BY <4>1 DEF AppliedRow
    <3> QED
      BY <1>4, <3>1, <3>2, <3>3
  <2> QED
    BY <2>1, <2>2, <1>q
<1>x. CASE SetExcludeFromLearning
  <2>1. /\ eng' = eng /\ row'.state = row.state /\ row'.stage = row.stage /\ row'.pushed = row.pushed
        /\ cmds' = cmds - 1
    BY <1>x, ExcludeOK, CommandsFall
  <2>2. cmds + 2 <= MaxCommands => cmds' + 2 <= MaxCommands
    BY <2>1, <1>n
  <2>3. AppliedRow(row', C, cmds')
    BY <2>1, <2>2, <1>h DEF AppliedRow
  <2> QED
    BY <2>1, <2>3, <1>q
<1>5. CASE TimePasses
  <2>1. SameRow(row, row')
    BY <1>5, <1>t DEF TimePasses, SameRow, Rollout
  <2>2. ASSUME NEW x \in Engines PROVE AppliedCopy(eng'[x], row', C)
    <3>1. /\ eng'[x].pc = eng[x].pc /\ eng'[x].op = eng[x].op
          /\ eng'[x].r = [eng[x].r EXCEPT !.age = Older(@)]
          /\ eng'[x].fresh = [eng[x].fresh EXCEPT !.age = Older(@)]
      BY <1>5, LocalFields DEF TimePasses
    <3>2. /\ eng'[x].r.version = eng[x].r.version /\ eng'[x].r.pushed = eng[x].r.pushed
          /\ eng'[x].r.stage = eng[x].r.stage /\ eng'[x].fresh.pushed = eng[x].fresh.pushed
      BY <3>1, CopyType DEF Rollout
    <3> QED
      BY <3>1, <3>2, <2>1, <1>h DEF AppliedCopy, SameRow
  <2>3. cmds' = cmds
    BY <1>5, CommandsFall
  <2> QED
    BY <2>1, <2>2, <2>3, <1>h DEF AppliedRow, SameRow
<1>6. CASE \/ \E a \in Agents : ReconcileAgent(a) \/ ChangeGroup(a) \/ Relabel(a)
           \/ UNCHANGED vars
  <2>1. row' = row /\ eng' = eng /\ cmds' = cmds
    BY <1>6 DEF ReconcileAgent, ChangeGroup, Relabel, vars
  <2> QED
    BY <2>1, <1>h
<1> QED
  BY <1>3, <1>4, <1>x, <1>5, <1>6 DEF Next

(* The stage a rollout in progress is at has been delivered to its whole   *)
(* cohort or, for a rollout that was paused before it started and then     *)
(* resumed, nothing has been delivered at all: for any number of engines   *)
(* that race, crash or lose writes of the row and whatever operators do,   *)
(* as long as the fleet stays as it is and config rows can be written.     *)
THEOREM StageApplied ==
    ASSUME "churn" \notin Faults, "write" \notin Faults
    PROVE  Spec => []StageAllOrNothing
<1>1. Init => AppliedInv
  BY IdleType DEF Init, AppliedInv, AppliedRow, AppliedCopy, Idle, Local, NewRollout
<1>2. TypeOK /\ TypeOK' /\ SnapshotInv /\ HoldInv /\ AppliedInv /\ [Next]_vars => AppliedInv'
  BY AppliedStep
<1>3. TypeOK /\ AppliedInv => StageAllOrNothing
  BY DEF TypeOK, Rollout, AppliedInv, AppliedRow, Cohorts, LastStage, StageAllOrNothing,
         MayHaveResumed
<1> QED
  BY <1>1, <1>2, <1>3, TypeCorrect, CopiesConsistent, HoldHolds, PTL DEF Spec
-----------------------------------------------------------------------------
(* A stage is left only after its dwell. *)

(* What an engine knows of the age of the stage, n being the commands      *)
(* left.  A copy that is current has the age of the stored row, and an     *)
(* advance that is still to be written for the first time is of a row that *)
(* has dwelt.  Once the copy is stale the same holds as long as the stage  *)
(* has not been resumed.                                                   *)
DwellCopy(s, w, n) ==
    /\ s.pc = "listed" /\ s.r.state = "in_progress" =>
          /\ w.state # "pending"
          /\ s.r.version = w.version => s.r.age = w.age
          /\ w.state = "in_progress" /\ w.stage = s.r.stage =>
                s.r.age = w.age \/ n + 2 <= MaxCommands
    /\ s.op = "advance" =>
          /\ s.pc # "idle" /\ w.state # "pending"
          /\ s.pc \in {"apply", "persist"} /\ s.r.version = w.version => DwellElapsed(w)
          /\ w.state = "in_progress" /\ w.stage = s.r.stage - 1 =>
                DwellElapsed(w) \/ n + 2 <= MaxCommands

DwellInv == \A e \in Engines : DwellCopy(eng[e], row, cmds)

(* A row that stays in a stage keeps the clock of the stage. *)
ClockKept(w, v) ==
    v.state = "in_progress" /\ w.state # "pending" /\ v.stage = w.stage =>
        w.state = "in_progress" /\ v.age = w.age

(* A row that keeps its version keeps its clock. *)
VersionKept(w, v) ==
    v.version = w.version + 1 \/ (v.version = w.version /\ v.age = w.age)

(* The engine that moves keeps the clock and learns no wrong age. *)
LEMMA DwellMove ==
    ASSUME NEW s \in EngineRec, NEW t \in EngineRec, NEW w \in Rollout, NEW v \in Rollout,
           NEW n, LocalOK(s, w), DwellCopy(s, w, n), EngineMove(s, w, t, v)
    PROVE  /\ DwellCopy(t, v, n) /\ ClockKept(w, v) /\ VersionKept(w, v)
           /\ v.stage # w.stage =>
                 \/ DwellElapsed(w)
                 \/ s.pc = "retry" /\ s.op = "advance" /\ n + 2 <= MaxCommands
<1>t. /\ s.r.stage \in Int /\ w.stage \in Int /\ w.version \in Nat /\ s.r.version \in Nat
      /\ s.r \in Rollout /\ s.fresh \in Rollout /\ s.op \in Ops
  BY StageNumbers DEF EngineRec, Rollout
<1>1. CASE EndsPass(w, t, v) \/ Lists(s, w, t, v) \/ Finalizes(s, w, t, v)
  <2>1. /\ v = w /\ (t.pc = "listed" => t.r = w)
        /\ t.op = "advance" => t.pc # "idle" /\ s.op = "advance" /\ t.r = s.r
    BY <1>1 DEF EndsPass, Lists, Finalizes
  <2>2. ClockKept(w, v) /\ VersionKept(w, v) /\ v.stage = w.stage
    BY <2>1 DEF ClockKept, VersionKept
  <2>3. t.op # "advance" => DwellCopy(t, v, n)
    BY <2>1 DEF DwellCopy
  <2>4. ASSUME t.op = "advance" PROVE DwellCopy(t, v, n)
    BY <2>1, <2>4, <1>1 DEF DwellCopy, EndsPass, Lists, Finalizes
  <2> QED
    BY <2>2, <2>3, <2>4
<1>2. CASE ChecksBlackout(s, w, t, v)
  <2>1. PICK p \in Rollout :
          /\ p.state = s.r.state /\ p.stage = s.r.stage /\ p.age = s.r.age
          /\ t.pc = "listed" => t.r = p
          /\ \/ v = w /\ p.version = s.r.version
             \/ s.r.version = w.version /\ p.version = w.version + 1 /\ v = p
    BY <1>2 DEF ChecksBlackout
  <2>2. s.pc = "listed" /\ t.pc \in {"idle", "listed"} /\ t.op = "none" /\ s.op = "none"
    BY <1>2 DEF ChecksBlackout, LocalOK, PhaseOK
  <2>3. s.r.version = w.version => w.state = s.r.state /\ w.stage = s.r.stage
    BY <2>2 DEF LocalOK, CopyOK, LoadedState, LoadedStage
  <2> QED
    BY <2>1, <2>2, <2>3 DEF DwellCopy, ClockKept, VersionKept
<1>3. CASE Decides(s, w, t, v)
  <2>1. v = w /\ t.pc \in {"apply", "persist"} /\ s.pc = "listed"
    BY <1>3 DEF Decides
  <2>2. t.op = "advance" => /\ s.r.state = "in_progress" /\ DwellElapsed(s.r)
                            /\ t.r.stage = s.r.stage + 1 /\ t.r.version = s.r.version
    BY <1>3 DEF Decides
  <2> QED
    BY <2>1, <2>2, <1>t DEF DwellCopy, ClockKept, VersionKept, DwellElapsed
<1>4. CASE Applies(s, w, t, v)
  BY <1>4 DEF Applies, DwellCopy, ClockKept, VersionKept
<1>5. CASE Lands(s, w, t, v)
  <2>1. PICK r \in Rollout :
          /\ \/ s.pc = "persist" /\ r = s.r
             \/ s.pc = "retry" /\ r = s.fresh
          /\ r.version = w.version /\ v.version = w.version + 1
          /\ v.state = r.state /\ v.stage = r.stage
    BY <1>5 DEF Lands
  <2>2. t.pc # "listed" /\ t.op # "advance" /\ s.pc \in {"persist", "retry"}
    BY <1>5 DEF Lands
  <2>3. r.state = s.r.state /\ (s.op \in {"start", "advance"} => r.stage = s.r.stage)
    BY <2>1 DEF LocalOK, RetryOK
  <2>4. s.op = "start" => w.state = "pending" /\ w.stage = r.stage
    <3>1. CASE s.pc = "persist"
      BY <2>1, <3>1 DEF LocalOK, CopyOK, LoadedState, LoadedStage
    <3>2. CASE s.pc = "retry"
      BY <2>1, <3>2 DEF LocalOK, RetryOK, StillApplies
    <3> QED
      BY <2>2, <3>1, <3>2
  <2>5. s.op = "advance" => w.state = "in_progress" /\ w.stage = s.r.stage - 1
    <3>1. CASE s.pc = "persist"
      BY <2>1, <3>1 DEF LocalOK, CopyOK, LoadedState, LoadedStage
    <3>2. CASE s.pc = "retry"
      BY <2>1, <3>2 DEF LocalOK, RetryOK, StillApplies
    <3> QED
      BY <2>2, <3>1, <3>2
  <2>6. s.op \notin {"start", "advance"} => r.state # "in_progress" /\ r.stage = w.stage
    <3>1. s.op \notin {"start", "advance"} => r.state # "in_progress"
      BY <2>2, <2>3, <1>t DEF LocalOK, PhaseOK, Reconciles, Ops
    <3>2. CASE s.pc = "persist"
      BY <2>1, <3>1, <3>2 DEF LocalOK, CopyOK, LoadedStage
    <3>3. CASE s.pc = "retry"
      BY <2>1, <3>1, <3>3 DEF LocalOK, RetryOK
    <3> QED
      BY <2>2, <3>1, <3>2, <3>3
  <2>7. s.op = "advance" =>
          /\ v.stage # w.stage
          /\ DwellElapsed(w) \/ (s.pc = "retry" /\ n + 2 <= MaxCommands)
    BY <2>5, <2>3, <2>2, <2>1, <1>t DEF DwellCopy
  <2> QED
    BY <2>1, <2>2, <2>4, <2>6, <2>7 DEF DwellCopy, ClockKept, VersionKept
<1>6. CASE Reloads(s, w, t, v)
  BY <1>6 DEF Reloads, DwellCopy, ClockKept, VersionKept
<1> QED
  BY <1>1, <1>2, <1>3, <1>4, <1>5, <1>6 DEF EngineMove

(* Another engine's knowledge survives a write that keeps the clock. *)
LEMMA DwellStale ==
    ASSUME NEW s \in EngineRec, NEW w \in Rollout, NEW v \in Rollout,
           NEW n, RowStep(w, v), LocalOK(s, w), DwellCopy(s, w, n),
           ClockKept(w, v), VersionKept(w, v)
    PROVE  DwellCopy(s, v, n)
<1>1. s.r.stage \in Int /\ w.stage \in Int /\ v.stage \in Int /\ w.stage <= v.stage
  BY StageNumbers, RowStepFacts DEF EngineRec, Rollout
<1>2. v.state = "pending" => w.state = "pending"
  BY RowStepFacts
<1>3. s.pc # "idle" => LoadedStage(s) <= w.stage
  BY DEF LocalOK, ProgressOK
<1>4. s.op = "advance" => s.pc # "idle" /\ LoadedStage(s) = s.r.stage - 1
  BY DEF LoadedStage, DwellCopy, LocalOK, PhaseOK
<1>5. s.pc = "listed" => LoadedStage(s) = s.r.stage
  BY DEF LoadedStage, LocalOK, PhaseOK
<1>6. ASSUME s.pc = "listed", s.r.state = "in_progress", v.state = "in_progress", v.stage = s.r.stage
      PROVE  s.r.age = v.age \/ n + 2 <= MaxCommands
  BY <1>1, <1>3, <1>5, <1>6 DEF DwellCopy, ClockKept
<1>7. ASSUME s.op = "advance", v.state = "in_progress", v.stage = s.r.stage - 1
      PROVE  DwellElapsed(v) \/ n + 2 <= MaxCommands
  BY <1>1, <1>3, <1>4, <1>7 DEF DwellCopy, ClockKept, DwellElapsed
<1>8. s.pc \in {"listed", "apply", "persist"} /\ s.r.version = v.version =>
        s.r.version = w.version /\ v.age = w.age
  <2>1. s.pc \in {"listed", "apply", "persist"} => s.r.version <= w.version
    BY DEF LocalOK, CopyOK
  <2>2. s.r.version \in Nat /\ w.version \in Nat /\ v.version \in Nat
    BY DEF EngineRec, Rollout
  <2> QED
    BY <2>1, <2>2 DEF VersionKept
<1> QED
  BY <1>2, <1>6, <1>7, <1>8 DEF DwellCopy, DwellElapsed

(* The same for a write that starts the clock again, or stops it: two      *)
(* commands have been given by then, or the rollout is not in progress.    *)
LEMMA DwellRestart ==
    ASSUME NEW s \in EngineRec, NEW w \in Rollout, NEW v \in Rollout, NEW n, NEW m,
           RowStep(w, v), LocalOK(s, w), DwellCopy(s, w, n), v.version = w.version + 1,
           v.state # "in_progress" \/ m + 2 <= MaxCommands
    PROVE  DwellCopy(s, v, m)
<1>1. s.pc \in {"listed", "apply", "persist"} => s.r.version # v.version
  <2>1. s.pc \in {"listed", "apply", "persist"} => s.r.version <= w.version
    BY DEF LocalOK, CopyOK
  <2>2. s.r.version \in Nat /\ w.version \in Nat /\ v.version \in Nat
    BY DEF EngineRec, Rollout
  <2> QED
    BY <2>1, <2>2
<1>2. v.state = "pending" => w.state = "pending"
  BY RowStepFacts
<1> QED
  BY <1>1, <1>2 DEF DwellCopy

LEMMA DwellStep ==
    ASSUME TypeOK, TypeOK', SnapshotInv, HoldInv, DwellInv, [Next]_vars
    PROVE  /\ DwellInv'
           /\ row'.stage # row.stage =>
                 \/ DwellElapsed(row)
                 \/ MayHaveResumed /\ \E e \in Engines : At(e, "retry") /\ eng[e].op = "advance"
<1> DEFINE Left == row'.stage # row.stage =>
                     \/ DwellElapsed(row)
                     \/ MayHaveResumed /\ \E e \in Engines : At(e, "retry") /\ eng[e].op = "advance"
<1>t. /\ row \in Rollout /\ row' \in Rollout /\ RowStep(row, row')
      /\ \A x \in Engines : eng[x] \in EngineRec /\ eng'[x] \in EngineRec
      /\ \A x \in Engines : LocalOK(eng[x], row)
  BY SnapshotStep DEF TypeOK, SnapshotInv
<1>h. \A x \in Engines : DwellCopy(eng[x], row, cmds)
  BY DEF DwellInv
<1>n. cmds \in Int /\ MaxCommands \in Int
  BY BoundsAssumption DEF TypeOK
<1>q. ClockKept(row, row') /\ VersionKept(row, row') =>
        \A x \in Engines : eng'[x] = eng[x] => DwellCopy(eng'[x], row', cmds)
  BY <1>t, <1>h, DwellStale
<1>3. ASSUME NEW e \in Engines, EngineStep(e) \/ Crash(e) PROVE DwellInv' /\ Left
  <2>1. /\ EngineMove(eng[e], row, eng'[e], row')
        /\ \A x \in Engines \ {e} : eng'[x] = eng[x]
    BY <1>3, EngineSteps
  <2>2. /\ DwellCopy(eng'[e], row', cmds) /\ ClockKept(row, row') /\ VersionKept(row, row')
        /\ row'.stage # row.stage =>
              \/ DwellElapsed(row)
              \/ eng[e].pc = "retry" /\ eng[e].op = "advance" /\ cmds + 2 <= MaxCommands
    BY <1>t, <1>h, <2>1, DwellMove
  <2>3. cmds' = cmds
    BY <1>3, CommandsFall
  <2> QED
    BY <2>1, <2>2, <2>3, <1>q DEF DwellInv, MayHaveResumed, At
<1>4. CASE Pause \/ Resume \/ Abort
  <2>1. eng' = eng /\ row'.stage = row.stage /\ row'.version = row.version + 1 /\ cmds' = cmds - 1
    BY <1>4, <1>t, CommandOK, CommandsFall DEF Pause, Resume, Abort, UpdateRollout, Rollout
  <2>2. row'.state # "in_progress" \/ cmds' + 2 <= MaxCommands
    <3>1. Resume => row.state = "paused"
      BY DEF Resume
    <3>2. ~Resume => row'.state # "in_progress"
      BY <1>4, <1>t DEF Pause, Abort, UpdateRollout, Rollout
    <3> QED
      BY <3>1, <3>2, <2>1, <1>n DEF HoldInv
  <2>3. \A x \in Engines : DwellCopy(eng'[x], row', cmds')
    BY <1>t, <1>h, <2>1, <2>2, DwellRestart
  <2> QED
    BY <2>1, <2>3 DEF DwellInv
<1>x. CASE SetExcludeFromLearning
  <2>1. /\ eng' = eng /\ row'.state = row.state /\ row'.stage = row.stage /\ row'.age = row.age
        /\ row'.version = row.version + 1 /\ cmds' = cmds - 1
    BY <1>x, ExcludeOK, CommandsFall
  <2>2. \A x \in Engines : DwellCopy(eng'[x], row', cmds)
    BY <2>1, <1>q DEF ClockKept, VersionKept
  <2>3. cmds + 2 <= MaxCommands => cmds' + 2 <= MaxCommands
    BY <2>1, <1>n
  <2> QED
    BY <2>1, <2>2, <2>3 DEF DwellInv, DwellCopy
<1>5. CASE TimePasses
  <2>1. SameRow(row, row') /\ row'.age = Older(row.age)
    BY <1>5, <1>t DEF TimePasses, SameRow, Rollout
  <2>2. cmds' = cmds
    BY <1>5, CommandsFall
  <2>3. ASSUME NEW x \in Engines PROVE DwellCopy(eng'[x], row', cmds')
    <3>1. /\ eng'[x].pc = eng[x].pc /\ eng'[x].op = eng[x].op
          /\ eng'[x].r = [eng[x].r EXCEPT !.age = Older(@)]
      BY <1>5, LocalFields DEF TimePasses
    <3>2. /\ eng'[x].r.age = Older(eng[x].r.age) /\ eng'[x].r.state = eng[x].r.state
          /\ eng'[x].r.stage = eng[x].r.stage /\ eng'[x].r.version = eng[x].r.version
      BY <3>1, CopyType DEF Rollout
    <3>3. DwellElapsed(row) => DwellElapsed(row')
      BY <2>1 DEF DwellElapsed, Older
    <3> QED
      BY <3>1, <3>2, <3>3, <2>1, <2>2, <1>h DEF DwellCopy, SameRow
  <2> QED
    BY <2>1, <2>3 DEF DwellInv, SameRow
<1>6. CASE \/ \E a \in Agents : ReconcileAgent(a) \/ ChangeGroup(a) \/ Relabel(a)
           \/ UNCHANGED vars
  <2>1. row' = row /\ eng' = eng /\ cmds' = cmds
    BY <1>6 DEF ReconcileAgent, ChangeGroup, Relabel, vars
  <2> QED
    BY <2>1, <1>h DEF DwellInv
<1> QED
  BY <1>3, <1>4, <1>x, <1>5, <1>6 DEF Next

(* No stage is left before the dwell of its latest start or Resume has     *)
(* elapsed, for any number of engines, any faults and whatever operators   *)
(* do, with the one exception of the retry of an advance that was decided  *)
(* before the rollout was paused and resumed.                              *)
THEOREM DwellIsKept == Spec => DwellRestarted
<1>1. Init => DwellInv
  BY DEF Init, DwellInv, DwellCopy, Idle, Local
<1>2. TypeOK /\ TypeOK' /\ SnapshotInv /\ HoldInv /\ DwellInv /\ [Next]_vars => DwellInv'
  BY DwellStep
<1>3. TypeOK /\ TypeOK' /\ SnapshotInv /\ HoldInv /\ DwellInv /\ [Next]_vars
        => [row'.stage # row.stage =>
              \/ row.age # "fresh"
              \/ MayHaveResumed /\ \E e \in Engines : At(e, "retry") /\ eng[e].op = "advance"]_vars
  BY DwellStep DEF DwellElapsed
<1> QED
  BY <1>1, <1>2, <1>3, TypeCorrect, CopiesConsistent, HoldHolds, PTL DEF Spec, DwellRestarted
-----------------------------------------------------------------------------
(* The answer of the convergence gate does not go stale. *)

Gates == [k \in 0..LastStage |-> stageConverged(k)]

(* The rollout can still move on. *)
Alive(w) == w.state \in {"pending", "in_progress", "paused"}

(* An agent that runs the target is pinned to it. *)
TargetPinned == \A a \in Agents : effective[a] = "target" => pin[a] = "target"

(* An engine that carries out an advance or a success has found the gate   *)
(* of the stage open, and an engine that removes pins does so for a        *)
(* rollout that is over.                                                   *)
GateCopy(s, w, G) ==
    /\ s.pc = "cleanup" => ~Alive(w)
    /\ s.op = "finish" => s.pc \in {"persist", "coverage", "promote", "cleanup"}
    /\ s.op = "advance" => s.r.stage >= 1
    /\ Alive(w) /\ s.op = "advance" => G[s.r.stage - 1]
    /\ Alive(w) /\ s.op = "finish" => G[s.r.stage]

GateInv ==
    /\ Alive(row) => TargetPinned
    /\ \A e \in Engines : GateCopy(eng[e], row, Gates)

(* A row that is over stays over. *)
LEMMA AliveBefore ==
    ASSUME NEW w \in Rollout, NEW v \in Rollout, RowStep(w, v), Alive(v) PROVE Alive(w)
BY RowStepFacts DEF Alive, Rollout, States

(* An agent on the target stays on it while the rollout can move on.       *)
LEMMA TargetStays ==
    ASSUME "write" \notin Faults, TypeOK, TypeOK', SnapshotInv, PromotedOnlyIfSucceeded, GateInv,
           [Next]_vars, Alive(row')
    PROVE  /\ TargetPinned'
           /\ \A a \in Agents : effective[a] = "target" => effective'[a] = "target"
<1>1. Alive(row) /\ TargetPinned /\ groupConfig # "target"
  BY SnapshotStep, AliveBefore DEF TypeOK, GateInv, PromotedOnlyIfSucceeded, Alive
<1>2. CASE UNCHANGED <<pin, effective>>
  BY <1>1, <1>2 DEF TargetPinned
<1>3. ASSUME NEW e \in Engines, ApplyStage(e)
      PROVE  /\ TargetPinned'
             /\ \A a \in Agents : effective[a] = "target" => effective'[a] = "target"
  <2> DEFINE toPush == canaryAgentsForStage(eng[e].r.stage) \ eng[e].r.pushed
  <2>1. PICK A \in SUBSET toPush, B \in SUBSET toPush : Written(toPush, A) /\ Deliver(A, B, "target")
    BY <1>3 DEF ApplyStage
  <2>2. B \subseteq A
    BY <2>1 DEF Written, Fault
  <2> QED
    BY <1>1, <2>1, <2>2 DEF Deliver, TargetPinned
<1>4. ASSUME NEW e \in Engines, Rollback(e) PROVE FALSE
  <2>1. eng[e].pc = "listed" /\ eng[e].r.state = "aborted"
    BY <1>4 DEF Rollback, Processing, At
  <2> QED
    BY <2>1, <1>1 DEF SnapshotInv, LocalOK, ProgressOK, Alive
<1>5. ASSUME NEW e \in Engines, DeletePins(e) PROVE FALSE
  BY <1>5, <1>1 DEF DeletePins, At, GateInv, GateCopy
<1>6. ASSUME NEW a \in Agents, ReconcileAgent(a)
      PROVE  /\ TargetPinned'
             /\ \A x \in Agents : effective[x] = "target" => effective'[x] = "target"
  <2>1. effective[a] = "target" => resolveStoredConfig(a) = "target"
    BY <1>1, <1>6 DEF TargetPinned, resolveStoredConfig
  <2>2. resolveStoredConfig(a) = "target" => pin[a] = "target"
    BY <1>1 DEF resolveStoredConfig
  <2> QED
    BY <1>1, <1>6, <2>1, <2>2 DEF ReconcileAgent, TargetPinned, TypeOK
<1>7. ASSUME NEW e \in Engines, EngineStep(e), ~ApplyStage(e), ~Rollback(e), ~DeletePins(e)
      PROVE  UNCHANGED <<pin, effective>>
  BY <1>7 DEF EngineStep, ListRollouts, BlackoutBlocked, ClearBlackout, Start, CriteriaAbort,
     ConvergenceTimeout, Wait, Advance, Finish, ApplyStageFails, Persist, Reload, RetryPersist,
     CheckCoverage, PromoteTargetToGroupConfig, fleet
<1>8. CASE \/ \E e \in Engines : Crash(e)
           \/ Pause \/ Resume \/ Abort \/ SetExcludeFromLearning \/ TimePasses
           \/ \E a \in Agents : ChangeGroup(a) \/ Relabel(a)
           \/ UNCHANGED vars
  <2>1. UNCHANGED <<pin, effective>>
    BY <1>8 DEF Crash, Pause, Resume, Abort, SetExcludeFromLearning, Command, TimePasses,
       ChangeGroup, Relabel, fleet, vars
  <2> QED
    BY <2>1, <1>2
<1> QED
  BY <1>2, <1>3, <1>4, <1>5, <1>6, <1>7, <1>8 DEF Next

(* So a gate that is open stays open.                                      *)
LEMMA GatesStay ==
    ASSUME "churn" \notin Faults, TypeOK, [Next]_vars,
           \A a \in Agents : effective[a] = "target" => effective'[a] = "target",
           NEW k \in 0..LastStage, Gates[k]
    PROVE  Gates'[k]
<1> DEFINE C == canaryAgentsForStage(k)
           S == {a \in C : effective[a] = "target"}
           T == {a \in C : effective'[a] = "target"}
           n == convergenceRequired(Cardinality(C), StageAt(k).convergence)
<1>1. stageConverged(k) /\ Gates'[k] = stageConverged(k)'
  BY DEF Gates, LastStage
<1>2. Cohorts' = Cohorts
  BY FleetFixed
<1>3. canaryAgentsForStage(k)' = C
  BY <1>2 DEF Cohorts, LastStage
<1>4. C \subseteq Agents
  BY CanaryInGroup
<1>5. IsFiniteSet(C)
  BY <1>4, AgentsAssumption, FS_Subset
<1>6. S \subseteq T /\ T \subseteq C
  BY <1>4
<1>7. IsFiniteSet(T) /\ IsFiniteSet(S)
  BY <1>5, <1>6, FS_Subset
<1>8. Cardinality(S) <= Cardinality(T) /\ Cardinality(S) \in Nat /\ Cardinality(T) \in Nat
  BY <1>6, <1>7, FS_Subset, FS_CardinalityType
<1>9. n \in Nat
  <2>1. Cardinality(C) \in Nat
    BY <1>5, FS_CardinalityType
  <2>2. StageAt(k).convergence \in 0..100
    <3>1. k + 1 \in 1..Len(Stages)
      BY StageNumbers DEF LastStage
    <3>2. Stages[k + 1] \in StageRec
      BY <3>1, StagesAssumption
    <3> QED
      BY <3>2 DEF StageAt, StageRec
  <2>3. Cardinality(C) * StageAt(k).convergence + 99 \in Nat
    BY <2>1, <2>2
  <2>4. (Cardinality(C) * StageAt(k).convergence + 99) \div 100 \in Nat
    BY <2>3
  <2> QED
    BY <2>1, <2>4 DEF convergenceRequired, CeilPercent
<1>10. Cardinality(S) >= n
  BY <1>1 DEF stageConverged
<1>11. stageConverged(k)' = (Cardinality(T) >= n)
  BY <1>3 DEF stageConverged, convergenceRequired, CeilPercent, StageAt
<1>12. Cardinality(T) >= n
  BY <1>8, <1>9, <1>10
<1> QED
  BY <1>1, <1>11, <1>12, Zenon

(* The engine advances or finishes through an open gate only.              *)
LEMMA GatePassed ==
    ASSUME TypeOK, SnapshotInv, NEW e \in Engines, EngineStep(e) \/ Crash(e), eng[e].pc = "listed",
           eng'[e].op \in {"advance", "finish"}
    PROVE  stageConverged(eng[e].r.stage)
<1>1. CASE Advance(e) \/ Finish(e)
  BY <1>1 DEF Advance, Finish, GateOpen
<1>2. ASSUME NEW pc, NEW op, NEW r, Goto(e, pc, op, r) PROVE eng'[e].op = op
  BY <1>2, Moves, LocalFields
<1>3. Return(e) => eng'[e].op = "none"
  BY Moves DEF Idle, Local
<1>4. CASE BlackoutBlocked(e) \/ Wait(e) \/ Crash(e)
  BY <1>3, <1>4 DEF BlackoutBlocked, Wait, Crash
<1>5. CASE ClearBlackout(e) \/ Start(e) \/ CriteriaAbort(e) \/ ConvergenceTimeout(e) \/ Rollback(e)
  BY <1>2, <1>5 DEF ClearBlackout, Start, CriteriaAbort, ConvergenceTimeout, TriggerAbort, Rollback
<1> QED
  BY <1>1, <1>4, <1>5 DEF EngineStep, ListRollouts, ApplyStage, ApplyStageFails, Persist, Reload,
     RetryPersist, CheckCoverage, PromoteTargetToGroupConfig, DeletePins, At

(* What an engine knows after its move, H being the gates after it.        *)
LEMMA GateMove ==
    ASSUME NEW s \in EngineRec, NEW t \in EngineRec, NEW w \in Rollout, NEW v \in Rollout,
           NEW G, NEW H, LocalOK(s, w), GateCopy(s, w, G), EngineMove(s, w, t, v), RowStep(w, v),
           Alive(v) => \A k \in 0..LastStage : G[k] => H[k],
           s.pc = "listed" /\ t.op \in {"advance", "finish"} => G[s.r.stage]
    PROVE  GateCopy(t, v, H)
<1>t. /\ s.r.stage \in 0..LastStage /\ t.r.stage \in 0..LastStage /\ s.r.stage \in Int
      /\ t.r.stage \in Int /\ LastStage \in Int
  BY StageNumbers DEF EngineRec, Rollout, LastStage
<1>a. Alive(v) => Alive(w)
  BY AliveBefore
<1>1. CASE EndsPass(w, t, v) \/ Lists(s, w, t, v) \/ ChecksBlackout(s, w, t, v)
  BY <1>1 DEF EndsPass, Lists, ChecksBlackout, GateCopy
<1>2. CASE Decides(s, w, t, v)
  <2>1. t.pc \in {"apply", "persist"} /\ (t.op = "finish" => t.pc = "persist") /\ s.pc = "listed"
    BY <1>2 DEF Decides
  <2>2. /\ t.op = "advance" => t.r.stage = s.r.stage + 1
        /\ t.op = "finish" => t.r.stage = s.r.stage
    BY <1>2 DEF Decides
  <2>3. t.op = "advance" => t.r.stage - 1 = s.r.stage
    BY <2>2, <1>t
  <2> QED
    BY <2>1, <2>2, <2>3, <1>t DEF GateCopy
<1>3. CASE Applies(s, w, t, v) \/ Reloads(s, w, t, v)
  <2>1. /\ t.op = s.op /\ t.r.stage = s.r.stage /\ v = w /\ t.pc \in {"persist", "reload", "retry"}
    BY <1>3 DEF Applies, Reloads
  <2>2. s.op = "finish" => t.pc = "persist"
    BY <1>3 DEF Applies, Reloads, LocalOK, PhaseOK, Reconciles
  <2>3. s.op = "advance" => s.r.stage - 1 \in 0..LastStage
    BY <1>t DEF GateCopy
  <2> QED
    BY <2>1, <2>2, <2>3, <1>t DEF GateCopy
<1>4. CASE Lands(s, w, t, v)
  <2>1. PICK r \in Rollout :
          /\ \/ s.pc = "persist" /\ r = s.r
             \/ s.pc = "retry" /\ r = s.fresh
          /\ v.state = r.state
    BY <1>4 DEF Lands
  <2>2. r.state = s.r.state
    BY <2>1 DEF LocalOK, RetryOK
  <2>3. s.op \in {"finish", "rollback"} => ~Alive(v)
    BY <2>1, <2>2 DEF LocalOK, PhaseOK, Alive
  <2>4. /\ t.pc \in {"coverage", "cleanup"} => s.op \in {"finish", "rollback"}
        /\ t.op \in {"none", "finish", "rollback"}
        /\ t.op = "finish" => t.pc = "coverage" /\ s.op = "finish"
    BY <1>4 DEF Lands
  <2> QED
    BY <2>3, <2>4 DEF GateCopy
<1>5. CASE Finalizes(s, w, t, v)
  <2>1. /\ v = w /\ t.op = s.op /\ t.r = s.r /\ t.pc \in {"promote", "cleanup"}
        /\ s.op # "rollback" => s.pc \in {"coverage", "promote"}
    BY <1>5 DEF Finalizes
  <2>2. ~Alive(w)
    BY <2>1 DEF LocalOK, PhaseOK, ProgressOK, Alive
  <2> QED
    BY <2>1, <2>2 DEF GateCopy
<1> QED
  BY <1>1, <1>2, <1>3, <1>4, <1>5 DEF EngineMove

(* An engine that does not move: its gates stay open, or the rollout is    *)
(* over.                                                                   *)
LEMMA GateStale ==
    ASSUME NEW s \in EngineRec, NEW w \in Rollout, NEW v \in Rollout, NEW G, NEW H,
           GateCopy(s, w, G), RowStep(w, v),
           Alive(v) => \A k \in 0..LastStage : G[k] => H[k]
    PROVE  GateCopy(s, v, H)
<1>1. Alive(v) => Alive(w)
  BY AliveBefore
<1>2. s.r.stage \in 0..LastStage /\ (s.op = "advance" => s.r.stage - 1 \in 0..LastStage)
  BY StageNumbers DEF EngineRec, Rollout, LastStage, GateCopy
<1> QED
  BY <1>1, <1>2 DEF GateCopy

(* What a write that moves the stage, or records a success, says of its    *)
(* engine.                                                                 *)
LEMMA Advancing ==
    ASSUME NEW s \in EngineRec, NEW t \in EngineRec, NEW w \in Rollout, NEW v \in Rollout,
           LocalOK(s, w), EngineMove(s, w, t, v),
           v.stage # w.stage \/ (v.state = "succeeded" /\ w.state # "succeeded")
    PROVE  /\ Alive(w)
           /\ \/ s.op = "advance" /\ w.stage = s.r.stage - 1
              \/ s.op = "finish" /\ w.stage = s.r.stage
<1>t. s.r \in Rollout /\ s.op \in Ops /\ s.r.stage \in Int /\ w.stage \in Int
  BY StageNumbers DEF EngineRec, Rollout
<1>1. ASSUME ChecksBlackout(s, w, t, v), v # w PROVE v.stage = w.stage /\ v.state = w.state
  BY <1>1 DEF ChecksBlackout, LocalOK, PhaseOK, CopyOK, LoadedState, LoadedStage
<1>2. Lands(s, w, t, v)
  BY <1>1 DEF EngineMove, EndsPass, Lists, Decides, Applies, Reloads, Finalizes
<1>3. PICK r \in Rollout :
        /\ \/ s.pc = "persist" /\ r = s.r
           \/ s.pc = "retry" /\ r = s.fresh
        /\ r.version = w.version /\ v.state = r.state /\ v.stage = r.stage
  BY <1>2 DEF Lands
<1>4. r.state = s.r.state
  BY <1>3 DEF LocalOK, RetryOK
<1>5. CASE s.pc = "persist"
  <2>1. w.state = LoadedState(s) /\ w.stage = LoadedStage(s) /\ r = s.r /\ s.op # "none"
    BY <1>3, <1>5 DEF LocalOK, CopyOK, PhaseOK
  <2>2. s.op \in {"advance", "finish"}
    <3>1. CASE v.stage # w.stage
      BY <3>1, <2>1, <1>3 DEF LoadedStage
    <3>2. CASE v.state = "succeeded"
      BY <3>2, <2>1, <1>3, <1>t DEF LocalOK, PhaseOK, Ops
    <3> QED
      BY <3>1, <3>2
  <2> QED
    BY <2>1, <2>2, <1>5 DEF LoadedState, LoadedStage, Alive
<1>6. CASE s.pc = "retry"
  <2>1. /\ StillApplies(s.op, s.r, w) /\ Reconciles(s.op) /\ r = s.fresh
        /\ s.op # "advance" => w.stage = r.stage
    BY <1>3, <1>6 DEF LocalOK, RetryOK, PhaseOK
  <2>2. s.op = "advance"
    <3>1. CASE v.stage # w.stage
      BY <3>1, <2>1, <1>3
    <3>2. CASE v.state = "succeeded"
      BY <3>2, <2>1, <1>3, <1>4 DEF LocalOK, PhaseOK, Reconciles
    <3> QED
      BY <3>1, <3>2
  <2> QED
    BY <2>1, <2>2 DEF StillApplies, Alive
<1> QED
  BY <1>3, <1>5, <1>6

GateHeld ==
    \/ row'.stage # row.stage
    \/ row'.state = "succeeded" /\ row.state # "succeeded"
    => row'.stage <= row.stage + 1 /\ stageConverged(row.stage)

LEMMA GateStep ==
    ASSUME "churn" \notin Faults, "write" \notin Faults,
           TypeOK, TypeOK', SnapshotInv, PromotedOnlyIfSucceeded, GateInv, [Next]_vars
    PROVE  GateInv' /\ GateHeld
<1>t. /\ row \in Rollout /\ row' \in Rollout /\ RowStep(row, row')
      /\ \A x \in Engines : eng[x] \in EngineRec /\ eng'[x] \in EngineRec
      /\ \A x \in Engines : LocalOK(eng[x], row)
      /\ row.stage \in 0..LastStage
  BY SnapshotStep DEF TypeOK, SnapshotInv, Rollout, LastStage
<1>1. PICK G : G = Gates
  OBVIOUS
<1>2. PICK H : H = Gates'
  OBVIOUS
<1>h. \A x \in Engines : GateCopy(eng[x], row, G)
  BY <1>1 DEF GateInv
<1>3. Alive(row') => TargetPinned' /\ \A a \in Agents : effective[a] = "target" => effective'[a] = "target"
  BY TargetStays
<1>4. Alive(row') => \A k \in 0..LastStage : G[k] => H[k]
  BY <1>1, <1>2, <1>3, GatesStay
<1>q. \A x \in Engines : eng'[x] = eng[x] => GateCopy(eng'[x], row', H)
  BY <1>t, <1>h, <1>4, GateStale
<1>s. (\A x \in Engines : GateCopy(eng'[x], row', H)) => GateInv'
  BY <1>2, <1>3 DEF GateInv
<1>5. ASSUME NEW e \in Engines, EngineStep(e) \/ Crash(e) PROVE GateInv' /\ GateHeld
  <2>1. /\ EngineMove(eng[e], row, eng'[e], row')
        /\ \A x \in Engines \ {e} : eng'[x] = eng[x]
    BY <1>5, EngineSteps
  <2>2. ASSUME eng[e].pc = "listed", eng'[e].op \in {"advance", "finish"} PROVE G[eng[e].r.stage]
    <3>1. stageConverged(eng[e].r.stage)
      BY <1>5, <2>2, GatePassed
    <3>2. eng[e].r.stage \in 0..LastStage
      BY CopyType DEF Rollout, LastStage
    <3> QED
      BY <1>1, <3>1, <3>2 DEF Gates
  <2>3. GateCopy(eng'[e], row', H)
    BY <1>t, <1>h, <1>4, <2>1, <2>2, GateMove
  <2>4. GateInv'
    BY <2>1, <2>3, <1>q, <1>s
  <2>5. ASSUME \/ row'.stage # row.stage
               \/ row'.state = "succeeded" /\ row.state # "succeeded"
        PROVE  stageConverged(row.stage)
    <3>1. /\ Alive(row)
          /\ \/ eng[e].op = "advance" /\ row.stage = eng[e].r.stage - 1
             \/ eng[e].op = "finish" /\ row.stage = eng[e].r.stage
      BY <1>t, <2>1, <2>5, Advancing
    <3>2. G[row.stage]
      BY <3>1, <1>h DEF GateCopy
    <3> QED
      BY <3>2, <1>1, <1>t DEF Gates
  <2>6. row'.stage <= row.stage + 1
    <3>1. row.stage \in Int /\ row'.stage \in Int
      BY <1>t, StageNumbers DEF Rollout
    <3> QED
      BY <3>1, <1>t DEF RowStep, SameRow, EngineTransition, OperatorTransition
  <2> QED
    BY <2>4, <2>5, <2>6 DEF GateHeld
<1>6. CASE \/ Pause \/ Resume \/ Abort \/ SetExcludeFromLearning
           \/ \E a \in Agents : ReconcileAgent(a) \/ ChangeGroup(a) \/ Relabel(a)
           \/ UNCHANGED vars
  <2>1. eng' = eng /\ row'.stage = row.stage /\ (row'.state = "succeeded" => row.state = "succeeded")
    <3>1. CASE Pause \/ Resume \/ Abort
      <4>1. row'.state \in {"paused", "in_progress", "aborted"}
        BY <3>1, <1>t DEF Pause, Resume, Abort, UpdateRollout, Rollout
      <4> QED
        BY <3>1, <4>1, CommandOK
    <3>2. CASE row' = row /\ eng' = eng
      BY <3>2
    <3>3. CASE SetExcludeFromLearning
      BY <3>3, ExcludeOK
    <3> QED
      BY <1>6, <3>1, <3>2, <3>3 DEF ReconcileAgent, ChangeGroup, Relabel, vars
  <2> QED
    BY <2>1, <1>q, <1>s DEF GateHeld
<1>7. CASE TimePasses
  <2>1. SameRow(row, row')
    BY <1>7, <1>t DEF TimePasses, SameRow, Rollout
  <2>2. ASSUME NEW x \in Engines PROVE GateCopy(eng'[x], row', H)
    <3>1. /\ eng'[x].pc = eng[x].pc /\ eng'[x].op = eng[x].op
          /\ eng'[x].r = [eng[x].r EXCEPT !.age = Older(@)]
      BY <1>7, LocalFields DEF TimePasses
    <3>2. eng'[x].r.stage = eng[x].r.stage
      BY <3>1, CopyType DEF Rollout
    <3>3. GateCopy(eng[x], row', H)
      BY <1>t, <1>h, <1>4, GateStale
    <3> QED
      BY <3>1, <3>2, <3>3 DEF GateCopy
  <2> QED
    BY <2>1, <2>2, <1>s DEF GateHeld, SameRow
<1> QED
  BY <1>5, <1>6, <1>7 DEF Next

(* The stage moves by one and, like success, only while enough of the      *)
(* cohort really run the target: between the gate and the write that lands *)
(* nobody falls back, for any number of engines, whatever operators do and *)
(* whichever calls of the store fail, as long as the fleet stays as it is  *)
(* and every agent that was pushed to could be pinned.                     *)
THEOREM GateNeverStale ==
    ASSUME "churn" \notin Faults, "write" \notin Faults
    PROVE  Spec => AdvanceOnlyConverged
<1>1. Init => GateInv
  BY DEF Init, GateInv, TargetPinned, GateCopy, Idle, Local
<1>2. TypeOK /\ TypeOK' /\ SnapshotInv /\ PromotedOnlyIfSucceeded /\ GateInv /\ [Next]_vars
        => GateInv' /\ [GateHeld]_vars
  BY GateStep
<1> QED
  BY <1>1, <1>2, TypeCorrect, CopiesConsistent, PromotionFollowsSuccess, PTL
     DEF Spec, AdvanceOnlyConverged, GateHeld
-----------------------------------------------------------------------------
(* The pins of a rollout that was rolled back. *)

OneEngine == \A d, e \in Engines : d = e

(* The cleanup of the rollback is still to come, for the agents the row    *)
(* records, or it is over.                                                 *)
ReleaseInv ==
    row.state = "rolled_back" =>
        \E e \in Engines :
            \/ At(e, "cleanup") /\ eng[e].r.pushed = row.pushed
            \/ At(e, "idle") /\ \A a \in row.pushed : pin[a] = "none"

(* A cleanup removes the pins of the whole recorded set unless a delete    *)
(* fails.                                                                  *)
LEMMA CleanupStep ==
    ASSUME TypeOK, "write" \notin Faults, "crash" \notin Faults, NEW e \in Engines,
           EngineStep(e) \/ Crash(e), eng[e].pc = "cleanup"
    PROVE  /\ eng'[e].pc = "idle" /\ row' = row
           /\ pin' = [a \in Agents |-> IF a \in eng[e].r.pushed THEN "none" ELSE pin[a]]
<1>1. DeletePins(e)
  BY DEF EngineStep, Crash, Fault, At, ListRollouts, BlackoutBlocked, ClearBlackout, Start,
     CriteriaAbort, ConvergenceTimeout, Wait, Advance, Finish, ApplyStage, ApplyStageFails,
     Rollback, Persist, Reload, RetryPersist, CheckCoverage, PromoteTargetToGroupConfig, Processing
<1>2. PICK gone \in SUBSET eng[e].r.pushed :
        /\ Written(eng[e].r.pushed, gone)
        /\ pin' = [a \in Agents |-> IF a \in gone THEN "none" ELSE pin[a]]
  BY <1>1 DEF DeletePins
<1>3. gone = eng[e].r.pushed
  BY <1>2 DEF Written, Fault
<1>4. eng'[e].pc = "idle" /\ row' = row
  BY <1>1, Moves DEF DeletePins, Idle, Local
<1> QED
  BY <1>2, <1>3, <1>4

(* The row is rolled back by the write of a rollback only, which goes on   *)
(* to the cleanup of the agents it recorded.                               *)
LEMMA RolledBack ==
    ASSUME NEW s \in EngineRec, NEW t \in EngineRec, NEW w \in Rollout, NEW v \in Rollout,
           LocalOK(s, w), EngineMove(s, w, t, v), v.state = "rolled_back", w.state # "rolled_back"
    PROVE  t.pc = "cleanup" /\ t.r.pushed = v.pushed
<1>1. ASSUME ChecksBlackout(s, w, t, v) PROVE v.state = w.state
  BY <1>1 DEF ChecksBlackout, LocalOK, PhaseOK, CopyOK, LoadedState
<1>2. Lands(s, w, t, v)
  BY <1>1 DEF EngineMove, EndsPass, Lists, Decides, Applies, Reloads, Finalizes
<1>3. PICK r \in Rollout :
        /\ \/ s.pc = "persist" /\ r = s.r
           \/ s.pc = "retry" /\ r = s.fresh
        /\ v.state = r.state /\ v.pushed = r.pushed
        /\ \/ s.op \notin {"finish", "rollback"}
           \/ s.op = "finish"
           \/ s.op = "rollback" /\ t.pc = "cleanup" /\ t.r = r
  BY <1>2 DEF Lands
<1>4. r.state = s.r.state
  BY <1>3 DEF LocalOK, RetryOK
<1>5. s.op = "rollback"
  BY <1>3, <1>4 DEF LocalOK, PhaseOK, Reconciles, EngineRec, Ops
<1> QED
  BY <1>3, <1>5

LEMMA ReleaseStep ==
    ASSUME OneEngine, "write" \notin Faults, "crash" \notin Faults,
           TypeOK, TypeOK', SnapshotInv, ReleaseInv, [Next]_vars
    PROVE  ReleaseInv'
<1>t. /\ row \in Rollout /\ row' \in Rollout /\ RowStep(row, row')
      /\ \A x \in Engines : eng[x] \in EngineRec /\ eng'[x] \in EngineRec
      /\ \A x \in Engines : LocalOK(eng[x], row)
  BY SnapshotStep DEF TypeOK, SnapshotInv
<1>1. ASSUME NEW e \in Engines, EngineStep(e) \/ Crash(e) PROVE ReleaseInv'
  <2>1. EngineMove(eng[e], row, eng'[e], row')
    BY <1>1, EngineSteps
  <2>2. \A x \in Engines : x = e
    BY DEF OneEngine
  <2>3. CASE row.state # "rolled_back" /\ row'.state = "rolled_back"
    <3>1. eng'[e].pc = "cleanup" /\ eng'[e].r.pushed = row'.pushed
      BY <1>t, <2>1, <2>3, RolledBack
    <3> QED
      BY <3>1 DEF ReleaseInv, At
  <2>4. CASE row.state = "rolled_back"
    <3>1. eng[e].pc # "idle"
      <4>1. ~ListRollouts(e) /\ ~Crash(e)
        BY <2>4 DEF ListRollouts, Crash, Fault
      <4> QED
        BY <1>1, <4>1 DEF EngineStep, At, BlackoutBlocked, ClearBlackout, Start,
           CriteriaAbort, ConvergenceTimeout, Wait, Advance, Finish, ApplyStage, ApplyStageFails,
           Rollback, Persist, Reload, RetryPersist, CheckCoverage, PromoteTargetToGroupConfig,
           DeletePins, Processing
    <3>2. eng[e].pc = "cleanup" /\ eng[e].r.pushed = row.pushed
      BY <2>2, <2>4, <3>1 DEF ReleaseInv, At
    <3>3. /\ eng'[e].pc = "idle" /\ row' = row
          /\ pin' = [a \in Agents |-> IF a \in eng[e].r.pushed THEN "none" ELSE pin[a]]
      BY <1>1, <3>2, CleanupStep
    <3>4. \A a \in row'.pushed : pin'[a] = "none"
      BY <3>2, <3>3, <1>t DEF Rollout
    <3> QED
      BY <3>3, <3>4 DEF ReleaseInv, At
  <2>5. CASE row'.state # "rolled_back"
    BY <2>5 DEF ReleaseInv
  <2> QED
    BY <2>3, <2>4, <2>5
<1>2. CASE Pause \/ Resume \/ Abort
  <2>1. row'.state \in {"paused", "in_progress", "aborted"}
    BY <1>2, <1>t DEF Pause, Resume, Abort, UpdateRollout, Rollout
  <2> QED
    BY <2>1 DEF ReleaseInv
<1>x. CASE SetExcludeFromLearning
  BY <1>x, ExcludeOK DEF ReleaseInv, At
<1>3. CASE TimePasses
  <2>1. row'.state = row.state /\ row'.pushed = row.pushed /\ pin' = pin
    BY <1>3, <1>t DEF TimePasses, Rollout, fleet
  <2>2. ASSUME NEW x \in Engines
        PROVE  eng'[x].pc = eng[x].pc /\ eng'[x].r.pushed = eng[x].r.pushed
    <3>1. eng'[x].pc = eng[x].pc /\ eng'[x].r = [eng[x].r EXCEPT !.age = Older(@)]
      BY <1>3, LocalFields DEF TimePasses
    <3> QED
      BY <3>1, CopyType DEF Rollout
  <2> QED
    BY <2>1, <2>2 DEF ReleaseInv, At
<1>4. CASE \/ \E a \in Agents : ReconcileAgent(a) \/ ChangeGroup(a) \/ Relabel(a)
           \/ UNCHANGED vars
  <2>1. row' = row /\ eng' = eng /\ pin' = pin
    BY <1>4 DEF ReconcileAgent, ChangeGroup, Relabel, fleet, vars
  <2> QED
    BY <2>1 DEF ReleaseInv, At
<1> QED
  BY <1>1, <1>2, <1>x, <1>3, <1>4 DEF Next

(* With one engine that does not die and deletes that do not fail, nobody  *)
(* the row records as pushed stays pinned once the rollback is over,       *)
(* whatever the operators do, the fleet does and the store refuses.        *)
THEOREM CanariesReleased ==
    ASSUME OneEngine, "write" \notin Faults, "crash" \notin Faults
    PROVE  Spec => []RecordedCanaryReleased
<1>1. Init => ReleaseInv
  BY DEF Init, ReleaseInv, NewRollout
<1>2. TypeOK /\ TypeOK' /\ SnapshotInv /\ ReleaseInv /\ [Next]_vars => ReleaseInv'
  BY ReleaseStep
<1>3. ReleaseInv => RecordedCanaryReleased
  BY DEF ReleaseInv, RecordedCanaryReleased, Quiet, At
<1> QED
  BY <1>1, <1>2, <1>3, TypeCorrect, CopiesConsistent, PTL DEF Spec

(* Nothing fails: one engine that stays up, a fleet that stays as it is    *)
(* and a store that does what it is told.                                  *)
Faultless ==
    /\ OneEngine
    /\ \A f \in {"store", "write", "crash", "churn"} : f \notin Faults

Pinned == {a \in Agents : pin[a] # "none"}

(* The engine's copy is always current, so no write is refused; it has     *)
(* recorded, or is about to record, every agent it has pinned; and the     *)
(* cohort of an aborted rollout is recorded.  P are the pinned agents, C   *)
(* the cohorts.                                                            *)
SoloCopy(s, w, P, C) ==
    /\ s.pc \notin {"reload", "retry"}
    /\ s.pc \in {"listed", "apply", "persist"} => s.r.version = w.version
    /\ s.pc \in {"listed", "apply"} => s.r.pushed = w.pushed
    /\ s.pc = "persist" /\ s.op \notin {"start", "advance"} => s.r.pushed = w.pushed
    /\ w.state = "aborted" => C[w.stage] \subseteq w.pushed
    /\ w.state = "rolled_back" => \/ s.pc = "idle" /\ P = {}
                                  \/ s.pc = "cleanup" /\ P \subseteq s.r.pushed
    /\ w.state \notin {"succeeded", "rolled_back"} =>
          \/ s.pc \in {"idle", "listed", "apply"} /\ P \subseteq w.pushed
          \/ s.pc = "persist" /\ P \subseteq s.r.pushed

SoloInv ==
    NoCommandYet =>
        /\ Engines = {} => row.state = "pending"
        /\ \A e \in Engines : SoloCopy(eng[e], row, Pinned, Cohorts)

(* Only applyStage, rollback and the cleanup touch pins. *)
LEMMA PinSteps ==
    ASSUME NEW e \in Engines, EngineStep(e) \/ Crash(e), pin' # pin
    PROVE  ApplyStage(e) \/ Rollback(e) \/ DeletePins(e)
BY DEF EngineStep, Crash, ListRollouts, BlackoutBlocked, ClearBlackout, Start, CriteriaAbort,
     ConvergenceTimeout, Wait, Advance, Finish, ApplyStageFails, Persist, Reload, RetryPersist,
     CheckCoverage, PromoteTargetToGroupConfig, fleet

(* From a listed copy: blackout, the decisions, and the pins of rollback. *)
LEMMA SoloListed ==
    ASSUME Faultless, TypeOK, TypeOK', SnapshotInv, AppliedInv, NoCommandYet, NEW e \in Engines,
           EngineStep(e) \/ Crash(e), NEW C, C = Cohorts, SoloCopy(eng[e], row, Pinned, C),
           eng[e].pc \in {"idle", "listed"}
    PROVE  SoloCopy(eng'[e], row', Pinned', C)
<1> DEFINE s == eng[e]
           t == eng'[e]
<1>t. /\ row \in Rollout /\ row' \in Rollout /\ s \in EngineRec /\ t \in EngineRec
      /\ s.r \in Rollout /\ LocalOK(s, row) /\ EngineMove(s, row, t, row')
      /\ AppliedRow(row, C, cmds)
  BY EngineSteps DEF TypeOK, SnapshotInv, EngineRec, AppliedInv
<1>m. \/ EndsPass(row, t, row') \/ Lists(s, row, t, row') \/ ChecksBlackout(s, row, t, row')
      \/ Decides(s, row, t, row')
  BY <1>t DEF EngineMove, Applies, Lands, Reloads, Finalizes
<1>1. ASSUME ~Rollback(e) PROVE Pinned' = Pinned
  <2>1. ~ApplyStage(e) /\ ~DeletePins(e)
    BY DEF ApplyStage, DeletePins, At
  <2>2. pin' = pin
    BY <1>1, <2>1, PinSteps
  <2> QED
    BY <2>2 DEF Pinned
<1>2. row.state \notin {"succeeded", "rolled_back"} => Pinned \subseteq row.pushed
  BY DEF SoloCopy
<1>l. s.pc = "listed" => /\ s.r.version = row.version /\ s.r.pushed = row.pushed
                         /\ row.state = s.r.state /\ row.stage = s.r.stage
                         /\ s.r.state \in {"pending", "in_progress", "aborted"} /\ s.op = "none"
  BY <1>t DEF SoloCopy, LocalOK, CopyOK, PhaseOK, LoadedState, LoadedStage
<1>3. CASE Rollback(e)
  <2>1. /\ s.pc = "listed" /\ s.r.state = "aborted"
        /\ t.pc = "persist" /\ t.op = "rollback" /\ row' = row
        /\ t.r = [s.r EXCEPT !.state = "rolled_back"]
    BY <1>3, Moves, LocalFields DEF Rollback, Processing, At
  <2>2. t.r.pushed = s.r.pushed /\ t.r.version = s.r.version
    BY <2>1, <1>t DEF Rollout
  <2>3. C[row.stage] = canaryAgentsForStage(s.r.stage)
    BY <2>1, <1>l, <1>t DEF Cohorts, Rollout, LastStage
  <2>4. cumulativePushedAgents(s.r) \subseteq row.pushed
    BY <2>1, <2>3, <1>l DEF cumulativePushedAgents, SoloCopy
  <2>5. Pinned' \subseteq Pinned \cup cumulativePushedAgents(s.r)
    BY <1>3 DEF Rollback, Deliver, Pinned
  <2> QED
    BY <2>1, <2>2, <2>4, <2>5, <1>2, <1>l DEF SoloCopy
<1>4. CASE ~Rollback(e)
  <2>p. Pinned' = Pinned
    BY <1>1, <1>4
  <2>1. CASE EndsPass(row, t, row')
    BY <2>1, <2>p, <1>2, <1>l DEF EndsPass, SoloCopy
  <2>2. CASE Lists(s, row, t, row')
    <3>1. row.state \in {"pending", "in_progress", "aborted"}
      BY <2>2, <1>t, EngineSteps, SnapshotStep DEF EngineStep, Crash, At, ListRollouts, BlackoutBlocked,
         ClearBlackout, Start,
         CriteriaAbort, ConvergenceTimeout, Wait, Advance, Finish, ApplyStage, ApplyStageFails,
         Rollback, Persist, Reload, RetryPersist, CheckCoverage, PromoteTargetToGroupConfig,
         DeletePins, Processing, Lists
    <3> QED
      BY <2>2, <3>1, <2>p, <1>2 DEF Lists, SoloCopy
  <2>3. CASE ChecksBlackout(s, row, t, row')
    <3>1. PICK p \in Rollout :
            /\ p.state = s.r.state /\ p.stage = s.r.stage /\ p.pushed = s.r.pushed
            /\ t.pc = "listed" => t.r = p
            /\ \/ row' = row /\ p.version = s.r.version
               \/ row' = p
      BY <2>3 DEF ChecksBlackout
    <3>2. s.pc = "listed" /\ t.pc \in {"idle", "listed"} /\ s.r.state \in {"pending", "in_progress"}
      BY <2>3 DEF ChecksBlackout
    <3> QED
      BY <3>1, <3>2, <2>p, <1>2, <1>l DEF SoloCopy
  <2>4. CASE Decides(s, row, t, row')
    <3>1. /\ row' = row /\ s.pc = "listed" /\ t.pc \in {"apply", "persist"}
          /\ t.r.version = s.r.version /\ t.r.pushed = s.r.pushed
      BY <2>4 DEF Decides
    <3> QED
      BY <3>1, <2>p, <1>2, <1>l DEF SoloCopy
  <2> QED
    BY <1>m, <2>1, <2>2, <2>3, <2>4
<1> QED
  BY <1>3, <1>4

(* applyStage records the agents it pins. *)
LEMMA SoloApply ==
    ASSUME Faultless, TypeOK, TypeOK', SnapshotInv, NEW e \in Engines,
           EngineStep(e) \/ Crash(e), NEW C, SoloCopy(eng[e], row, Pinned, C),
           eng[e].pc = "apply"
    PROVE  SoloCopy(eng'[e], row', Pinned', C)
<1> DEFINE s == eng[e]
           t == eng'[e]
           toPush == canaryAgentsForStage(s.r.stage) \ s.r.pushed
<1>t. s.r \in Rollout /\ LocalOK(s, row) /\ s.op \in {"start", "advance"}
  BY CopyType DEF SnapshotInv, LocalOK, PhaseOK
<1>1. ApplyStage(e)
  BY DEF Faultless, EngineStep, Crash, Fault, At, ListRollouts, BlackoutBlocked, ClearBlackout,
     Start, CriteriaAbort, ConvergenceTimeout, Wait, Advance, Finish, ApplyStageFails,
     Rollback, Persist, Reload, RetryPersist, CheckCoverage, PromoteTargetToGroupConfig,
     DeletePins, Processing
<1>2. PICK A \in SUBSET toPush, B \in SUBSET toPush :
        /\ Deliver(A, B, "target")
        /\ Goto(e, "persist", s.op, [s.r EXCEPT !.pushed = @ \cup A])
  BY <1>1 DEF ApplyStage
<1>3. /\ t.pc = "persist" /\ t.op = s.op /\ t.r = [s.r EXCEPT !.pushed = @ \cup A]
      /\ row' = row
  BY <1>1, <1>2, Moves, LocalFields DEF ApplyStage
<1>4. t.r.pushed = s.r.pushed \cup A /\ t.r.version = s.r.version
  BY <1>3, <1>t DEF Rollout
<1>5. Pinned' \subseteq Pinned \cup A
  BY <1>2 DEF Deliver, Pinned
<1>6. row.state \in {"pending", "in_progress"}
  BY <1>t DEF LocalOK, CopyOK, LoadedState, SoloCopy
<1> QED
  BY <1>3, <1>4, <1>5, <1>6, <1>t DEF SoloCopy

(* Every write lands, and takes the pinned agents into the row. *)
LEMMA SoloPersist ==
    ASSUME Faultless, TypeOK, TypeOK', SnapshotInv, AppliedInv, NoCommandYet, NEW e \in Engines,
           EngineStep(e) \/ Crash(e), NEW C, C = Cohorts, SoloCopy(eng[e], row, Pinned, C),
           eng[e].pc = "persist"
    PROVE  SoloCopy(eng'[e], row', Pinned', C)
<1> DEFINE s == eng[e]
           t == eng'[e]
<1>t. /\ row \in Rollout /\ row' \in Rollout /\ s.r \in Rollout /\ s.op \in Ops
      /\ LocalOK(s, row) /\ s.op # "none" /\ AppliedRow(row, C, cmds) /\ s.r.version = row.version
  BY CopyType DEF TypeOK, SnapshotInv, LocalOK, PhaseOK, AppliedInv, SoloCopy
<1>1. Persist(e) /\ Pinned' = Pinned
  <2>1. Persist(e)
    BY DEF Faultless, EngineStep, Crash, Fault, At, ListRollouts, BlackoutBlocked, ClearBlackout,
       Start, CriteriaAbort, ConvergenceTimeout, Wait, Advance, Finish, ApplyStage, ApplyStageFails,
       Rollback, Reload, RetryPersist, CheckCoverage, PromoteTargetToGroupConfig,
       DeletePins, Processing
  <2> QED
    BY <2>1 DEF Persist, fleet, Pinned
<1>2. UpdateRollout(s.r) /\ AfterPersist(e, s.r)
  BY <1>1, <1>t DEF Faultless, Persist, VersionConflict, Fault
<1>3. row'.state = s.r.state /\ row'.stage = s.r.stage /\ row'.pushed = s.r.pushed
  BY <1>2, <1>t DEF UpdateRollout, Rollout
<1>4. /\ s.op = "rollback" => t.pc = "cleanup" /\ t.r = s.r
      /\ s.op = "finish" => t.pc = "coverage"
      /\ s.op \notin {"rollback", "finish"} => t.pc = "idle"
  <2>1. CASE s.op = "rollback"
    BY <1>2, <2>1, Moves, LocalFields DEF AfterPersist
  <2>2. CASE s.op = "finish"
    BY <1>2, <2>2, Moves, LocalFields DEF AfterPersist
  <2>3. CASE s.op \notin {"rollback", "finish"}
    BY <1>2, <2>3, Moves DEF AfterPersist, Idle, Local
  <2> QED
    BY <2>1, <2>2, <2>3
<1>5. /\ s.op \in {"start", "advance"} => s.r.state = "in_progress"
      /\ s.op = "finish" => s.r.state = "succeeded"
      /\ s.op = "abort" => s.r.state = "aborted"
      /\ s.op = "rollback" => s.r.state = "rolled_back"
  BY <1>t DEF LocalOK, PhaseOK
<1>6. /\ row.state = LoadedState(s) /\ row.stage = LoadedStage(s)
  BY <1>t DEF LocalOK, CopyOK
<1>n. ~(cmds + 2 <= MaxCommands)
  BY BoundsAssumption DEF NoCommandYet, TypeOK
<1>7. s.op = "abort" => C[s.r.stage] \subseteq row.pushed /\ row.pushed = s.r.pushed
  BY <1>6, <1>n, <1>t DEF LoadedState, LoadedStage, AppliedRow, SoloCopy
<1>8. row.state \notin {"succeeded", "rolled_back"}
  BY <1>6, <1>t DEF LoadedState, Ops
<1>9. Pinned \subseteq s.r.pushed
  BY <1>8 DEF SoloCopy
<1> QED
  BY <1>1, <1>3, <1>4, <1>5, <1>7, <1>9, <1>t DEF SoloCopy, Ops

(* The tail of a pass. *)
LEMMA SoloTail ==
    ASSUME Faultless, TypeOK, TypeOK', SnapshotInv, NEW e \in Engines,
           EngineStep(e) \/ Crash(e), NEW C, SoloCopy(eng[e], row, Pinned, C),
           eng[e].pc \in {"coverage", "promote", "cleanup"}
    PROVE  SoloCopy(eng'[e], row', Pinned', C)
<1>1. row.state \in {"succeeded", "rolled_back"}
  BY DEF SoloCopy
<1>2. CASE eng[e].pc = "cleanup"
  <2>1. /\ eng'[e].pc = "idle" /\ row' = row
        /\ pin' = [a \in Agents |-> IF a \in eng[e].r.pushed THEN "none" ELSE pin[a]]
    BY <1>2, CleanupStep DEF Faultless
  <2>2. Pinned \subseteq eng[e].r.pushed => Pinned' = {}
    BY <2>1 DEF Pinned
  <2>3. row.state = "rolled_back" => Pinned' = {}
    BY <1>2, <2>2 DEF SoloCopy
  <2> QED
    BY <1>1, <2>1, <2>3 DEF SoloCopy
<1>3. CASE eng[e].pc \in {"coverage", "promote"}
  <2>1. row.state = "succeeded"
    BY <1>1, <1>3 DEF SoloCopy
  <2>2. EngineMove(eng[e], row, eng'[e], row')
    BY EngineSteps
  <2>3. row' = row /\ eng'[e].pc \in {"idle", "promote", "cleanup"}
    BY <1>3, <2>2 DEF EngineMove, EndsPass, Lists, ChecksBlackout, Decides, Applies, Lands, Reloads,
       Finalizes
  <2> QED
    BY <2>1, <2>3 DEF SoloCopy
<1> QED
  BY <1>2, <1>3

LEMMA SoloStep ==
    ASSUME Faultless, TypeOK, TypeOK', SnapshotInv, AppliedInv, SoloInv, [Next]_vars
    PROVE  SoloInv'
<1> SUFFICES ASSUME NoCommandYet' PROVE SoloInv'
  BY DEF SoloInv
<1>n. cmds \in Int /\ MaxCommands \in Int /\ cmds <= MaxCommands /\ cmds' = MaxCommands
  BY BoundsAssumption DEF TypeOK, NoCommandYet
<1>c. NoCommandYet
  BY <1>n, CommandsFall DEF NoCommandYet
<1>4. ASSUME Pause \/ Resume \/ Abort \/ SetExcludeFromLearning PROVE FALSE
  BY <1>4, <1>n, CommandsFall
<1>1. PICK C : C = Cohorts
  OBVIOUS
<1>2. Cohorts' = C
  BY <1>1, FleetFixed DEF Faultless
<1>h. \A x \in Engines : SoloCopy(eng[x], row, Pinned, C)
  BY <1>1, <1>c DEF SoloInv
<1>e. Engines = {} => row'.state = row.state
  BY <1>4 DEF Next, ReconcileAgent, ChangeGroup, Relabel, TimePasses, vars, TypeOK, Rollout
<1> SUFFICES ASSUME NEW x \in Engines PROVE SoloCopy(eng'[x], row', Pinned', C)
  BY <1>2, <1>e, <1>c DEF SoloInv
<1>3. ASSUME NEW e \in Engines, EngineStep(e) \/ Crash(e) PROVE SoloCopy(eng'[x], row', Pinned', C)
  <2>1. x = e
    BY DEF Faultless, OneEngine
  <2>2. eng[e].pc \in PCs /\ eng[e].pc \notin {"reload", "retry"}
    BY <1>h, CopyType DEF SoloCopy
  <2>3. SoloCopy(eng'[e], row', Pinned', C)
    BY <1>1, <1>3, <1>h, <1>c, <2>2, SoloListed, SoloApply, SoloPersist, SoloTail DEF PCs
  <2> QED
    BY <2>1, <2>3
<1>5. CASE TimePasses
  <2>1. /\ row'.state = row.state /\ row'.pushed = row.pushed /\ row'.version = row.version
        /\ row'.stage = row.stage /\ Pinned' = Pinned
    BY <1>5 DEF TimePasses, Rollout, fleet, TypeOK, Pinned
  <2>2. /\ eng'[x].pc = eng[x].pc /\ eng'[x].op = eng[x].op
        /\ eng'[x].r = [eng[x].r EXCEPT !.age = Older(@)]
    BY <1>5, LocalFields DEF TimePasses
  <2>3. eng'[x].r.pushed = eng[x].r.pushed /\ eng'[x].r.version = eng[x].r.version
    BY <2>2, CopyType DEF Rollout
  <2> QED
    BY <2>1, <2>2, <2>3, <1>h DEF SoloCopy
<1>6. CASE \/ \E a \in Agents : ReconcileAgent(a) \/ ChangeGroup(a) \/ Relabel(a)
           \/ UNCHANGED vars
  <2>1. row' = row /\ eng' = eng /\ Pinned' = Pinned
    BY <1>6 DEF ReconcileAgent, ChangeGroup, Relabel, fleet, vars, Pinned
  <2> QED
    BY <2>1, <1>h
<1> QED
  BY <1>3, <1>4, <1>5, <1>6 DEF Next

(* A rollout that no operator has written and that nothing failed for      *)
(* leaves no pin behind when it is rolled back, neither on the agents it   *)
(* recorded nor on any other.                                              *)
THEOREM NothingStaysPinned == ASSUME Faultless PROVE Spec => []NoStuckPin
<1>1. Init => AppliedInv /\ SoloInv
  BY IdleType DEF Init, AppliedInv, AppliedRow, AppliedCopy, SoloInv, SoloCopy, Idle, Local,
                  NewRollout, Pinned
<1>2. TypeOK /\ TypeOK' /\ SnapshotInv /\ HoldInv /\ AppliedInv /\ [Next]_vars => AppliedInv'
  BY AppliedStep DEF Faultless
<1>3. TypeOK /\ TypeOK' /\ SnapshotInv /\ AppliedInv /\ SoloInv /\ [Next]_vars => SoloInv'
  BY SoloStep
<1>4. SoloInv => NoStuckPin
  BY DEF SoloInv, SoloCopy, NoStuckPin, Quiet, At, Pinned
<1> QED
  BY <1>1, <1>2, <1>3, <1>4, TypeCorrect, CopiesConsistent, HoldHolds, PTL DEF Spec

(* So no agent desires the target any more: no pin says so, and the group  *)
(* config was not promoted.                                                *)
THEOREM RollbackReachesEveryone == ASSUME Faultless PROVE Spec => []UnattendedReverted
<1>1. NoStuckPin /\ PromotedOnlyIfSucceeded => UnattendedReverted
  BY DEF NoStuckPin, PromotedOnlyIfSucceeded, EveryCanaryReverted, UnattendedReverted,
         resolveStoredConfig
<1> QED
  BY <1>1, NothingStaysPinned, PromotionFollowsSuccess, PTL
=============================================================================
