---------------------------- MODULE RolloutEngine ----------------------------
(***************************************************************************)
(* One staged rollout of a target config over the agents of one group.     *)
(*                                                                         *)
(* The rollout is a row of the application store, guarded by an optimistic *)
(* version.  Engines (internal/rollouts) list it, work on the copy they    *)
(* got, and write it back; operators (internal/services) pause, resume and *)
(* abort it meanwhile.  Every call of the store, and every read of the     *)
(* fleet, is a step of its own, so that anything may happen in between.    *)
(* The side effects of the engine, per-agent config rows (pins), direct    *)
(* pushes and the promotion of the group config, are not undone when its   *)
(* write is refused: that is where the hard cases are.                     *)
(***************************************************************************)
EXTENDS Integers, FiniteSets, Sequences

CONSTANTS
    Agents,        \* agent ids; their order is the order of the uuids
    Engines,       \* engine instances that tick (one, or two during a failover)
    Stages,        \* the stages of the rollout, a sequence of stage records
    Labels,        \* the key=value pairs an agent may carry
    InitialMembers,\* the agents in the target group when the rollout is created
    InitialLabels, \* the labels of every agent at that time
    HasPrevious,   \* FALSE for the first rollout of a group (no snapshot)
    MaxDrifted,    \* AbortCriteria.MaxDriftedAgents
    Commands,      \* operator commands that may be given
    Faults,        \* kinds of faults that may happen
    MaxCommands,   \* bound: number of operator commands
    MaxFaults      \* bound: number of faults

AllCommands == {"pause", "resume", "abort", "exclude"}

(* "store": a store call fails; "write": a config row is not written or    *)
(* deleted; "crash": the process dies; "churn": agents move or are         *)
(* relabelled; "window": a change window is active; "drift": pushed     *)
(* agents drift; "burn": the error rate or the SLO guard fires.            *)
AllFaults == {"store", "write", "crash", "churn", "window", "drift", "burn"}

StageRec == [mode: {"percent", "label"}, percentage: 0..100,
             selector: SUBSET Labels, convergence: 0..100]

ASSUME AgentsAssumption == Agents \subseteq Nat /\ IsFiniteSet(Agents)
ASSUME StagesAssumption == Stages \in Seq(StageRec) /\ Len(Stages) > 0
ASSUME FleetAssumption ==
    /\ InitialMembers \subseteq Agents
    /\ InitialLabels \in [Agents -> SUBSET Labels]
ASSUME BoundsAssumption ==
    /\ HasPrevious \in BOOLEAN
    /\ MaxDrifted \in Nat
    /\ Commands \subseteq AllCommands
    /\ Faults \subseteq AllFaults
    /\ MaxCommands \in Nat
    /\ MaxFaults \in Nat

VARIABLES
    row,        \* the stored rollout
    eng,        \* per engine: where it is in process() and its copy of the row
    pin,        \* per agent: content of its latest agent-scoped config row
    groupConfig,\* content of the group's latest config row
    effective,  \* per agent: the config it runs and reports
    member,     \* the agents in the target group
    label,      \* per agent: its labels
    cmds,       \* operator commands left
    faults      \* faults left

vars == <<row, eng, pin, groupConfig, effective, member, label, cmds, faults>>
fleet == <<pin, groupConfig, effective>>
world == <<member, label>>

-----------------------------------------------------------------------------
(* The stored rollout.  CurrentStage counts from 0.  age is the time since *)
(* StageStartedAt: unset (nil), within the dwell, past it, past dwell plus *)
(* convergence timeout.                                                    *)

States == {"pending", "in_progress", "paused", "succeeded", "aborted", "rolled_back"}
Ages   == {"unset", "fresh", "dwelt", "expired"}
Configs == {"none", "previous", "target"}

Rollout == [state: States, stage: 0..(Len(Stages) - 1), age: Ages,
            pushed: SUBSET Agents, blackout: BOOLEAN, version: Nat]

NewRollout == [state |-> "pending", stage |-> 0, age |-> "unset",
               pushed |-> {}, blackout |-> FALSE, version |-> 1]

LastStage == Len(Stages) - 1
StageAt(k) == Stages[k + 1]

(* An engine's local state: pc names the next store call, op the           *)
(* transition it is carrying out, r is its copy of the row and fresh the   *)
(* reloaded copy of persistWithReconcile.                                  *)
PCs == {"idle", "listed", "apply", "persist", "reload", "retry",
        "coverage", "promote", "cleanup"}
Ops == {"none", "start", "advance", "finish", "abort", "rollback"}

EngineRec == [pc: PCs, op: Ops, r: Rollout, fresh: Rollout]

Local(pc, op, r, fresh) == [pc |-> pc, op |-> op, r |-> r, fresh |-> fresh]
Idle == Local("idle", "none", NewRollout, NewRollout)

Init ==
    /\ row = NewRollout
    /\ eng = [e \in Engines |-> Idle]
    /\ pin = [a \in Agents |-> "none"]
    /\ groupConfig = IF HasPrevious THEN "previous" ELSE "none"
    /\ effective = [a \in Agents |-> IF HasPrevious /\ a \in InitialMembers
                                     THEN "previous" ELSE "none"]
    /\ member = InitialMembers
    /\ label = InitialLabels
    /\ cmds = MaxCommands
    /\ faults = MaxFaults

-----------------------------------------------------------------------------
(* Canary selection and convergence, computed from the live fleet.         *)

(* The first n agents of S in id order. *)
FirstN(S, n) == {a \in S : Cardinality({b \in S : b < a}) < n}

(* Percent of size, rounded up, at most size. *)
CeilPercent(size, percent) ==
    LET n == (size * percent + 99) \div 100 IN IF n > size THEN size ELSE n

matchByLabel(S, selector) ==
    {a \in S : selector # {} /\ selector \subseteq label[a]}

canaryAgentsForStage(k) ==
    LET stage == StageAt(k) IN
    IF stage.mode = "label"
    THEN matchByLabel(member, stage.selector)
    ELSE FirstN(member, CeilPercent(Cardinality(member), stage.percentage))

cumulativePushedAgents(r) == canaryAgentsForStage(r.stage) \cup (r.pushed \cap member)

convergenceRequired(size, percent) ==
    IF percent <= 0 \/ percent >= 100 THEN size
    ELSE LET n == CeilPercent(size, percent) IN IF n < 1 /\ size > 0 THEN 1 ELSE n

stageConverged(k) ==
    LET canary == canaryAgentsForStage(k) IN
    Cardinality({a \in canary : effective[a] = "target"})
        >= convergenceRequired(Cardinality(canary), StageAt(k).convergence)

(* The config an agent should run: its own row first, then its group's. *)
resolveStoredConfig(a) ==
    IF pin[a] # "none" THEN pin[a]
    ELSE IF a \in member THEN groupConfig ELSE "none"

-----------------------------------------------------------------------------
(* The store. *)

Fault(kind) == kind \in Faults /\ faults > 0 /\ faults' = faults - 1

(* Mutant: the version is not compared. *)
UpdateRolloutBlind(r) == row' = [r EXCEPT !.version = row.version + 1]

(* UpdateRollout with a loaded version: commits only on an unchanged row. *)
UpdateRollout(r) ==
    /\ r.version = row.version
    /\ row' = [r EXCEPT !.version = @ + 1]

VersionConflict(r) == r.version # row.version

-----------------------------------------------------------------------------
(* Engine: one pass of process() over one rollout. *)

At(e, pc) == eng[e].pc = pc
Goto(e, pc, op, r) == eng' = [eng EXCEPT ![e] = Local(pc, op, r, NewRollout)]
Return(e) == eng' = [eng EXCEPT ![e] = Idle]

(* tick: List returns the row as it is now. *)
ListRollouts(e) ==
    /\ At(e, "idle")
    /\ row.state \in {"pending", "in_progress", "aborted"}
    /\ Goto(e, "listed", "none", row)
    /\ UNCHANGED <<row, fleet, world, cmds, faults>>

Forward(r) == r.state \in {"pending", "in_progress"}

(* applyBlackoutCheck, window active: record it (if the row is unchanged)  *)
(* and skip this tick.                                                     *)
BlackoutBlocked(e) ==
    /\ At(e, "listed") /\ Forward(eng[e].r)
    /\ Fault("window")
    /\ \/ UpdateRollout([eng[e].r EXCEPT !.blackout = TRUE])
       \/ (VersionConflict(eng[e].r) \/ "store" \in Faults) /\ UNCHANGED row
    /\ Return(e)
    /\ UNCHANGED <<fleet, world, cmds>>

(* applyBlackoutCheck, window over: clear the reason; a refused write is   *)
(* ignored and the pass goes on with the stale copy.                       *)
ClearBlackout(e) ==
    /\ At(e, "listed") /\ Forward(eng[e].r) /\ eng[e].r.blackout
    /\ LET r == [eng[e].r EXCEPT !.blackout = FALSE] IN
       \/ /\ UpdateRollout(r)
          /\ Goto(e, "listed", "none", [r EXCEPT !.version = @ + 1])
          /\ UNCHANGED faults
       \/ /\ (VersionConflict(r) /\ UNCHANGED faults) \/ Fault("store")
          /\ Goto(e, "listed", "none", r)
          /\ UNCHANGED row
    /\ UNCHANGED <<fleet, world, cmds>>

Processing(e, state) ==
    At(e, "listed") /\ eng[e].r.state = state /\ ~(Forward(eng[e].r) /\ eng[e].r.blackout)

(* start: in_progress in memory, stage clock started; applyStage is next. *)
Start(e) ==
    /\ Processing(e, "pending")
    /\ Goto(e, "apply", "start", [eng[e].r EXCEPT !.state = "in_progress", !.age = "fresh"])
    /\ UNCHANGED <<row, fleet, world, cmds, faults>>

(* evaluateAbortCriteria: too many drifted agents in the cumulative pushed *)
(* set (any of them may have drifted), or the error rate or SLO guard.     *)
evaluateAbortCriteria(r) ==
    \/ Fault("drift") /\ Cardinality(cumulativePushedAgents(r)) > MaxDrifted
    \/ Fault("burn")

TriggerAbort(e) ==
    Goto(e, "persist", "abort", [eng[e].r EXCEPT !.state = "aborted"])

CriteriaAbort(e) ==
    /\ Processing(e, "in_progress")
    /\ evaluateAbortCriteria(eng[e].r)
    /\ TriggerAbort(e)
    /\ UNCHANGED <<row, fleet, world, cmds>>

(* Mutant: a started stage counts as dwelt. *)
DwellElapsedAtOnce(r) == r.age # "unset"

DwellElapsed(r) == r.age \in {"dwelt", "expired"}

(* The convergence gate is shut: too few agents report the target, or the  *)
(* target or the fleet cannot be read.                                     *)
NotConverged(r) ==
    \/ ~stageConverged(r.stage) /\ UNCHANGED faults
    \/ Fault("store")

(* Past dwell, not converged, past the convergence deadline. *)
ConvergenceTimeout(e) ==
    /\ Processing(e, "in_progress")
    /\ eng[e].r.age = "expired" /\ NotConverged(eng[e].r)
    /\ TriggerAbort(e)
    /\ UNCHANGED <<row, fleet, world, cmds>>

(* Dwell not elapsed, or waiting for convergence: nothing this tick. *)
Wait(e) ==
    LET r == eng[e].r IN
    /\ Processing(e, "in_progress")
    /\ \/ ~DwellElapsed(r) /\ UNCHANGED faults
       \/ r.age = "dwelt" /\ NotConverged(r)
    /\ Return(e)
    /\ UNCHANGED <<row, fleet, world, cmds>>

(* Mutant: the gate is dwell alone. *)
GateOpenOnDwell(r) == DwellElapsed(r)

GateOpen(r) == DwellElapsed(r) /\ stageConverged(r.stage)

(* Mutant: the last stage is not recognised. *)
AdvancePastEnd(e) ==
    LET r == eng[e].r IN
    /\ Processing(e, "in_progress")
    /\ GateOpen(r)
    /\ Goto(e, "apply", "advance", [r EXCEPT !.stage = @ + 1, !.age = "fresh"])
    /\ UNCHANGED <<row, fleet, world, cmds, faults>>

Advance(e) ==
    LET r == eng[e].r IN
    /\ Processing(e, "in_progress")
    /\ GateOpen(r) /\ r.stage # LastStage
    /\ Goto(e, "apply", "advance", [r EXCEPT !.stage = @ + 1, !.age = "fresh"])
    /\ UNCHANGED <<row, fleet, world, cmds, faults>>

Finish(e) ==
    LET r == eng[e].r IN
    /\ Processing(e, "in_progress")
    /\ GateOpen(r) /\ r.stage = LastStage
    /\ Goto(e, "persist", "finish", [r EXCEPT !.state = "succeeded"])
    /\ UNCHANGED <<row, fleet, world, cmds, faults>>

(* The agents whose config row got written: all, or fewer on write faults. *)
Written(wanted, done) ==
    \/ done = wanted /\ UNCHANGED faults
    \/ done \in SUBSET wanted \ {wanted} /\ Fault("write")

(* writeDesiredStateForAgents for `assigned`, then pushConfigToAgents,     *)
(* acknowledged by `acked`.                                                *)
Deliver(assigned, acked, config) ==
    /\ pin' = [a \in Agents |-> IF a \in assigned THEN config ELSE pin[a]]
    /\ effective' = [a \in Agents |-> IF a \in acked THEN config ELSE effective[a]]

(* Mutant: the cohort is the one of the last stage. *)
ApplyStageToAll(e) ==
    LET r == eng[e].r
        toPush == canaryAgentsForStage(LastStage) \ r.pushed
    IN
    /\ At(e, "apply")
    /\ \E assigned \in SUBSET toPush : \E acked \in SUBSET toPush :
          /\ Written(toPush, assigned)
          /\ Deliver(assigned, acked, "target")
          /\ Goto(e, "persist", eng[e].op, [r EXCEPT !.pushed = @ \cup assigned])
    /\ UNCHANGED <<row, groupConfig, world, cmds>>

(* Mutant: the pushed-set of the copy is not updated. *)
ApplyStageUnrecorded(e) ==
    LET r == eng[e].r
        toPush == canaryAgentsForStage(r.stage) \ r.pushed
    IN
    /\ At(e, "apply")
    /\ \E assigned \in SUBSET toPush : \E acked \in SUBSET toPush :
          /\ Written(toPush, assigned)
          /\ Deliver(assigned, acked, "target")
          /\ Goto(e, "persist", eng[e].op, r)
    /\ UNCHANGED <<row, groupConfig, world, cmds>>

(* applyStage: pin and push the agents of the cohort not delivered to yet. *)
ApplyStage(e) ==
    LET r == eng[e].r
        toPush == canaryAgentsForStage(r.stage) \ r.pushed
    IN
    /\ At(e, "apply")
    /\ \E assigned \in SUBSET toPush : \E acked \in SUBSET toPush :
          /\ Written(toPush, assigned)
          /\ Deliver(assigned, acked, "target")
          /\ Goto(e, "persist", eng[e].op, [r EXCEPT !.pushed = @ \cup assigned])
    /\ UNCHANGED <<row, groupConfig, world, cmds>>

(* applyStage could not read the target config or the fleet: the pass ends *)
(* and nothing is persisted.                                               *)
ApplyStageFails(e) ==
    /\ At(e, "apply")
    /\ Fault("store")
    /\ Return(e)
    /\ UNCHANGED <<row, fleet, world, cmds>>

(* rollback: push the previous config back to everyone pushed so far. *)
Rollback(e) ==
    LET r == eng[e].r
        canary == cumulativePushedAgents(r)
    IN
    /\ Processing(e, "aborted")
    /\ Goto(e, "persist", "rollback", [r EXCEPT !.state = "rolled_back"])
    /\ \/ /\ HasPrevious
          /\ \E assigned \in SUBSET canary : \E acked \in SUBSET canary :
                /\ Written(canary, assigned)
                /\ Deliver(assigned, acked, "previous")
       \/ /\ ~HasPrevious
          /\ UNCHANGED <<pin, effective, faults>>
       \/ /\ HasPrevious /\ Fault("store")
          /\ UNCHANGED <<pin, effective>>
    /\ UNCHANGED <<row, groupConfig, world, cmds>>

Reconciles(op) == op \in {"start", "advance", "rollback"}

(* Mutant: finish goes on after a write that failed. *)
AfterYieldFinishes(e) ==
    CASE eng[e].op = "rollback" -> Goto(e, "cleanup", "rollback", eng[e].r)
      [] eng[e].op = "finish"   -> Goto(e, "coverage", "finish", eng[e].r)
      [] OTHER                  -> Return(e)

(* What follows the write of an operation, whether or not it landed. *)
AfterYield(e) ==
    IF eng[e].op = "rollback" THEN Goto(e, "cleanup", "rollback", eng[e].r) ELSE Return(e)

(* Mutant: a rollback leaves its pins. *)
AfterPersistNoCleanup(e, r) ==
    IF eng[e].op = "finish" THEN Goto(e, "coverage", "finish", r) ELSE Return(e)

(* Mutant: a rollback is finalized like a success. *)
AfterPersistPromotes(e, r) ==
    IF eng[e].op \in {"finish", "rollback"} THEN Goto(e, "coverage", "finish", r) ELSE Return(e)

(* What follows a write that landed with the copy r. *)
AfterPersist(e, r) ==
    CASE eng[e].op = "finish"   -> Goto(e, "coverage", "finish", r)
      [] eng[e].op = "rollback" -> Goto(e, "cleanup", "rollback", r)
      [] OTHER                  -> Return(e)

Persist(e) ==
    LET r == eng[e].r IN
    /\ At(e, "persist")
    /\ \/ UpdateRollout(r) /\ AfterPersist(e, r) /\ UNCHANGED faults
       \/ /\ VersionConflict(r)
          /\ IF Reconciles(eng[e].op) THEN Goto(e, "reload", eng[e].op, r) ELSE Return(e)
          /\ UNCHANGED <<row, faults>>
       \/ Fault("store") /\ AfterYield(e) /\ UNCHANGED row
    /\ UNCHANGED <<fleet, world, cmds>>

(* Mutant: an advance does not look at the reloaded state. *)
StillAppliesAnyState(op, r, f) ==
    CASE op = "start"    -> f.state = "pending"
      [] op = "advance"  -> f.stage = r.stage - 1
      [] op = "rollback" -> f.state # "rolled_back"

(* The reapply closures of start, advance and rollback: does the engine's  *)
(* transition still hold on the reloaded row, and the row it makes of it.  *)
StillApplies(op, r, f) ==
    CASE op = "start"    -> f.state = "pending"
      [] op = "advance"  -> f.state = "in_progress" /\ f.stage = r.stage - 1
      [] op = "rollback" -> f.state # "rolled_back"

Reapply(op, r, f) ==
    IF op = "rollback" THEN [f EXCEPT !.state = "rolled_back"]
    ELSE [f EXCEPT !.state = "in_progress", !.stage = r.stage,
                   !.age = r.age, !.pushed = r.pushed]

Reload(e) ==
    LET op == eng[e].op
        r  == eng[e].r
    IN
    /\ At(e, "reload")
    /\ \/ /\ StillApplies(op, r, row)
          /\ eng' = [eng EXCEPT ![e] = Local("retry", op, r, Reapply(op, r, row))]
          /\ UNCHANGED faults
       \/ ~StillApplies(op, r, row) /\ AfterYield(e) /\ UNCHANGED faults
       \/ Fault("store") /\ AfterYield(e)
    /\ UNCHANGED <<row, fleet, world, cmds>>

(* The single retry of persistWithReconcile. *)
RetryPersist(e) ==
    LET f == eng[e].fresh IN
    /\ At(e, "retry")
    /\ \/ UpdateRollout(f) /\ AfterPersist(e, f) /\ UNCHANGED faults
       \/ VersionConflict(f) /\ AfterYield(e) /\ UNCHANGED <<row, faults>>
       \/ Fault("store") /\ AfterYield(e) /\ UNCHANGED row
    /\ UNCHANGED <<fleet, world, cmds>>

(* finalizeCanaryAssignments after a success: only a rollout that reached  *)
(* every current member is promoted.                                       *)
ReachedFullCoverage(r) == member # {} /\ member \subseteq r.pushed

CheckCoverage(e) ==
    /\ At(e, "coverage")
    /\ \/ /\ ReachedFullCoverage(eng[e].r)
          /\ Goto(e, "promote", "finish", eng[e].r)
          /\ UNCHANGED faults
       \/ ~ReachedFullCoverage(eng[e].r) /\ Return(e) /\ UNCHANGED faults
       \/ Fault("store") /\ Return(e)
    /\ UNCHANGED <<row, fleet, world, cmds>>

(* Mutant: the pins go although the promotion failed. *)
PromoteTargetIgnoringFailure(e) ==
    /\ At(e, "promote")
    /\ \/ groupConfig' = "target" /\ UNCHANGED faults
       \/ Fault("write") /\ UNCHANGED groupConfig
    /\ Goto(e, "cleanup", "finish", eng[e].r)
    /\ UNCHANGED <<row, pin, effective, world, cmds>>

PromoteTargetToGroupConfig(e) ==
    /\ At(e, "promote")
    /\ \/ /\ groupConfig' = "target"
          /\ Goto(e, "cleanup", "finish", eng[e].r)
          /\ UNCHANGED faults
       \/ Fault("write") /\ Return(e) /\ UNCHANGED groupConfig
    /\ UNCHANGED <<row, pin, effective, world, cmds>>

(* DeleteConfigsForAgent for every agent of the recorded pushed-set. *)
DeletePins(e) ==
    LET recorded == eng[e].r.pushed IN
    /\ At(e, "cleanup")
    /\ \E gone \in SUBSET recorded :
          /\ Written(recorded, gone)
          /\ pin' = [a \in Agents |-> IF a \in gone THEN "none" ELSE pin[a]]
    /\ Return(e)
    /\ UNCHANGED <<row, groupConfig, effective, world, cmds>>

EngineStep(e) ==
    \/ ListRollouts(e) \/ BlackoutBlocked(e) \/ ClearBlackout(e)
    \/ Start(e) \/ CriteriaAbort(e) \/ ConvergenceTimeout(e) \/ Wait(e)
    \/ Advance(e) \/ Finish(e) \/ ApplyStage(e) \/ ApplyStageFails(e) \/ Rollback(e)
    \/ Persist(e) \/ Reload(e) \/ RetryPersist(e)
    \/ CheckCoverage(e) \/ PromoteTargetToGroupConfig(e) \/ DeletePins(e)

(* The process dies: its copies are gone, what it wrote stays. *)
Crash(e) ==
    /\ ~At(e, "idle")
    /\ Fault("crash")
    /\ Return(e)
    /\ UNCHANGED <<row, fleet, world, cmds>>

-----------------------------------------------------------------------------
(* Operators.  Each command reads the row and writes it back with the      *)
(* version it read; one that loses the race returns an error and changes   *)
(* nothing, so a command that takes effect is atomic.                      *)

Command(name) ==
    /\ name \in Commands /\ cmds > 0
    /\ cmds' = cmds - 1
    /\ UNCHANGED <<eng, fleet, world, faults>>

Pause ==
    /\ row.state \in {"in_progress", "pending"}
    /\ UpdateRollout([row EXCEPT !.state = "paused"])
    /\ Command("pause")

Resume ==
    /\ row.state = "paused"
    /\ UpdateRollout([row EXCEPT !.state = "in_progress", !.age = "fresh"])
    /\ Command("resume")

(* Mutant: a finished rollout can be aborted. *)
AbortFinished ==
    /\ UpdateRollout([row EXCEPT !.state = "aborted"])
    /\ Command("abort")

Abort ==
    /\ row.state \notin {"succeeded", "rolled_back"}
    /\ UpdateRollout([row EXCEPT !.state = "aborted"])
    /\ Command("abort")

(* The opt-out flag of the recommender changes, in any state of the row:   *)
(* for everyone else only the version does.                                *)
SetExcludeFromLearning ==
    /\ UpdateRollout(row)
    /\ Command("exclude")

-----------------------------------------------------------------------------
(* The fleet and the clock. *)

(* reconcileAgent on the instance that owns the agent's connection. *)
ReconcileAgent(a) ==
    /\ resolveStoredConfig(a) \notin {"none", effective[a]}
    /\ effective' = [effective EXCEPT ![a] = resolveStoredConfig(a)]
    /\ UNCHANGED <<row, eng, pin, groupConfig, world, cmds, faults>>

(* An agent joins or leaves the group, or is relabelled. *)
ChangeGroup(a) ==
    /\ Fault("churn")
    /\ member' = IF a \in member THEN member \ {a} ELSE member \cup {a}
    /\ UNCHANGED <<row, eng, fleet, label, cmds>>

Relabel(a) ==
    /\ Fault("churn")
    /\ \E new \in SUBSET Labels \ {label[a]} : label' = [label EXCEPT ![a] = new]
    /\ UNCHANGED <<row, eng, fleet, member, cmds>>

(* Mutant of Older: no stage outlives its convergence deadline. *)
OlderWithoutDeadline(age) == IF age = "unset" THEN "unset" ELSE "dwelt"

Older(age) ==
    CASE age = "unset" -> "unset"
      [] age = "fresh" -> "dwelt"
      [] OTHER         -> "expired"

(* Time passes for the stored row and for every copy of it. *)
TimePasses ==
    /\ row' = [row EXCEPT !.age = Older(@)]
    /\ eng' = [e \in Engines |->
                  Local(eng[e].pc, eng[e].op, [eng[e].r EXCEPT !.age = Older(@)],
                        [eng[e].fresh EXCEPT !.age = Older(@)])]
    /\ <<row, eng>>' # <<row, eng>>
    /\ UNCHANGED <<fleet, world, cmds, faults>>

-----------------------------------------------------------------------------
Next ==
    \/ \E e \in Engines : EngineStep(e) \/ Crash(e)
    \/ Pause \/ Resume \/ Abort \/ SetExcludeFromLearning
    \/ \E a \in Agents : ReconcileAgent(a) \/ ChangeGroup(a) \/ Relabel(a)
    \/ TimePasses

Spec == Init /\ [][Next]_vars

(* The engine loop ticks every five seconds and the clock moves.  Nothing  *)
(* obliges an operator to act or a fault to happen, nor an agent to be     *)
(* connected.                                                              *)
EngineFairness ==
    /\ \A e \in Engines : WF_vars(EngineStep(e))
    /\ WF_vars(TimePasses)

EngineSpec == Spec /\ EngineFairness

(* Connected agents are reconciled every thirty seconds. *)
Fairness ==
    /\ EngineFairness
    /\ \A a \in Agents : WF_vars(ReconcileAgent(a))

FairSpec == Spec /\ Fairness

-----------------------------------------------------------------------------
(* Properties. *)

Quiet == \A e \in Engines : At(e, "idle")

(* Every variable stays in its type. *)
TypeOK ==
    /\ row \in Rollout
    /\ eng \in [Engines -> EngineRec]
    /\ pin \in [Agents -> Configs]
    /\ groupConfig \in Configs
    /\ effective \in [Agents -> Configs]
    /\ member \subseteq Agents
    /\ label \in [Agents -> SUBSET Labels]
    /\ cmds \in 0..MaxCommands
    /\ faults \in 0..MaxFaults

(* The state the stored row must still be in for a copy to be current. *)
LoadedState(s) ==
    CASE s.pc = "listed"                        -> s.r.state
      [] s.op = "start"                         -> "pending"
      [] s.op \in {"advance", "finish", "abort"} -> "in_progress"
      [] OTHER                                  -> "aborted"

LoadedStage(s) == IF s.op = "advance" THEN s.r.stage - 1 ELSE s.r.stage

(* Where an engine is in process() determines what it carries out; it      *)
(* promotes the target only after its success is recorded in the row w.    *)
PhaseOK(s, w) ==
    /\ s.pc = "listed" => s.op = "none" /\ s.r.state \in {"pending", "in_progress", "aborted"}
    /\ s.pc = "apply" => s.op \in {"start", "advance"}
    /\ s.pc = "persist" => s.op # "none"
    /\ s.pc \in {"reload", "retry"} => Reconciles(s.op)
    /\ s.op \in {"start", "advance"} => s.r.state = "in_progress"
    /\ s.op = "finish" => s.r.state = "succeeded" /\ s.r.stage = LastStage
    /\ s.op = "abort" => s.r.state = "aborted"
    /\ s.op = "rollback" => s.r.state = "rolled_back"
    /\ s.pc \in {"coverage", "promote"} => s.op = "finish" /\ w.state = "succeeded"

(* The copy an engine listed, against the stored row w. *)
CopyOK(s, w) ==
    s.pc \in {"listed", "apply", "persist"} =>
        /\ s.r.version <= w.version
        /\ s.r.version = w.version => w.state = LoadedState(s) /\ w.stage = LoadedStage(s)

(* The copy it reloaded and is about to write in the single retry. *)
RetryOK(s, w) ==
    s.pc = "retry" =>
        /\ s.fresh.version <= w.version
        /\ s.fresh.state = s.r.state
        /\ s.op # "rollback" => s.fresh.stage = s.r.stage
        /\ s.fresh.version = w.version =>
              /\ StillApplies(s.op, s.r, w)
              /\ s.op # "advance" => w.stage = s.fresh.stage

(* How far the row can have moved while the engine works on it. *)
ProgressOK(s, w) ==
    /\ s.pc # "idle" => LoadedStage(s) <= w.stage
    /\ s.op = "start" \/ (s.pc = "listed" /\ s.r.state = "pending") => s.r.stage = 0
    /\ s.op = "rollback" \/ (s.pc = "listed" /\ s.r.state = "aborted") =>
          w.state \in {"aborted", "rolled_back"}

LocalOK(s, w) == PhaseOK(s, w) /\ CopyOK(s, w) /\ RetryOK(s, w) /\ ProgressOK(s, w)

(* Optimistic concurrency: a copy whose version is still the stored one is *)
(* a copy of the stored row, also after several engines, operators and the *)
(* reload of persistWithReconcile have written in between; and no copy is  *)
(* ever more than one stage ahead of the row.                              *)
SnapshotInv ==
    /\ \A e \in Engines : LocalOK(eng[e], row)
    /\ row.state = "pending" => row.stage = 0

(* What the operator decided stands, whatever copy of the row an engine is *)
(* still working on (persist, persistWithReconcile): an aborted rollout    *)
(* can only be rolled back, a finished one never moves again, and a paused *)
(* one keeps its stage and its pushed-set until an operator resumes or     *)
(* aborts it.                                                              *)
KeepsDecision ==
    /\ row.state = "aborted" => row'.state \in {"aborted", "rolled_back"}
    /\ row.state \in {"succeeded", "rolled_back"} => row'.state = row.state
    /\ row.state = "paused" =>
          \/ [row' EXCEPT !.age = row.age] = row
          \/ cmds' < cmds /\ row'.stage = row.stage /\ row'.pushed = row.pushed

OperatorWins == [][KeepsDecision]_vars

(* The stored row goes through the states of the documented lifecycle and  *)
(* through no others: with all the copies of it around, every write that   *)
(* lands is one transition of the state machine from the state stored just *)
(* before.                                                                 *)
Lifecycle == INSTANCE RolloutLifecycle WITH
                 Last <- LastStage, state <- row.state, stage <- row.stage

ImplementsLifecycle == Lifecycle!LifecycleSpec

(* The group config becomes the target only for a rollout whose success is *)
(* durably recorded (finish persists before it promotes).                  *)
PromotedOnlyIfSucceeded == groupConfig = "target" => row.state = "succeeded"

Exposed == {a \in Agents : "target" \in {pin[a], effective[a]}}
CohortsUpTo(k) == UNION {canaryAgentsForStage(j) : j \in {i \in 0..LastStage : i <= k}}

(* Blast radius: however the engine is interrupted, the target never gets  *)
(* beyond the cohort of the stage after the recorded one.                  *)
BlastRadius == row.state # "succeeded" => Exposed \subseteq CohortsUpTo(row.stage + 1)

(* The recorded stage moves one step at a time and only, like success,     *)
(* while enough of the current cohort really run the target: the answer    *)
(* the convergence gate got has not gone stale when it is acted on.        *)
AdvanceOnlyConverged ==
    [][ \/ row'.stage # row.stage
        \/ row'.state = "succeeded" /\ row.state # "succeeded"
        => row'.stage <= row.stage + 1 /\ stageConverged(row.stage) ]_vars

(* No agent the row records as pushed is left pinned once the rollback is  *)
(* over, even if the rollout was aborted in the middle of an advance.      *)
RecordedCanaryReleased ==
    row.state = "rolled_back" /\ Quiet => \A a \in row.pushed : pin[a] = "none"

(* Success lasts: whatever single fault hits the engine afterwards (a      *)
(* crash before the promotion, a promotion or a cleanup that fails, agents *)
(* that move), the recorded canary agents still in the group end up on the *)
(* target for good.                                                        *)
SuccessLasts ==
    <>[](row.state = "succeeded" => \A a \in row.pushed \cap member : effective[a] = "target")

(* So does a rollback: the recorded canary agents still in the group end   *)
(* up on the previous config for good.                                     *)
RollbackLasts ==
    <>[](row.state = "rolled_back" => \A a \in row.pushed \cap member : effective[a] = "previous")

(* A rollout nobody pauses comes to an end, it succeeds or is rolled back, *)
(* even if its agents never report the target: past the convergence        *)
(* deadline the engine gives up (advanceOrCheck).                          *)
Settles == row.state = "pending" ~> row.state \in {"succeeded", "rolled_back", "paused"}

(* rollouts.md: rolled_back means "previous config was pushed back to      *)
(* every canary": once the rollback is over no agent still desires the     *)
(* target.                                                                 *)
EveryCanaryReverted ==
    row.state = "rolled_back" /\ Quiet => \A a \in Agents : resolveStoredConfig(a) # "target"

NoCommandYet == cmds = MaxCommands

(* The same for a rollout the engine aborted by itself (triggerAbort, then *)
(* rollback), as long as no operator has written the row: then no write of *)
(* the engine is refused and every agent it pushed to is recorded.         *)
UnattendedReverted == NoCommandYet => EveryCanaryReverted

(* engine.go, rollback: the cleanup removes the assignments "so each agent *)
(* resumes tracking the group config".  No agent at all stays pinned, if   *)
(* no operator has written the row.                                        *)
NoStuckPin ==
    NoCommandYet /\ row.state = "rolled_back" /\ Quiet => \A a \in Agents : pin[a] = "none"

(* A Resume needs a Pause before it, so two commands have been given.      *)
MayHaveResumed == cmds + 2 <= MaxCommands

(* rollouts.md: "Resume restarts the dwell clock."  A stage                *)
(* that was started or resumed less than its dwell ago is never left by    *)
(* the first write of an advance; it is left only by the retry of          *)
(* persistWithReconcile, for an advance that was decided before the Pause  *)
(* and the Resume: the reloaded row is in progress at the same stage, and  *)
(* its restarted clock is not looked at.                                   *)
DwellRestarted ==
    [][ row'.stage # row.stage =>
            \/ row.age # "fresh"
            \/ MayHaveResumed /\ \E e \in Engines : At(e, "retry") /\ eng[e].op = "advance" ]_vars

(* rollouts.md: in_progress is "actively advancing through stages".  The   *)
(* recorded stage of a rollout in progress has been delivered to its whole *)
(* cohort, or nothing of the rollout has: it was paused before it started, *)
(* and Resume put it in progress with no start().  It is never in between. *)
StageAllOrNothing ==
    row.state = "in_progress" =>
        \/ canaryAgentsForStage(row.stage) \subseteq row.pushed
        \/ MayHaveResumed /\ row.stage = 0 /\ row.pushed = {}
=============================================================================
