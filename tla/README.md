# Squadron: a TLA+ model of the control plane

Squadron is an OpAMP control plane: it keeps configurations for a fleet of
OpenTelemetry collectors and changes them by staged rollouts. The part of it that
can do damage is the one that decides which agents run which configuration, while
operators, several engine instances, the reconcile loops and failures all act on
the same rows. That part is modelled first. Around it are modelled the way a config
reaches an agent, the deploy runs, the queue telemetry passes through, and the audit
log with what is fanned out from it.

## Inventory

| Component | State it keeps | Operations | Talks to | What is hard | What makes it correct |
|---|---|---|---|---|---|
| Rollout engine, `internal/rollouts` | none of its own beyond the copy it is working on; the row in the store is the state | `tick` every 5 s: `process` → `start`, `advanceOrCheck`, `finish`, `triggerAbort`, `rollback` | store, agent service, OpAMP sender | side effects precede the write that records them; stale copies; two instances; crash between two writes | nobody runs the target ahead of its stage; decisions stand; rollouts end; success and rollback are permanent |
| Rollout service, `internal/services/rollout_service_impl.go` | the row | `Create`, `Pause`, `Resume`, `Abort`, `Approve`, `Reject`, `SetExcludeFromLearning`, `RollBack`, plans | store, audit | read-check-write races; order of legal calls | lifecycle; approval before execution |
| Store, `internal/storage/applicationstore` | rollouts with a version, approvals, configs by agent and by group | compare-and-set update, insert-or-ignore, latest config | — | version 0 writes are blind | no lost update |
| OpAMP server, config sender, reconcile loop, `internal/opamp` | one record per agent, status and staged config, in two indexes; who owns a connection; last delivered hash | `onMessage`, `onDisconnect`, `SendConfigToAgent`, `reconcileOnce` | store, agents | connections end late, messages get lost, instances restart, the registry is shared | agents converge to the stored config; who is connected is shown so |
| Plan engine and action steps | steps of a plan as rollout rows, action requests | promote, cancel, roll back, dispatch, poll | rollout service, action runner | multi-row updates that are not atomic; dispatch before persist | a failed plan starts nothing more; an action runs once |
| Telemetry worker pool, `internal/worker` | queue, byte budget | `Submit`, workers, `Stop` | telemetry store | wake-ups, shutdown racing submit | budget never exceeded, accepted items are processed |
| SIEM dispatcher, event broker | per-destination queues, subscribers | `Dispatch`, `reload`; `Publish`, `Close` | HTTP exporters, UI streams | full queues, reload and close racing delivery | no block, no send on a closed channel |
| Audit chain, `internal/audit/chain`, SQLite | hash-linked rows, high-water mark, checkpoints | append, retention, verify | store | an append is several statements; retention does not take the append lock; verify reads twice | one unbroken chain; alarms about an untouched log only in known cases; a lost row is reported |
| Deploy service, `internal/deploy` | rows that mirror workflows at a provider, expected hosts | `Trigger`, `SyncRun`, `SyncOpenRuns` | CI provider, store | the dispatch returns no id; whole-row writes of old copies; ignored errors; raw statuses of the provider; a page shared by all targets | a row claims only what its workflow did; runs that the poller gets to see settle |
| Alerting, automations, detectors | firing state, cooldowns | periodic evaluation | telemetry store, rollout service | debounce across restarts | one firing per episode |
| Discovery, IaC, connectors, proposer, API, UI, CLI | mirrors of external state | adapters | external APIs | I/O | out of scope |

The hazards, each at the line where it bites and with the properties that cover
it, are listed in `PROJECT.json`. What else the code does that a maintainer may want
to know is under Observations.

## Modules

* `RolloutEngine` — one rollout, its agents, any number of engines, operators and
  faults. Theorems in `RolloutEngineProofs`, instances in `MCRolloutEngine`.
* `RolloutLifecycle` — the state machine users see; `RolloutEngine`'s row is shown
  to implement it (`ImplementsLifecycle`, mapping `state`, `stage` to the fields of
  the stored row).
* `RolloutApproval` — the approval gate in front of `pending`. Theorems in
  `RolloutApprovalProofs`, instances in `MCRolloutApproval`.
* `RolloutPlan` — the rows of a multi-step plan, engines, the action requests, a
  runner, operators and faults. Theorems in `RolloutPlanProofs`, instances in
  `MCRolloutPlan`.
* `ConfigDelivery` — one agent, its connections, two or more server instances and the
  store they share. Theorem in `ConfigDeliveryProofs`, instance in `MCConfigDelivery`.
* `WorkerPool` — the telemetry queue. Theorems in `WorkerPoolProofs`, instance in
  `MCWorkerPool`.
* `AuditChain` — the audit log of one tenant. Theorems in `AuditChainProofs`, instance
  in `MCAuditChain`.
* `EventFanout` — what follows the durable row of an audit event: subscribers and SIEM
  destinations. Theorem in `EventFanoutProofs`, instance in `MCEventFanout`.
* `DeployRuns` — deploy runs and the workflows they mirror. Theorem in
  `DeployRunsProofs`.

`ConfigDelivery` is what `RolloutEngine`'s action `ReconcileAgent` stands for, and its
property `Converges` is what that action promises: the config the rows say in the end
is the one the agent runs. `EventFanout` starts where `AuditChain`'s `done` ends.

### RolloutEngine and the code

`row` is the rollout in the store: state, `CurrentStage`, `PushedAgentIDs`, whether
a blackout reason is set, and the version. `StageStartedAt` is abstracted to an age:
`unset`, `fresh` (dwell running), `dwelt`, `expired` (dwell plus convergence timeout
over). `pin` is the content of each agent's latest agent-scoped config row,
`groupConfig` that of the group's; the only contents that matter are the previous
and the target config. `effective` is what an agent runs and reports.

Each engine has a program counter over one pass of `process`: a step of the model
is one call of the store or one read of the fleet, so that operators, other
engines and agents may act between any two of them.

| Code | Actions |
|---|---|
| `tick`, `List` | `ListRollouts` |
| `applyBlackoutCheck` | `BlackoutBlocked`, `ClearBlackout` |
| `start` | `Start`, `ApplyStage`, `Persist`, `Reload`, `RetryPersist` |
| `advanceOrCheck` | `CriteriaAbort`, `Wait`, `ConvergenceTimeout`, `Advance`, `Finish` |
| `applyStage`, `writeDesiredStateForAgents`, `pushConfigToAgents` | `ApplyStage`, `ApplyStageFails` |
| `rollback` | `Rollback`, then the writes, then `DeletePins` |
| `persist`, `persistWithReconcile` | `Persist`, `Reload`, `RetryPersist` |
| `finalizeCanaryAssignments` | `CheckCoverage`, `PromoteTargetToGroupConfig`, `DeletePins` |
| `Pause`, `Resume`, `Abort`, `SetExcludeFromLearning` | the actions of the same name |
| reconcile loop | `ReconcileAgent` |

An operator command reads the row and writes it with the version it read; if the
row moved, the caller gets an error and nothing changes, so a command that takes
effect is one atomic step. The writes of per-agent rows within one
`writeDesiredStateForAgents` are one step with an arbitrary subset failing: the
rows of different agents do not interact. Setting the learning flag changes nothing the
engine reads but the version, in whatever state the rollout is. Drift, error rate and the SLO guard are
what they can answer, not how they are computed. Desired-state writing is on, as
`NewEngine` sets it. An agent that acknowledges a push reports it.

Faults are named: `store` (a call fails), `write` (a config row is not written or
deleted), `crash`, `churn` (agents move or are relabelled), `window` (a change
window is active), `drift`, `burn`. A run chooses which may happen and how many.

### RolloutApproval and the code

`Approve` is four steps: read the row (`Begin`), `RecordApproval`,
`CountApprovers`, `CheckRoles`, and the versioned `Write`; `Reject`, `Abort` and
`SetExcludeFromLearning` are a read and a versioned write. A write that finds another
version is refused and its caller told so; `refused` remembers that this happened to an
approval and nobody has asked for one since. Names are what a token or SSO emits; `Fold` is the
comparison `strings.EqualFold` makes. `EngineWrites` is what `RolloutEngine` does to
the state once it is pending.

### RolloutPlan and the code

A plan has no row of its own: it is the rollout rows that carry its id. `row` maps
the steps, and the rollback rollout that the backwards walk may create for each of
them, to what the plan logic reads of a rollout: state, version, plan membership
and index, request id, approval flag and whether there is a previous config. What
happens inside a rollout step is `RolloutEngine`'s subject; here it starts, then
succeeds or aborts. `req` is the table of action requests; `runner` is the runner's
batch, the request at hand and the in-memory set of requests it has answered;
`ran` counts executions and `flips` how often the learning flag of a pending action step
was set; both exist only for the properties. Setting the flag costs `FlagCost` commands of
the run's budget, which keeps the run small.

A process (an engine, or the API while it carries out a rejection) has a program
counter, the row it works on, its copy of it, and what is left of a walk. A step is
again one store call.

| Code | Actions |
|---|---|
| `tick`, `process`, `processActionStep` | `ListRollouts`, `Listed` |
| `start`, `finish`, `triggerAbort`, `rollback` | `Start`, `Finish`, `TriggerAbort`, `Finalize`, then `Persist` |
| `dispatchActionStep`, `Dispatch` | `DispatchActionStep`, `DispatchFails`, then `Persist` |
| `pollActionStep`, `GetStatus` | `PollActionStep`, `PollAgain` |
| `advancePlan`, `NextPlanStep` | `NextPlanStep`, `Promote` |
| `triggerActionStepAbort`, `Cancel` | `CancelRead`, `CancelWrite` |
| `CancelPlanFollowers` | `ListFollowers`, `CancelFollower`, `FollowersCancelled` |
| `RollBackPlanPredecessors`, `RollBack` | `ListPredecessors`, `CreateUndo`, `LinkUndo`, `GroupUndo`, `PredecessorsDone` |
| `Pause`, `Resume`, `Abort`, `Approve`, `Reject`, `SetExcludeFromLearning` | the actions of the same name |
| runner `tick`, `handleOne`, `postResult`; `HandlePostActionResult` | `FetchPending`, `HandleOne`, `PostResult`, `RunnerRestart` |
| the deadline the signer sets | `Expire` |

`CreatePlan` is represented by the rows it leaves behind: some prefix of the steps,
the later ones cancelled as far as the clean-up got if not all could be stored.
The two writes of a rollback rollout with version 0 (`LinkUndo`, `GroupUndo`)
overwrite whatever happened to the row since it was created, as they do in the
store.

### ConfigDelivery and the code

`desired` is what `resolveStoredConfig` answers; the other store variables are the
agent's row, its status, its row in the connection registry and its
`delivered_config_hash`. A connection `k` has at most one report on its way and a
queue of messages to the agent; `rec[k]` is the `Agent` record made for it. The registry
of instance `i` has two indexes: `live[i]` is the record `agentsById` holds, `fleet[i]` the
one `agentsByFleetId` leads to. Their critical sections are separate steps of the handler,
so a connection may be removed between the two. The agent itself is external: it reports,
applies what it is sent unless the config is one it rejects, and reconnects to any
instance.

| Code | Actions |
|---|---|
| `onMessage`: `FindOrCreateAgent`, `SetFleetId`, `UpdateStatus`, `persistAgent` | `FindOrCreateAgent`, `SetFleetId`, `StageOnConnect`, `ReplyTo` |
| `onDisconnect`, `RemoveConnection` | `Disconnect`, `RemoveConnection` |
| `reconcileOnce` with the registry's heartbeat | `Reconcile` |
| `HandleSendConfigToAgent` | `Assign` |
| `SendConfigToAgentWithContext`, `setCustomConfigWithTraceparent` | `Push`, `PushSend` |
| agent, network, process | `Connect`, `SendReport`, `Apply`, `Break`, `Restart` |

### WorkerPool and the code

An item names the `Submit` call that brings it. A step is one atomic operation or one
channel operation, so the compare-and-swap loop on the byte budget is two steps and a
release is two more (the counter, then the wake-up). A `select` with several ready
cases takes any of them.

| Code | Actions |
|---|---|
| `Submit` | `Submit`, `Load`, `Reserve`, `Woken`, `WaitTimeout`, `WaitShutdown`, `Enqueue`, `SendTimeout`, `SendShutdown` |
| `releaseBytes` | `ReturnBytes`, `WakeAfterUndo` (submitters), `FreeBytes`, `Wake` (workers) |
| `worker`, `processItem`, `writeWithRetry` | `Receive`, `ParseFail`, `WriteOk`, `WriteFail`, `BackoffOver`, `BackoffShutdown`, `Drain`, `Exit` |
| `Stop` | `Stop`, `StopDone`, `StopTimeout` |

### AuditChain and the code

`rows` are the rows of `audit_events`, `head` the high-water mark, `checkpoints` what
retention leaves behind. An append is `Stamp` (the timestamp, before the mutex),
`Lock`, `ReadNewest`, `Insert`, `PutHead`; any statement of it may fail
(`StatementFails`), and the process may stop between them (`Restart`, which may also
give it a key). `Prune` is the retention transaction. Verification is `VerifyRows`,
`VerifyHead`, `VerifyReturn`, with `Alarms` the checks of `VerifySealed` as a set.
`LoseRow` is damage from outside, one row at most. `overlap` remembers that two Record
calls were under way together. A hash is the tuple of what it
covers.

### EventFanout and the code

| Code | Actions |
|---|---|
| `services.Record` | `Store`, `Publish`, `Offer`, `Published`, `Dispatch` |
| `Subscribe`, `Subscription.Close`, the SSE handler | `Subscribe`, `Close`, `Unsubscribe`, `CloseChannel`, `Read` |
| `reload`, `shutdownAll` | `Load`, `BuildFails`, `Install`, `Sweep`, `ShutdownAll` |
| `worker.run`, `deliver` | `Take`, `Quit`, `ExportOk`, `ExportFails` |
| operators and the process | `Edit`, `Cancel` |

`Publish` holds the broker's read lock while it offers the event to each subscriber,
one step each; `Unsubscribe` needs the write lock and waits for it. `Dispatch` holds
the dispatcher's mutex and is one step.

### DeployRuns and the code

`job` is the provider's side: a dispatch is accepted, becomes a visible workflow some
time later, is queued or waiting, proceeds and ends (`Appear`, `Proceed`, `Complete`). Its
status goes into the row as the provider reports it: `waiting` stands for every value of
GitHub's that is neither `queued`, `in_progress` nor `completed`, and the poller never
lists it. `Trigger` is `Dispatch`, `Attach`, `CreateDeployRun`;
`SyncRun` reads (`SyncRead`, in `PollNext` and `HandleGetRun`), asks the provider
(`SyncAsk`) and writes every column of its copy (`Update`, with the host upserts whose
errors it ignores). `SyncOpenRuns` lists the open rows of one status
(`ListDeployRuns`) and syncs them one by one (`PollNext`). It lists the newest 50 rows of
all targets, so any number of this target's rows, the newest first, may find room
(`Pages`); what was left out is `poll.left`. Any call may fail, the
process may restart, and other dispatches of the same workflow happen.

## Runs

| Run | Instance | Shows |
|---|---|---|
| `operators` | 1 engine, 3 agents, stages 10/50/100 %, 3 commands, 2 faults of drift, burn, window | blast radius, convergence really holds at every advance, a stage is applied as a whole, recorded agents released, everybody reverted unless an operator wrote the row, and that the rollout ends although agents need not report (72,741 states) |
| `failover` | 2 engines, 2 stages, no previous config, 3 commands, 1 crash or store fault | versions make stale copies harmless; operators win; promotion only after success; the row implements the lifecycle; when a restarted dwell is cut short (739,158) |
| `single_fault` | the stages canary and site, by label, 2 commands, 1 fault of any kind, relabelling included | success and rollback are permanent (75,413) |
| `approval_gate` | 3 calls at once, 4 in all, 5 names, 2 approvals, a required role | nothing runs unauthorised, no quorum is lost in silence, decisions stand (266,666) |
| `plan` | rollout, action, rollout; 1 engine, 2 commands or one setting of the learning flag, 1 fault of any kind | order, turn of actions, how often one is executed, handling of a failure, end of the plan (1,883,881) |
| `config_delivery` | 2 instances, 2 connections one after the other, 2 configs and the empty one, a config the agent rejects, 1 assignment, restart or move | a staged config the agent does not run is known to be missing; no record is left behind in `agentsById`; an agent whose record is not shadowed converges, and is shown online under the right owner (1,102,988) |
| `worker_pool` | 3 payloads of 1, 2 and 3 bytes, 2 workers, 1 queue slot, budgets 0, 1 and 3, 1 retry | limits, exact accounting of bytes, no stranded waiter, accepted payloads handled, workers end |
| `audit_chain` | 4 events, 3 ticks, 1 failed statement or crash, 1 row lost from the middle | one chain, every false alarm has one of three causes, a hole is reported, acknowledged events are kept (1,790,573) |
| `event_fanout` | 2 events, 1 subscription of 1 slot, 1 destination, 2 worker goroutines, 2 attempts, 2 edits | no send on a closed channel, exact drop count, durable before heard, one worker per destination, everything ends |
| `deploy_runs` | 1 run with hosts and 1 foreign dispatch, the poller and 1 API request, 3 clock values, 1 fault | rows tell the truth, hosts registered only on success, no row the poller has room for stays queued or in progress (1,787,170) |

Three agents give percentages that round differently at every stage. The two label
stages are the canary agent and the site it belongs to, both by label, since `Create`
refuses a mixture of modes. Two engines and one reload are all that
`persistWithReconcile` distinguishes; three commands are enough for pause, resume, abort.
Three steps with an action in the middle have a predecessor to undo and a
follower to cancel; pause and resume around a dispatch take two commands. `RunsOnce`
is about one engine: two that overlap during a leader change may both dispatch a
step, and the model with two engines shows it. One setting of the learning flag is enough
for a second dispatch. Two connections are enough
for the end of the old one to be handled after the new one has registered, on the same
or on the other instance. With sizes 1, 2, 3 and a budget of 3 two payloads fit together
or the third alone, so that two submitters can wait on one wake-up and two can race for
the same bytes; a budget of 1 refuses two of the payloads outright. Four events leave
rows on both sides of a lost one after a prune. Two workers let the reload loop replace
one while it still delivers, and one slot makes both the subscription and the queue
overflow. Two syncs of one row are enough for a late write over a completed row, and
the foreign dispatch for attaching the wrong workflow.

Deadlock is checked for `audit_chain`, `config_delivery` and `deploy_runs`, which never
have to stop. Elsewhere it is not: a finished, paused or rejected rollout, an ended
plan, a stopped pool or dispatcher may stay as it is.

Two runs are expected to be violated. Each checks a sentence of the documentation that
`PROJECT.json` quotes under findings, and its counterexample is a schedule of the code.

* `abort_race`: "previous config was pushed back to every canary". An abort between the push of
  a stage and the write that records it leaves that stage's agents on the target. In
  `operators` the same promise is checked for as long as no operator has written the row
  (`UnattendedReverted`).
* `stale_index`: the reconcile loop "is the delivery guarantee". With three connections to
  one instance, a report handled while the connection of its record is removed enters the
  record in `agentsByFleetId` again, where it shadows the agent's new one; every push goes to
  the closed connection. In `config_delivery` the same promise is checked while no such
  record is in the way (`Converges`).

### Fairness

`RolloutEngine`: weak fairness of every engine's steps (the ticker fires every five
seconds and a pass always ends) and of the clock. That is all the run `operators` assumes
(`EngineSpec`): an agent may never run what it is given, and a rollout ends because
`advanceOrCheck` gives up on it. `single_fault`, whose properties are about where agents end
up, adds the reconciliation of every agent (a connected one is reconciled every thirty
seconds). None for operators or faults.
In `RolloutPlan` a tick lists every active row, so `ListRollouts` of each row is
strongly fair: an engine that returns to idle infinitely often takes up a row that is
active infinitely often. Deadlines come; the runner need not do anything, which is
why a plan has to end without it.

`WorkerPool`: goroutines that can run do, timers fire and writes return; nobody has to
submit or stop. `ConfigDelivery`: the agent keeps reconnecting, reporting and applying,
handlers and pushes run to their end, the reconcile loop ticks, and a broken connection
is noticed some time. `EventFanout`: calls under way, the reload pass and the workers
run on, and the loop's `select` cannot pass over a cancelled context for ever (strong
fairness of `ShutdownAll`); readers and operators need not act. `DeployRuns`: the poller
runs on, an accepted dispatch becomes a visible workflow (`Appear`) and that ends some time, be it by
a timeout (`Complete`); a request at the API may hang for ever.

## Proofs

The theorems hold for every value of the constants: every fleet, set of engines, list
of stages or steps, set of calls and every bound, unless a hypothesis is named. Each
rests on an inductive invariant. The shape of the argument is the same throughout: a
lemma says what any step may do to the shared state, another that what a process knows
survives such a step of somebody else, and then every action has to be checked for the
process that takes it only.

### The rollout engine

* `TypeCorrect`.
* `CopiesConsistent`: `SnapshotInv` says what each engine's copy has to do with the row.
  A copy with the current version is a copy of the row, an advance is at most one stage
  ahead, a reloaded copy still satisfies the closure that accepted it, and an engine past
  a successful finish faces a succeeded row. Without the per-phase parts it is not
  inductive, since a write is only harmless if the phase before it left the copy in step.
* `OperatorAlwaysWins` and `RowImplementsLifecycle` follow from it: every step changes
  the row by one lifecycle transition or not at all. `PromotionFollowsSuccess` comes from
  the phases of finish.
* `BlastRadiusBounded`, if agents do not change group or labels (`"churn"` not among the
  faults), because the cohorts are computed from the live fleet.

For the next four, `EngineMove` sums up what one engine's step does to its own state and
to the row, as one table that every action of the engine satisfies; the invariants are
then checked against the table.

* `StageApplied`: a current copy has the recorded pushed-set, and a copy that starts or
  enters a stage holds that stage's whole cohort (`AppliedInv`). Resume of a rollout paused
  while pending gives in_progress with nothing applied; that is the other half of
  `StageAllOrNothing`, and the invariant shows that there is nothing in between. It needs a
  stable fleet and config rows that can be written (an agent whose row is not written is
  not recorded).
* `DwellIsKept`, with no hypothesis: an advance is decided only on a stage that has dwelt,
  and its first write is refused if the stage was restarted since (`DwellInv`). What remains
  is the retry: Pause and Resume restart the clock while an engine is on its way to the next
  stage, and its refused write is repeated on the reloaded row, whose clock it does not look
  at.
* `GateNeverStale`: the gate is evaluated some steps before the write that passes it. It
  is still open then, because an agent that runs the target is pinned to it
  (`TargetPinned`), and pins are taken away only once the rollout is over (`GateInv`).
  A stable fleet and writable config rows are needed.
* `CanariesReleased`, for one engine that neither crashes nor fails to write: in a
  rolled-back rollout the cleanup is still to come, for the very set the row records, or
  it is over (`ReleaseInv`). A second engine may apply a stage late, and a crash between
  the write and the cleanup leaves the pins.
* `NothingStaysPinned` and `RollbackReachesEveryone`, for one engine that stays up, a
  stable fleet and a store that does not fail (`Faultless`): as long as no operator has
  written the row, every pinned agent is in the recorded set or in the set about to be
  recorded (`SoloInv`). An abort in between breaks it, which is
  what the run `abort_race` shows.

### Approval

* `ApprovalTypeCorrect`; `OnlyAuthorisedRuns`, from an invariant that says what a call at
  each of its steps has established about the approval log, which only grows;
  `DecisionsStand` from the versions.
* `NoQuorumLost`, unless a call crashed or a role lookup failed: if enough approvals are on
  record and the rollout still waits, one of the calls that recorded them has yet to count,
  check the roles or write (`QuorumInv`), and the last to record counts after everyone. Its
  write is refused only if the row moved, by a decision or by the learning flag; in the
  second case the approver was told, which is what `refused` records, and the next Approve
  by anybody starts over.

### The plan

* `PlanTypeCorrect`, `StepsInOrder`, `ActionsRunInOrder`, `PlanCopiesConsistent`, with any
  number of engines, commands and faults. The inductive invariant is `TypeOK`,
  `PlanOrder`, `ActionsInOrder` and `PlanCopies` together. Every step leaves the row of a
  plan step alone or moves it (`Moved`): the version goes up, a succeeded row is never
  touched, and a row becomes startable only if the steps before it have succeeded.
  `PlanCopies` is what makes that true of writes based on old reads: a copy whose version
  is still current is of a row that is still listed, queued or in work. It is stable
  under moves (`CopyStable`).
* `SuccessMeansExecuted`: the success of an action step is traced back (`RanInv`) from
  the row to the copy that wrote it, to the request it polled, to the result the runner
  posted, to the execution.
* `UndoesHaveAReason`: a failed step stays failed, only its finalisation is still
  written, so the reason the walk started from is there when it creates a rollback
  rollout (`FailInv`).
* `FailureIsHandled`, with any number of engines, as long as no command and no fault
  comes in: the failed step is the only one, and the engine whose write failed it is the
  only one that walks the plan for it. `Handling` says how far that engine is: before the
  predecessors there is no rollback rollout, and its list is exactly the queued steps;
  among them, at a point c of its way down, its list is exactly the rollout steps below
  c, its counter is the number of those from c on, and each of these has its place in the
  plan. Other engines meanwhile finalise the failed step and carry out the rollback
  rollouts; they leave a row's place in the plan alone because their copies are current
  or refused, and if such a rollback fails in turn, its own walks find nothing queued and
  nothing to undo.
* `ExecutedAtMostOnce`, for one engine and while no fault has happened: at most one request
  per action step, and one more per setting of its learning flag while it was pending
  (`OnceInv`). The request is stored before the row records it; while the row still says
  pending, the engine that stored it is on its way to write it, and of the commands only
  the learning flag moves the version of a pending row and leaves it pending. Two engines may both dispatch, and a restarted runner forgets what it has
  answered.

### Worker pool, audit log, fan-out, delivery, deploy

* `PoolSafe`: that the budget holds needs one thing more than `PoolInv`, which the proof
  adds: a value a submitter has loaded and is about to compare-and-swap passed the check,
  so a swap that succeeds leaves the counter within the budget.
* `NoBytesLeaked`: the counter is the sum over the items that hold a reservation, and
  every action adds or removes one item of that set along with its bytes. That the
  community modules' sum exists and obeys its recursion for every finite set would be an
  induction over data; it is shown by a minimal counterexample instead (`TotalExists`,
  `TotalRecursion`).
* `NoWaiterStranded`: who waits has a payload that fits an empty pool (`WaitFits`), and as
  long as anybody waits there is a wake-up in the channel, a holder of bytes, a process
  about to wake others, or a submitter about to look again (`Hope`). A wake-up that the
  one-slot channel drops is dropped because one is there.
* `ChainStaysIntact`, `NothingRecordedVanishes`, `NoFalseEditReport`: the inductive
  invariant says of the one append in the mutex that the row it read is still the newest,
  or that retention has deleted everything and left a checkpoint for just that row;
  verification keeps a consistent snapshot because an insert and a prune are each atomic
  to a reader.
* `VerdictsAreExplained` adds the alarms that are raised without damage, and the damaged log.
  As long as no two Record calls have overlapped, sequence and time agree (`TimeInv`), so
  backdating is reported only after an overlap. Of the rest: a chain with a single hole stays one while rows
  of both sides remain, so a verification that read it meets the hole; and the mark
  agrees with the newest row except while an append is between its insert and the mark,
  so it can contradict the rows read only if something was appended or everything was
  deleted in between.
* `FanoutHolds`: the broker's half (`BrokerInv`: an event is offered only after its row,
  and what a subscription was offered is, without repetition, what it has received and
  buffered plus what was counted as dropped) and the dispatcher's half (`SiemInv`: what a
  worker holds or has handled is durable, a destination's worker is its own, and a
  worker that is not installed has been told to stop) are inductive separately; they share the stored rows,
  which only grow.
* `DeliveryHolds`: `Wires` says that connections are used in their order and which
  records their handlers, the two indexes and a push work on; `Holders` and `Fleets` say what
  a handler between its two critical sections, and the index by fleet id, may still hold of a
  connection that has ended. That nothing outlives its connection is claimed of `agentsById`
  only. `Heard` says of an agent that
  is served by the record of its own connection that a config is on its way to it, or
  that it has applied one and has told the record, or is about to. Together they make a
  push that finds its config staged already safe to leave out. `NoneAssumption` (a nil
  pointer is no record) is the one assumption added for it.
* `RowsTellTheTruth`: a row can be overwritten by a copy read long before, so the
  inductive invariant claims of every copy under way, in `Trigger` and in `SyncRun`, what
  `DeployInv` claims of the rows; it is preserved because workflows only move forward
  (`Forward`), and a late write is as honest as the row it overwrites.

The assumptions are the `ASSUME`s of the modules (finite set of numbered agents, at
least one stage or step, natural bounds) and the hypotheses named above. Every
invariant and every action property that is not a liveness property and that a passing
run checks is now also a theorem, under those hypotheses. Liveness (`Settles`,
`SuccessLasts`, `RollbackLasts`, `PlanEnds`, `AcceptedIsHandled`, `Converges`,
`Registered`, `FanoutEnds`, `RunsSettle`) is out of the prover's reach and is only
model-checked, and so is everything that depends on the fairness stated above;
`ReconcileDelivers` is violated.

## Observations

What the code does that the models show or that was read on the way; where a property
makes an exception for it, the property is named:

* Rollouts. Aborting a rollout that recorded no push yet pins the first cohort to the
  previous config for ever, since only recorded agents are released. Pause and Resume
  of a pending rollout give in_progress with no stage applied
  (rollout_service_impl.go:1313; `StageAllOrNothing`). An advance that Pause and Resume
  overtook is retried without a look at the restarted dwell clock (`DwellRestarted`, against
  "Resume restarts the dwell clock" in rollouts.md). A config row that is not written on the last stage is
  not retried (convergence.go:86).
* Plans. An operator's abort of a step leaves the queued followers and a pending action
  request as they are (rollout_service_impl.go:1156). Pausing and resuming a pending
  action step makes it poll a request that does not exist (engine_action_steps.go:142).
  A follower stored after step 0 has failed is not cancelled
  (rollout_service_impl.go:521). Two engines that overlap during a leader change may
  dispatch a step twice, and so may one engine if the learning flag is set between the
  dispatch and the write of the step (engine_action_steps.go:103; `RunsOnce`). A step's snippet becomes a config row of version 1
  (rollout_service_impl.go:949). The link and grouping of an undo rollout are written
  with version 0 (rollout_service_impl.go:1273).
* Approvals. One person under two spellings counts as two approvers (sqlite.go:4474
  against rollout_service_impl.go:1393). Setting the learning flag while the last approval is
  under way refuses its write: the quorum is on record and the rollout waits until somebody
  approves again (rollout_service_impl.go:1730; `QuorumIsActedOn`).
* OpAMP. The connect path answers the first report of every new record with the empty
  config (server.go:650 asks a status that is still nil, against reconciler.go:57); the
  reconcile loop puts it right. `appliedConfigHash` reads without the mutex
  (server.go:913). `SendConfig`'s notification fires on the next status update, whatever
  it reports (agent_config.go:12). A late `onDisconnect` shows a connected agent offline
  until its next report. A dropped record can come back in the index by fleet id
  (agents.go:71; `stale_index`).
* Worker pool. An item enqueued after the last worker has left is accepted and never
  processed (pool.go:224). A waiter may go on waiting although its payload would fit.
* Audit. A keyed log that retention has emptied reports a truncated tail (against
  retention.go:130). The loss of the oldest rows looks like retention; an append after a
  lost tail renews the mark. Timestamps are taken before the lock, so that an untouched
  log can show a time regression, and an append between verification's two reads a
  truncation. `AlarmsExplained` says that there are no other false alarms.
* SIEM. An event given up after the last attempt is not counted (dispatcher.go:241
  against line 24); what is queued when a worker is stopped is lost.
* Deploy. The completion webhook never fires: `wasOpen` is computed from the new status
  (service.go:495, against docs/deploy.md:238). A run may attach another dispatch's
  workflow. A `Trigger` that attaches a finished workflow stores a completed row without
  a conclusion, so its hosts are never registered (service.go:251). Failed host upserts
  are not repeated (service.go:502). A dispatch whose row cannot be stored runs
  unrecorded (service.go:253). The poller sees the newest 50 rows of the statuses queued
  and in_progress only (service.go:612): a row the page never has room for, and one stored
  as waiting, pending or requested (github.go:209), is not synced again unless it is looked
  at through the API (`RunsSettle`). Rows of a deleted target stay open.
* Automations and alerting. The cooldown is reset on recovery (automations/evaluator.go:202,
  against line 237); what is firing is kept in memory and forgotten at a restart
  (alerting.go:230).

## Not modelled

Webhooks, traces, log lines and audit records of the rollout components (no state flows
back); how drift, error rate and SLO burn are computed; tenants; the wire protocol.

Within the modelled parts: `ConfigDelivery` leaves out sequence-number gaps, a changing
group, and several agents or pushes at once; one report is under way at a time.
`AuditChain` is the SQLite store, with a key that is never withdrawn. `DeployRuns` has
one target, whose rows share the poller's page with those of others, registers a run's hosts
as a unit and lets workflows end only once; the completion webhook is left out. In
`RolloutEngine` drift counts against the drift criterion and does not by itself change what
an agent runs. `EventFanout` leaves out filters of subscribers and the
destinations' service.

The components listed as not modelled in `PROJECT.json`, with reasons: discovery, IaC,
connectors, the proposer, ingest, query, HTTP, CLI and user interface are adapters, data
mapping and rendering, and are by far the larger part of the repository's lines;
detectors, alerting, automations and the cutover are small stateful parts that were read
and come next. The map therefore covers a small share of all lines: the parts in which
several actors share state and that were judged to matter most.

## Plan

1. `RolloutEngine`, `RolloutLifecycle`, `RolloutApproval`, `RolloutPlan`: done.
2. `WorkerPool`, `AuditChain`, `ConfigDelivery`, `EventFanout`, `DeployRuns`: done.
3. Theorems for the safety properties of all of them: done. What the prover can still
   add: the steps of `SuccessLasts` and `RollbackLasts` that need no fairness, and weaker
   hypotheses where a theorem names some (several engines in `CanariesReleased`).
4. Alerting and automations: firing state and cooldown across restarts.
5. `RolloutPlan`, continued: `CreatePlan` step by step beside a running engine, an
   operator's own `RollBack`; each step's row as a refinement of `RolloutLifecycle`.
6. `PlanConfigs`: the configs that `materializePlanStepConfig` stores for the group,
   the versions the reconcile loop compares and the previous config a rollback goes
   back to.
