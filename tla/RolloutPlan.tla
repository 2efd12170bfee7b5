----------------------------- MODULE RolloutPlan -----------------------------
(***************************************************************************)
(* A multi-step plan: rollouts and actions that run one after the other.   *)
(*                                                                         *)
(* A plan is nothing but rows of the rollout table that share a plan id.   *)
(* The engine moves the row it works on and then, in further store calls,  *)
(* the rest of the plan: it promotes the next step, cancels the followers  *)
(* of a failed step and creates rollback rollouts for its predecessors.    *)
(* An action step is dispatched as a request that a runner polls, executes *)
(* and answers.  Operators act on any row in between.  What happens inside *)
(* one rollout is RolloutEngine's subject; here it starts, succeeds or     *)
(* aborts, and the reload of persistWithReconcile is just another pass.    *)
(***************************************************************************)
EXTENDS Integers, Sequences, FiniteSets

CONSTANTS
    Kinds,       \* the kind of each step: a sequence of "rollout" and "action"
    Engines,     \* engine instances
    Api,         \* the API process that carries out a rejection
    Commands,    \* operator commands that may be given
    Faults,      \* kinds of faults that may happen
    MaxCommands, \* bound: number of operator commands
    FlagCost,    \* bound: what setting the learning flag takes out of that number
    MaxFaults    \* bound: number of faults

AllCommands == {"pause", "resume", "abort", "approve", "reject", "exclude"}

(* "store": a store call fails; "crash": an engine dies; "dispatch": a     *)
(* request is refused; "post": a result is lost on the way; "restart": the *)
(* runner restarts.                                                        *)
AllFaults == {"store", "crash", "dispatch", "post", "restart"}

ASSUME KindsAssumption == Kinds \in Seq({"rollout", "action"}) /\ Len(Kinds) > 0
ASSUME ProcsAssumption == Api \notin Engines
ASSUME PlanBounds == MaxCommands \in Nat /\ MaxFaults \in Nat /\ FlagCost \in Nat \ {0}

VARIABLES
    row,    \* the rollout table
    proc,   \* per process: where it is and what it has read
    req,    \* the action requests, in the order of their creation
    runner, \* the runner: its batch, the request at hand, and the ids it has seen
    ran,    \* per step: how often its action has been executed
    flips,  \* per step: how often its row was flagged while it was pending
    cmds,   \* operator commands left
    faults  \* faults left

vars == <<row, proc, req, runner, ran, flips, cmds, faults>>
agentside == <<runner, ran, flips>>

-----------------------------------------------------------------------------
(* The table: the steps of the plan, and the rollback rollout that the     *)
(* backwards walk creates for a step.                                      *)

Steps == 0..(Len(Kinds) - 1)
Rows == {"step", "undo"} \X Steps
Step(k) == <<"step", k>>
Undo(k) == <<"undo", k>>
Kind(i) == IF i[1] = "undo" THEN "rollout" ELSE Kinds[i[2] + 1]

States == {"absent", "pending_approval", "pending", "queued", "in_progress", "paused",
           "succeeded", "aborted", "rolled_back", "rejected", "cancelled"}

(* plan, index: PlanID set, PlanStepIndex; request: 0 for none; gated:     *)
(* RequireApproval; previous: PreviousConfigID set.                        *)
RowRec == [state: States, version: Nat, plan: BOOLEAN, index: Int,
           request: Nat, gated: BOOLEAN, previous: BOOLEAN]

NewRow(state, version, plan, index, gated, previous) ==
    [state |-> state, version |-> version, plan |-> plan, index |-> index,
     request |-> 0, gated |-> gated, previous |-> previous]

Absent == NewRow("absent", 0, FALSE, 0, FALSE, FALSE)

PCs == {"idle", "listed", "persist", "next", "promote", "cancel_read", "cancel_write",
        "list_followers", "followers", "list_predecessors", "predecessors", "link", "group"}

(* id, r: the row being worked on and the copy of it; todo: what is left   *)
(* of a walk, ids with the version listed; walked: rows a walk has done.   *)
ProcRec == [pc: PCs, id: Rows, r: RowRec, todo: SUBSET (Rows \X Nat), walked: Nat]

Procs == Engines \cup {Api}
Local(pc, id, r, todo, walked) ==
    [pc |-> pc, id |-> id, r |-> r, todo |-> todo, walked |-> walked]
Idle == Local("idle", Step(0), Absent, {}, 0)

ReqRec == [step: Steps, status: {"pending", "success", "failure", "denied"}, expired: BOOLEAN]
Results == {"success", "failure", "denied"}

(* Mutant: only rollout steps are queued. *)
CreatePlanActionPending(m, cleaned, gate, first) ==
    [i \in Rows |->
        IF i[1] = "undo" \/ i[2] >= m THEN Absent
        ELSE NewRow(IF i[2] = 0 \/ Kind(i) = "action" THEN "pending" ELSE "queued",
                    1, TRUE, i[2], FALSE, i[2] >= first)]

(* What CreatePlan leaves behind: m of the steps are stored; when one of   *)
(* them fails the queued ones before it are cancelled, as far as that      *)
(* works.  From step first on the group has a config to go back to.        *)
CreatePlan(m, cleaned, gate, first) ==
    [i \in Rows |->
        IF i[1] = "undo" \/ i[2] >= m THEN Absent
        ELSE LET previous == i[2] >= first /\ Kind(i) = "rollout" IN
             IF i[2] = 0
             THEN NewRow(IF gate THEN "pending_approval" ELSE "pending", 1, TRUE, 0, gate, previous)
             ELSE IF m < Len(Kinds) /\ i[2] \in cleaned
             THEN NewRow("cancelled", 2, TRUE, i[2], FALSE, previous)
             ELSE NewRow("queued", 1, TRUE, i[2], FALSE, previous)]

Init ==
    /\ \E m \in 1..Len(Kinds) : \E cleaned \in SUBSET Steps :
          \E gate \in BOOLEAN : \E first \in 0..Len(Kinds) :
             row = CreatePlan(m, cleaned, gate, first)
    /\ proc = [p \in Procs |-> Idle]
    /\ req = <<>>
    /\ runner = [batch |-> {}, at |-> 0, result |-> "denied", seen |-> {}]
    /\ ran = [k \in Steps |-> 0]
    /\ flips = [k \in Steps |-> 0]
    /\ cmds = MaxCommands
    /\ faults = MaxFaults

-----------------------------------------------------------------------------
Fault(kind) == kind \in Faults /\ faults > 0 /\ faults' = faults - 1

At(p, pc) == proc[p].pc = pc
Goto(p, pc, id, r) == proc' = [proc EXCEPT ![p] = Local(pc, id, r, {}, 0)]
Return(p) == proc' = [proc EXCEPT ![p] = Idle]

(* UpdateRollout with a loaded version. *)
UpdateRollout(i, r) ==
    /\ r.version = row[i].version
    /\ row' = [row EXCEPT ![i] = [r EXCEPT !.version = @ + 1]]

(* UpdateRollout with version 0: the last write wins. *)
Overwrite(i, r) == row' = [row EXCEPT ![i] = [r EXCEPT !.version = row[i].version + 1]]

-----------------------------------------------------------------------------
(* Engine: one pass over one row. *)

ListRollouts(p, i) ==
    /\ At(p, "idle")
    /\ row[i].state \in {"pending", "in_progress", "aborted"}
    /\ Goto(p, "listed", i, row[i])
    /\ UNCHANGED <<row, req, agentside, cmds, faults>>

Listed(p, kind, state) ==
    At(p, "listed") /\ Kind(proc[p].id) = kind /\ proc[p].r.state = state

(* The pass has made up its mind: write the row. *)
Decide(p, state) ==
    /\ Goto(p, "persist", proc[p].id, [proc[p].r EXCEPT !.state = state])
    /\ UNCHANGED <<row, req, agentside, cmds>>

Start(p) == Listed(p, "rollout", "pending") /\ Decide(p, "in_progress") /\ UNCHANGED faults

Finish(p) == Listed(p, "rollout", "in_progress") /\ Decide(p, "succeeded") /\ UNCHANGED faults

TriggerAbort(p) == Listed(p, "rollout", "in_progress") /\ Decide(p, "aborted") /\ UNCHANGED faults

(* rollback, finalizeAbortedActionStep. *)
Finalize(p) ==
    /\ Listed(p, Kind(proc[p].id), "aborted")
    /\ Decide(p, "rolled_back")
    /\ UNCHANGED faults

(* dispatchActionStep: the request is stored before the row records it. *)
DispatchActionStep(p) ==
    LET i == proc[p].id IN
    /\ Listed(p, "action", "pending")
    /\ req' = Append(req, [step |-> i[2], status |-> "pending", expired |-> FALSE])
    /\ Goto(p, "persist", i,
            [proc[p].r EXCEPT !.state = "in_progress", !.request = Len(req) + 1])
    /\ UNCHANGED <<row, agentside, cmds, faults>>

DispatchFails(p) ==
    Listed(p, "action", "pending") /\ Fault("dispatch") /\ Decide(p, "aborted")

(* Mutant: a request past its deadline counts as done. *)
VerdictOnExpiry(q) ==
    CASE q.status = "success" \/ q.expired          -> "succeeded"
      [] q.status \in {"failure", "denied"}         -> "aborted"
      [] OTHER                                      -> "in_progress"

(* Mutant: a request nobody answers is waited for. *)
VerdictNoExpiry(q) ==
    CASE q.status = "success"                       -> "succeeded"
      [] q.status \in {"failure", "denied"}         -> "aborted"
      [] OTHER                                      -> "in_progress"

(* What the state of the request makes of the step. *)
Verdict(q) ==
    CASE q.status = "success"                       -> "succeeded"
      [] q.status \in {"failure", "denied"}         -> "aborted"
      [] q.status = "pending" /\ q.expired          -> "aborted"
      [] OTHER                                      -> "in_progress"

(* pollActionStep: a step without a request, one whose request is still    *)
(* open, and a failed read wait for the next tick.                         *)
PollActionStep(p) ==
    LET q == proc[p].r.request IN
    /\ Listed(p, "action", "in_progress")
    /\ q # 0 /\ Verdict(req[q]) # "in_progress"
    /\ Decide(p, Verdict(req[q]))
    /\ UNCHANGED faults

PollAgain(p) ==
    LET q == proc[p].r.request IN
    /\ Listed(p, "action", "in_progress")
    /\ \/ q = 0 /\ UNCHANGED faults
       \/ q # 0 /\ Verdict(req[q]) = "in_progress" /\ UNCHANGED faults
       \/ q # 0 /\ Fault("store")
    /\ Return(p)
    /\ UNCHANGED <<row, req, agentside, cmds>>

(* Mutant: a step that has started lets the next one start. *)
AfterPersistStarts(p, r) ==
    CASE r.plan /\ r.state \in {"succeeded", "in_progress"} -> Goto(p, "next", proc[p].id, r)
      [] r.plan /\ r.state = "aborted" -> Goto(p, "list_followers", proc[p].id, r)
      [] OTHER -> Return(p)

(* finish and finishActionStep go on to advancePlan, triggerAbort and      *)
(* triggerActionStepAbort to the walks; the others are done.               *)
AfterPersist(p, r) ==
    CASE r.plan /\ r.state = "succeeded" -> Goto(p, "next", proc[p].id, r)
      [] r.plan /\ r.state = "aborted" /\ r.request # 0 -> Goto(p, "cancel_read", proc[p].id, r)
      [] r.plan /\ r.state = "aborted" /\ r.request = 0 -> Goto(p, "list_followers", proc[p].id, r)
      [] OTHER -> Return(p)

(* The write, refused if anybody wrote the row since it was listed. *)
Persist(p) ==
    LET r == proc[p].r
        i == proc[p].id
    IN
    /\ At(p, "persist")
    /\ \/ UpdateRollout(i, r) /\ AfterPersist(p, r) /\ UNCHANGED faults
       \/ r.version # row[i].version /\ Return(p) /\ UNCHANGED <<row, faults>>
       \/ Fault("store") /\ Return(p) /\ UNCHANGED row
    /\ UNCHANGED <<req, agentside, cmds>>

-----------------------------------------------------------------------------
(* advancePlan. *)

InPlan(i) == row[i].state # "absent" /\ row[i].plan

(* Mutant: the next step is promoted whatever its state. *)
NextPlanStepAnyState(p) ==
    LET next == {i \in Rows : InPlan(i) /\ row[i].index = proc[p].r.index + 1} IN
    /\ At(p, "next")
    /\ \/ \E i \in next : Goto(p, "promote", i, [row[i] EXCEPT !.state = "pending"])
       \/ next = {} /\ Return(p)
    /\ UNCHANGED <<row, req, agentside, cmds, faults>>

(* NextPlanStep: only a queued next step is promoted. *)
NextPlanStep(p) ==
    LET next == {i \in Rows : InPlan(i) /\ row[i].index = proc[p].r.index + 1} IN
    /\ At(p, "next")
    /\ \/ \E i \in next :
             /\ IF row[i].state = "queued"
                THEN Goto(p, "promote", i, [row[i] EXCEPT !.state = "pending"])
                ELSE Return(p)
             /\ UNCHANGED faults
       \/ next = {} /\ Return(p) /\ UNCHANGED faults
       \/ Fault("store") /\ Return(p)
    /\ UNCHANGED <<row, req, agentside, cmds>>

Promote(p) ==
    LET r == proc[p].r
        i == proc[p].id
    IN
    /\ At(p, "promote")
    /\ \/ UpdateRollout(i, r) /\ UNCHANGED faults
       \/ r.version # row[i].version /\ UNCHANGED <<row, faults>>
       \/ Fault("store") /\ UNCHANGED row
    /\ Return(p)
    /\ UNCHANGED <<req, agentside, cmds>>

-----------------------------------------------------------------------------
(* The walks of a failed step. *)

(* Cancel reads the request and denies it if it is open; the write does    *)
(* not look again.                                                         *)
CancelRead(p) ==
    LET q == proc[p].r.request IN
    /\ At(p, "cancel_read")
    /\ \/ /\ Goto(p, IF req[q].status = "pending" THEN "cancel_write" ELSE "list_followers",
                  proc[p].id, proc[p].r)
          /\ UNCHANGED faults
       \/ Fault("store") /\ Goto(p, "list_followers", proc[p].id, proc[p].r)
    /\ UNCHANGED <<row, req, agentside, cmds>>

CancelWrite(p) ==
    LET q == proc[p].r.request IN
    /\ At(p, "cancel_write")
    /\ \/ req' = [req EXCEPT ![q].status = "denied"] /\ UNCHANGED faults
       \/ Fault("store") /\ UNCHANGED req
    /\ Goto(p, "list_followers", proc[p].id, proc[p].r)
    /\ UNCHANGED <<row, agentside, cmds>>

Walk(p, pc, S) ==
    proc' = [proc EXCEPT ![p] = Local(pc, proc[p].id, proc[p].r,
                                      {<<i, row[i].version>> : i \in S}, 0)]

(* The API process is done; the engine goes on to the predecessors. *)
FollowersDone(p) ==
    IF p = Api THEN Return(p) ELSE Goto(p, "list_predecessors", proc[p].id, proc[p].r)

(* Mutant: the walk misses the next step. *)
ListFollowersSkipsOne(p) ==
    /\ At(p, "list_followers")
    /\ \/ /\ Walk(p, "followers",
                  {i \in Rows : InPlan(i) /\ row[i].index > proc[p].r.index + 1
                                          /\ row[i].state = "queued"})
          /\ UNCHANGED faults
       \/ Fault("store") /\ FollowersDone(p)
    /\ UNCHANGED <<row, req, agentside, cmds>>

(* CancelPlanFollowers: the queued steps after the failed one. *)
ListFollowers(p) ==
    /\ At(p, "list_followers")
    /\ \/ /\ Walk(p, "followers",
                  {i \in Rows : InPlan(i) /\ row[i].index > proc[p].r.index
                                          /\ row[i].state = "queued"})
          /\ UNCHANGED faults
       \/ Fault("store") /\ FollowersDone(p)
    /\ UNCHANGED <<row, req, agentside, cmds>>

(* One follower; the first refused write ends the walk. *)
CancelFollower(p) ==
    /\ At(p, "followers")
    /\ \E t \in proc[p].todo :
          LET i == t[1]
              r == [row[i] EXCEPT !.state = "cancelled", !.version = t[2]]
          IN
          \/ /\ UpdateRollout(i, r)
             /\ proc' = [proc EXCEPT ![p].todo = @ \ {t}]
             /\ UNCHANGED faults
          \/ r.version # row[i].version /\ FollowersDone(p) /\ UNCHANGED <<row, faults>>
          \/ Fault("store") /\ FollowersDone(p) /\ UNCHANGED row
    /\ UNCHANGED <<req, agentside, cmds>>

FollowersCancelled(p) ==
    /\ At(p, "followers") /\ proc[p].todo = {}
    /\ FollowersDone(p)
    /\ UNCHANGED <<row, req, agentside, cmds, faults>>

(* Mutant: every rollout step before the failed one, whatever its state. *)
ListPredecessorsAnyState(p) ==
    /\ At(p, "list_predecessors")
    /\ Walk(p, "predecessors",
            {i \in Rows : InPlan(i) /\ row[i].index \in 0..proc[p].r.index /\ Kind(i) = "rollout"})
    /\ UNCHANGED <<row, req, agentside, cmds, faults>>

(* RollBackPlanPredecessors: the succeeded rollout steps before it. *)
ListPredecessors(p) ==
    /\ At(p, "list_predecessors")
    /\ \/ /\ Walk(p, "predecessors",
                  {i \in Rows : InPlan(i) /\ row[i].index \in 0..(proc[p].r.index - 1)
                                /\ row[i].state = "succeeded" /\ Kind(i) = "rollout"})
          /\ UNCHANGED faults
       \/ Fault("store") /\ Return(p)
    /\ UNCHANGED <<row, req, agentside, cmds>>

SkipUndo(p, t) ==
    proc' = [proc EXCEPT ![p].todo = @ \ {t}, ![p].walked = @ + 1]

(* RollBack for the last step left: it has nothing to go back to, Create   *)
(* is refused, or there is a new rollout, which needs approval if its      *)
(* source did or the group asks for it.                                    *)
CreateUndo(p) ==
    /\ At(p, "predecessors")
    /\ \E t \in proc[p].todo :
          LET k == t[1][2] IN
          /\ \A u \in proc[p].todo : u[1][2] <= k
          /\ \/ /\ row[Step(k)].previous
                /\ \E gate \in BOOLEAN :
                      LET r == NewRow(IF gate THEN "pending_approval" ELSE "pending",
                                      1, FALSE, 0, gate, TRUE)
                      IN
                      /\ row[Step(k)].gated => gate
                      /\ row' = [row EXCEPT ![Undo(k)] = r]
                      /\ proc' = [proc EXCEPT ![p] = Local("link", Undo(k), r, proc[p].todo \ {t},
                                                           proc[p].walked + 1)]
                /\ UNCHANGED faults
             \/ ~row[Step(k)].previous /\ SkipUndo(p, t) /\ UNCHANGED <<row, faults>>
             \/ Fault("store") /\ SkipUndo(p, t) /\ UNCHANGED row
    /\ UNCHANGED <<req, agentside, cmds>>

NextUndo(p) == proc' = [proc EXCEPT ![p].pc = "predecessors"]

(* RollBack stamps RolledBackFromID on the copy that Create returned. *)
LinkUndo(p) ==
    /\ At(p, "link")
    /\ \/ /\ Overwrite(proc[p].id, proc[p].r)
          /\ proc' = [proc EXCEPT ![p].pc = "group"]
          /\ UNCHANGED faults
       \/ Fault("store") /\ NextUndo(p) /\ UNCHANGED row
    /\ UNCHANGED <<req, agentside, cmds>>

(* The walk stamps the plan and the negative index on the same copy. *)
GroupUndo(p) ==
    /\ At(p, "group")
    /\ \/ /\ Overwrite(proc[p].id, [proc[p].r EXCEPT !.plan = TRUE, !.index = -proc[p].walked])
          /\ UNCHANGED faults
       \/ Fault("store") /\ UNCHANGED row
    /\ NextUndo(p)
    /\ UNCHANGED <<req, agentside, cmds>>

PredecessorsDone(p) ==
    /\ At(p, "predecessors") /\ proc[p].todo = {}
    /\ Return(p)
    /\ UNCHANGED <<row, req, agentside, cmds, faults>>

Pass(p) ==
    \/ Start(p) \/ Finish(p) \/ TriggerAbort(p) \/ Finalize(p)
    \/ DispatchActionStep(p) \/ DispatchFails(p) \/ PollActionStep(p) \/ PollAgain(p)
    \/ Persist(p) \/ NextPlanStep(p) \/ Promote(p)
    \/ CancelRead(p) \/ CancelWrite(p)
    \/ ListPredecessors(p) \/ CreateUndo(p) \/ LinkUndo(p) \/ GroupUndo(p) \/ PredecessorsDone(p)

CancelWalk(p) == ListFollowers(p) \/ CancelFollower(p) \/ FollowersCancelled(p)

Crash(p) ==
    /\ ~At(p, "idle")
    /\ Fault("crash")
    /\ Return(p)
    /\ UNCHANGED <<row, req, agentside, cmds>>

-----------------------------------------------------------------------------
(* Operators: read, check, versioned write; a lost race changes nothing. *)

Command(name, i, states, new) ==
    /\ name \in Commands /\ cmds > 0
    /\ row[i].state \in states
    /\ UpdateRollout(i, [row[i] EXCEPT !.state = new])
    /\ cmds' = cmds - 1
    /\ UNCHANGED <<req, agentside, faults>>

Pause(i) == Command("pause", i, {"in_progress", "pending"}, "paused") /\ UNCHANGED proc

(* Mutant: the engine starts the row anew. *)
ResumeToPending(i) == Command("resume", i, {"paused"}, "pending") /\ UNCHANGED proc

Resume(i) == Command("resume", i, {"paused"}, "in_progress") /\ UNCHANGED proc

Approve(i) == Command("approve", i, {"pending_approval"}, "pending") /\ UNCHANGED proc

Abort(i) ==
    /\ Command("abort", i, States \ {"absent", "succeeded", "rolled_back"}, "aborted")
    /\ UNCHANGED proc

(* Reject writes the row and then cancels the followers. *)
Reject(i) ==
    /\ At(Api, "idle")
    /\ Command("reject", i, {"pending_approval"}, "rejected")
    /\ IF row[i].plan THEN Goto(Api, "list_followers", i, row[i]) ELSE UNCHANGED proc

(* The flag is the learning loop's: it is written whatever the state of    *)
(* the row, and the write counts as any other.  flips remembers the ones   *)
(* that a dispatch under way may run into.                                 *)
SetExcludeFromLearning(i) ==
    /\ "exclude" \in Commands /\ cmds >= FlagCost
    /\ row[i].state # "absent"
    /\ UpdateRollout(i, row[i])
    /\ flips' = IF i[1] = "step" /\ row[i].state = "pending"
                THEN [flips EXCEPT ![i[2]] = @ + 1] ELSE flips
    /\ cmds' = cmds - FlagCost
    /\ UNCHANGED <<proc, req, runner, ran, faults>>

-----------------------------------------------------------------------------
(* The runner. *)

(* One poll: the open requests it has not seen. *)
FetchPending ==
    LET open == {q \in DOMAIN req : req[q].status = "pending"} \ runner.seen IN
    /\ runner.batch = {} /\ runner.at = 0 /\ open # {}
    /\ runner' = [runner EXCEPT !.batch = open]
    /\ UNCHANGED <<row, proc, req, ran, flips, cmds, faults>>

(* handleOne: an expired request, or one outside the policy, is denied;    *)
(* the others are executed.                                                *)
HandleOne(q) ==
    /\ q \in runner.batch /\ runner.at = 0
    /\ \E result \in Results :
          /\ req[q].expired => result = "denied"
          /\ runner' = [runner EXCEPT !.batch = @ \ {q}, !.at = q, !.result = result,
                                      !.seen = @ \cup {q}]
          /\ ran' = IF result = "denied" THEN ran ELSE [ran EXCEPT ![req[q].step] = @ + 1]
    /\ UNCHANGED <<row, proc, req, flips, cmds, faults>>

(* HandlePostActionResult overwrites the status; a lost post is not sent   *)
(* again.                                                                  *)
PostResult ==
    /\ runner.at # 0
    /\ \/ req' = [req EXCEPT ![runner.at].status = runner.result] /\ UNCHANGED faults
       \/ Fault("post") /\ UNCHANGED req
    /\ runner' = [runner EXCEPT !.at = 0, !.result = "denied"]
    /\ UNCHANGED <<row, proc, ran, flips, cmds>>

(* The seen set is in memory only. *)
RunnerRestart ==
    /\ Fault("restart")
    /\ runner' = [runner EXCEPT !.batch = {}, !.at = 0, !.result = "denied", !.seen = {}]
    /\ UNCHANGED <<row, proc, req, ran, flips, cmds>>

(* The deadline of an open request; nobody asks for that of a closed one,  *)
(* which handleOne may find outside the policy anyway.                     *)
Expire(q) ==
    /\ req[q].status = "pending" /\ ~req[q].expired
    /\ req' = [req EXCEPT ![q].expired = TRUE]
    /\ UNCHANGED <<row, proc, agentside, cmds, faults>>

-----------------------------------------------------------------------------
Next ==
    \/ \E p \in Engines : Pass(p)
    \/ \E p \in Engines : \E i \in Rows : ListRollouts(p, i)
    \/ \E p \in Procs : CancelWalk(p) \/ Crash(p)
    \/ \E i \in Rows : Pause(i) \/ Resume(i) \/ Abort(i) \/ Approve(i) \/ Reject(i)
                      \/ SetExcludeFromLearning(i)
    \/ FetchPending \/ PostResult \/ RunnerRestart
    \/ \E q \in DOMAIN req : HandleOne(q) \/ Expire(q)

Spec == Init /\ [][Next]_vars

(* A tick lists every active row, so no row that keeps being active is     *)
(* passed over for ever; a pass ends; deadlines come.  The runner need not *)
(* answer and operators need not act.                                      *)
Fairness ==
    /\ \A p \in Engines : WF_vars(Pass(p)) /\ WF_vars(CancelWalk(p))
    /\ \A p \in Engines : \A i \in Rows : SF_vars(ListRollouts(p, i))
    /\ WF_vars(\E q \in DOMAIN req : Expire(q))

FairSpec == Spec /\ Fairness

-----------------------------------------------------------------------------
(* Properties. *)

Quiet == \A p \in Procs : At(p, "idle")
Undisturbed == cmds = MaxCommands /\ faults = MaxFaults
Queued(k) == row[Step(k)].state = "queued"
Failed(k) == row[Step(k)].state \in {"aborted", "rolled_back"}
DoneBefore(k) == \A j \in Steps : j < k => row[Step(j)].state = "succeeded"
Started == {"pending", "in_progress", "paused", "succeeded"}
Open(k) == \E q \in DOMAIN req : req[q].step = k

(* Every variable stays in its type. *)
TypeOK ==
    /\ row \in [Rows -> RowRec]
    /\ proc \in [Procs -> ProcRec]
    /\ req \in Seq(ReqRec)
    /\ runner \in [batch: SUBSET Nat, at: Nat, result: Results, seen: SUBSET Nat]
    /\ ran \in [Steps -> Nat]
    /\ flips \in [Steps -> Nat]
    /\ cmds \in 0..MaxCommands
    /\ faults \in 0..MaxFaults

(* The steps of a plan run strictly one after the other: a step the engine *)
(* may work on has only succeeded steps before it, whatever promotion,     *)
(* cancellation or operator write gets in between (advancePlan).           *)
PlanOrder ==
    \A k \in Steps : row[Step(k)].state \in Started => DoneBefore(k)

(* No action is dispatched or executed before its turn: its predecessors   *)
(* have succeeded and, for the first step, the plan has been approved,     *)
(* even if the request is dispatched twice, cancelled or executed late.    *)
ActionsInOrder ==
    \A k \in Steps : ran[k] > 0 \/ Open(k) =>
        DoneBefore(k) /\ row[Step(k)].state \notin {"pending_approval", "rejected", "queued"}

(* A step counts as succeeded only if its action has really been executed  *)
(* (pollActionStep, HandlePostActionResult).                               *)
SucceededActionRan ==
    \A k \in Steps : Kinds[k + 1] = "action" /\ row[Step(k)].state = "succeeded" => ran[k] > 0

(* With one engine and without faults an action is executed once, and once *)
(* more for every time the learning flag of its row was set while the row  *)
(* was pending: that write comes between the dispatch and the write of the *)
(* step, which is refused, and the next tick dispatches a second request   *)
(* (dispatchActionStep).  No other command of an operator repeats it.  Two *)
(* engines around a leader change may both dispatch it.                    *)
RunsOnce == faults = MaxFaults => \A k \in Steps : ran[k] <= 1 + flips[k]

(* A step is undone only if it had succeeded and a later one has failed.   *)
UndoOnlyAfterFailure ==
    \A k \in Steps : row[Undo(k)].state # "absent" =>
        row[Step(k)].state = "succeeded" /\ \E j \in Steps : j > k /\ Failed(j)

RollsBack(j) == Kinds[j + 1] = "rollout" /\ row[Step(j)].previous

(* The copies of a process: a write that the version lets through changes  *)
(* a row that is still what the process took it for, so that it cannot     *)
(* move the plan on twice or revive a cancelled step.                      *)
Active == {"pending", "in_progress", "aborted"}
Past(state) == state \notin {"absent", "pending_approval", "rejected", "queued"}

WorkOK(p) ==
    LET s == proc[p] IN
    s.pc \in {"listed", "persist"} /\ s.id[1] = "step" =>
        /\ s.r.version <= row[s.id].version
        /\ s.r.version = row[s.id].version => row[s.id].state \in Active
        /\ Past(row[s.id].state) /\ Past(s.r.state)
        /\ s.r.state \in Started => DoneBefore(s.id[2])

CopyIndexOK(p) ==
    LET s == proc[p] IN
    s.pc \in {"listed", "persist", "next"} =>
        /\ s.id[1] = "step" => s.r.plan /\ s.r.index = s.id[2]
        /\ s.id[1] = "undo" => s.r.state # "queued" /\ (s.r.plan => s.r.index < 0)

NextOK(p) ==
    LET s == proc[p] IN
    s.pc = "next" => s.r.plan /\ (s.id[1] = "step" =>
                        row[s.id].state = "succeeded" /\ DoneBefore(s.id[2]))

PromoteOK(p) ==
    LET s == proc[p] IN
    s.pc = "promote" =>
        /\ s.id[1] = "step" /\ s.r.plan /\ s.r.index = s.id[2] /\ s.r.state = "pending"
        /\ s.r.version <= row[s.id].version
        /\ s.r.version = row[s.id].version => row[s.id].state = "queued"
        /\ DoneBefore(s.id[2])

WalkOK(p) ==
    LET s == proc[p] IN
    /\ s.pc = "followers" => \A t \in s.todo :
          /\ t[1][1] = "step"
          /\ t[2] <= row[t[1]].version
          /\ t[2] = row[t[1]].version => row[t[1]].state = "queued"
    /\ s.pc \in {"link", "group"} =>
          s.id[1] = "undo" /\ s.r.state # "queued" /\ ~s.r.plan /\ s.walked > 0

CopyOK(p) == WorkOK(p) /\ CopyIndexOK(p) /\ NextOK(p) /\ PromoteOK(p) /\ WalkOK(p)

RowsOK ==
    /\ \A k \in Steps : row[Step(k)].state # "absent" => row[Step(k)].plan /\ row[Step(k)].index = k
    /\ \A k \in Steps : row[Undo(k)].state # "queued" /\ (row[Undo(k)].plan => row[Undo(k)].index < 0)
    /\ \A k \in Steps : Queued(k) => k > 0
    /\ \A k \in Steps : row[Step(k)].state \in {"pending_approval", "rejected"} => k = 0

(* The table and the copies of it fit together: see above.  With PlanOrder *)
(* and ActionsInOrder this is inductive.                                   *)
PlanCopies ==
    /\ RowsOK
    /\ \A p \in Procs : CopyOK(p)

(* The variables stay in their types, and no copy that an engine or the    *)
(* API still holds can move the plan on twice (advancePlan, Persist,       *)
(* CancelPlanFollowers).                                                   *)
PlanInv == TypeOK /\ PlanCopies

(* Unless an operator or a fault interferes, a failed step takes the rest  *)
(* of the plan with it: its followers are cancelled, and every rollout     *)
(* before it has a rollback rollout in the plan, numbered -1, -2, ...      *)
(* backwards from the failure.                                             *)
FailureHandled ==
    Undisturbed /\ Quiet => \A k \in Steps : Failed(k) =>
        \A j \in Steps :
            /\ j > k => ~Queued(j)
            /\ j < k /\ RollsBack(j) =>
                  row[Undo(j)].plan
                  /\ row[Undo(j)].index = -Cardinality({i \in j..(k - 1) : Kinds[i + 1] = "rollout"})

Settled(i) ==
    \/ row[i].state \in {"absent", "pending_approval", "succeeded", "rolled_back", "cancelled"}
    \/ row[i].state = "queued" /\ row[Step(0)].state = "pending_approval"

(* Left to itself a plan comes to an end, with or without an answer of the *)
(* runner: every step succeeds, is rolled back or is cancelled, and so do  *)
(* the rollback rollouts.                                                  *)
PlanEnds == []Undisturbed => <>[](\A i \in Rows : Settled(i))

=============================================================================
