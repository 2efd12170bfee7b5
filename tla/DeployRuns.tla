----------------------------- MODULE DeployRuns -----------------------------
\* Deploy runs: Trigger dispatches a workflow at the provider and stores a row
\* (internal/deploy/service.go); SyncRun, called by the 60 s poller and by
\* GET /deploy/runs/:id, copies the workflow's state into the row and, on
\* success, registers the run's expected hosts.
\*
\* The provider's dispatch call returns no run id.  A run finds its workflow by
\* asking for the newest one of the target created since shortly before the
\* dispatch, so it may attach a workflow somebody else started.
\*
\* One deploy target; the rows of others only take up room on the poller's pages.
\* The hosts of a run are registered as a unit; a workflow's conclusion is
\* success or failure.  A row takes the provider's status as it is: "waiting"
\* stands for those GitHub has besides the three that SyncRun and the poller know
\* (waiting, pending, requested).  Requests fail at most MaxFaults times.
EXTENDS Integers

CONSTANTS
  Runs,        \* Trigger (or TriggerAdoption) calls
  Hosts,       \* the runs with expected hosts
  Foreign,     \* dispatches of the same workflow from outside Squadron
  Succeeds,    \* the dispatches whose workflow will succeed
  Handlers,    \* concurrent GET /deploy/runs/:id requests
  Poller,      \* the deploy poller
  None,
  Slack,       \* how far before the dispatch a workflow is still accepted (30 s)
  MaxClock, MaxFaults

ASSUME DeployAssumption ==
  /\ Hosts \subseteq Runs
  /\ Runs \cap Foreign = {}
  /\ Succeeds \subseteq Runs \cup Foreign
  /\ Poller \notin Handlers
  /\ None \notin Runs \cup Foreign
  /\ Slack \in Nat /\ MaxClock \in Nat /\ MaxFaults \in Nat

VARIABLES
  target,       \* the deploy target exists
  job,          \* job[j]: the workflow of dispatch j at the provider
  trig,         \* trig[r]: where Trigger(r) is, and the row it builds
  row,          \* row[r]: the deploy_runs row, or None
  registered,   \* the runs whose hosts are in expected_agents
  missed,       \* the runs for which an upsert failed and was ignored
  sync,         \* sync[s]: a SyncRun call in progress, with its copy of the row
  poll,         \* the poller's pass: the next status to list, the rows to sync,
                \* the rows of the last listing that its page had no room for
  clock, faults

vars == <<target, job, trig, row, registered, missed, sync, poll,
          clock, faults>>

Dispatches == Runs \cup Foreign
Syncers == {Poller} \cup Handlers

\* The statuses of a workflow the provider shows, and those before it does.
Shown == {"queued", "waiting", "in_progress", "completed"}
JobStatus == Shown \cup {"none", "dispatched"}
Jobs == [status : JobStatus, conclusion : {"", "success", "failure"},
         created : 0..MaxClock]
Rows == [id : Dispatches \cup {None}, status : Shown,
         conclusion : {"", "success", "failure"}, verification : {"", "pending"},
         requestedAt : 0..MaxClock]

NewRow == [id |-> None, status |-> "queued", conclusion |-> "", verification |-> "",
           requestedAt |-> 0]
NoTrigger == [pc |-> "idle", row |-> NewRow]
NotSyncing == [pc |-> "idle", run |-> None, copy |-> None]

\* The statuses a polling pass lists, in order.
OpenStatuses == <<"queued", "in_progress">>
PollType == [next : 1..2, batch : SUBSET Runs, left : SUBSET Runs]
FirstPage == [next |-> 1, batch |-> {}, left |-> {}]

TypeOK ==
  /\ target \in BOOLEAN
  /\ job \in [Dispatches -> Jobs]
  /\ trig \in [Runs -> [pc : {"idle", "attach", "create", "done", "failed"},
                        row : Rows]]
  /\ row \in [Runs -> Rows \cup {None}]
  /\ registered \subseteq Hosts /\ missed \subseteq Hosts
  /\ sync \in [Syncers -> [pc : {"idle", "ask", "update"},
                           run : Runs \cup {None}, copy : Rows \cup {None}]]
  /\ poll \in PollType
  /\ clock \in 0..MaxClock /\ faults \in 0..MaxFaults

Init ==
  /\ target = TRUE
  /\ job = [j \in Dispatches |-> [status |-> "none", conclusion |-> "", created |-> 0]]
  /\ trig = [r \in Runs |-> NoTrigger]
  /\ row = [r \in Runs |-> None]
  /\ registered = {} /\ missed = {}
  /\ sync = [s \in Syncers |-> NotSyncing]
  /\ poll = FirstPage
  /\ clock = 0 /\ faults = 0

Fault == faults < MaxFaults /\ faults' = faults + 1

-----------------------------------------------------------------------------
\* The provider.

Visible(j) == job[j].status \in Shown

\* The workflow that appears for an accepted dispatch is created now.
Appear(j) ==
  /\ job[j].status = "dispatched"
  /\ \E status \in {"queued", "waiting"} :
       job' = [job EXCEPT ![j].status = status, ![j].created = clock]
  /\ UNCHANGED <<target, trig, row, registered, missed, sync, poll,
                 clock, faults>>

\* A workflow starts, or waits for an approval before it does or goes on.
Proceed(j) ==
  /\ Visible(j) /\ job[j].status # "completed"
  /\ \E status \in {"waiting", "in_progress"} :
       job' = [job EXCEPT ![j].status = status]
  /\ UNCHANGED <<target, trig, row, registered, missed, sync, poll,
                 clock, faults>>

Complete(j) ==
  /\ Visible(j) /\ job[j].status # "completed"
  /\ job' = [job EXCEPT ![j].status = "completed",
                        ![j].conclusion = IF j \in Succeeds THEN "success" ELSE "failure"]
  /\ UNCHANGED <<target, trig, row, registered, missed, sync, poll, clock, faults>>

ForeignDispatch(j) ==
  /\ job[j].status = "none"
  /\ job' = [job EXCEPT ![j].status = "dispatched"]
  /\ UNCHANGED <<target, trig, row, registered, missed, sync, poll, clock, faults>>

CreatedSince(since) == {j \in Dispatches : Visible(j) /\ job[j].created >= since}

Newest(jobs) == {j \in jobs : \A k \in jobs : job[k].created <= job[j].created}

\* Mutant of LatestRunSince: the window is ignored.
LatestRun(since) == Newest(CreatedSince(0))

\* The workflows LatestRunSince(since) may answer (which of several created
\* together is the provider's choice).
LatestRunSince(since) == Newest(CreatedSince(since))

Since(c) == c.requestedAt - Slack

-----------------------------------------------------------------------------
\* Trigger.

\* Trigger(r) ends; what it built is gone.
Return(r, pc) == trig' = [trig EXCEPT ![r] = [pc |-> pc, row |-> NewRow]]

\* The checks (the target and its credential, the pinned config's lint, the
\* inventory file) refuse, or the provider is asked.  A failing dispatch
\* returns an error whether or not the provider accepted it.
Dispatch(r) ==
  /\ trig[r].pc = "idle"
  /\ \/ Return(r, "failed") /\ UNCHANGED <<job, faults>>
     \/ /\ target
        /\ job' = [job EXCEPT ![r].status = "dispatched"]
        /\ \/ /\ trig' = [trig EXCEPT ![r].pc = "attach", ![r].row.requestedAt = clock]
              /\ UNCHANGED faults
           \/ Fault /\ Return(r, "failed")
  /\ UNCHANGED <<target, row, registered, missed, sync, poll, clock>>

\* The best-effort attach copies the workflow's id and status, and leaves the
\* conclusion empty.
Attach(r) ==
  /\ trig[r].pc = "attach"
  /\ \/ /\ Fault \/ (LatestRunSince(Since(trig[r].row)) = {} /\ UNCHANGED faults)
        /\ trig' = [trig EXCEPT ![r].pc = "create"]
     \/ \E j \in LatestRunSince(Since(trig[r].row)) :
          /\ trig' = [trig EXCEPT ![r].pc = "create", ![r].row.id = j,
                                  ![r].row.status = job[j].status]
          /\ UNCHANGED faults
  /\ UNCHANGED <<target, job, row, registered, missed, sync, poll, clock>>

CreateDeployRun(r) ==
  /\ trig[r].pc = "create"
  /\ \/ /\ row' = [row EXCEPT ![r] = trig[r].row]
        /\ Return(r, "done") /\ UNCHANGED faults
     \/ Fault /\ Return(r, "failed") /\ UNCHANGED row
  /\ UNCHANGED <<target, job, registered, missed, sync, poll, clock>>

DeleteDeployTarget ==
  /\ target /\ target' = FALSE
  /\ UNCHANGED <<job, trig, row, registered, missed, sync, poll, clock, faults>>

-----------------------------------------------------------------------------
\* SyncRun.

\* The reads and the early returns: a completed row, a deleted target.
SyncOpens(r) == row[r] # None /\ row[r].status # "completed" /\ target

SyncRead(s, r) ==
  sync' = [sync EXCEPT ![s] = IF SyncOpens(r)
                              THEN [pc |-> "ask", run |-> r, copy |-> row[r]]
                              ELSE NotSyncing]

HandleGetRun(h, r) ==
  /\ sync[h].pc = "idle" /\ SyncOpens(r) /\ SyncRead(h, r)
  /\ UNCHANGED <<target, job, trig, row, registered, missed, poll,
                 clock, faults>>

\* Success with expected hosts that no sync has registered.
Registers(r, copy) ==
  /\ copy.status = "completed" /\ copy.conclusion = "success"
  /\ r \in Hosts /\ copy.verification = ""

Found(s, j) ==
  [sync[s].copy EXCEPT !.id = j, !.status = job[j].status,
                       !.conclusion = job[j].conclusion]

\* A row with an id asks for that workflow, a row without one for the newest.
Asked(s) ==
  IF sync[s].copy.id # None THEN {sync[s].copy.id}
  ELSE LatestRunSince(Since(sync[s].copy))

SyncAsk(s) ==
  /\ sync[s].pc = "ask"
  /\ \/ /\ Fault \/ (Asked(s) = {} /\ UNCHANGED faults)
        /\ sync' = [sync EXCEPT ![s] = NotSyncing]
     \/ \E j \in Asked(s) :
          /\ sync' = [sync EXCEPT ![s].pc = "update", ![s].copy = Found(s, j)]
          /\ UNCHANGED faults
  /\ UNCHANGED <<target, job, trig, row, registered, missed, poll, clock>>

\* UpsertExpectedAgent for every host, errors ignored (nothing else in SyncRun
\* reads that table), then UpdateDeployRun, which writes every column of the copy,
\* whatever the row holds by now.
Update(s) ==
  /\ sync[s].pc = "update"
  /\ LET r == sync[s].run
         hosts == IF Registers(r, sync[s].copy) THEN {r} ELSE {}
         written == IF Registers(r, sync[s].copy)
                    THEN [sync[s].copy EXCEPT !.verification = "pending"]
                    ELSE sync[s].copy
     IN \/ /\ registered' = registered \cup hosts
           /\ row' = [row EXCEPT ![r] = written]
           /\ UNCHANGED <<missed, faults>>
        \/ /\ Fault /\ missed' = missed \cup hosts
           /\ row' = [row EXCEPT ![r] = written]
           /\ UNCHANGED registered
        \/ /\ Fault /\ registered' = registered \cup hosts
           /\ UNCHANGED <<row, missed>>
  /\ sync' = [sync EXCEPT ![s] = NotSyncing]
  /\ UNCHANGED <<target, job, trig, poll, clock>>

-----------------------------------------------------------------------------
\* SyncOpenRuns: the poller.

OfStatus(status) == {r \in Runs : row[r] # None /\ row[r].status = status}

\* A page holds the 50 newest rows of a status: which of the target's rows the
\* others leave room for.
Pages(status) ==
  {page \in SUBSET OfStatus(status) :
     \A r \in page, q \in OfStatus(status) \ page : row[q].requestedAt <= row[r].requestedAt}

\* Mutant of ListDeployRuns: the rows in progress are not listed.
ListQueuedOnly ==
  /\ poll.batch = {} /\ sync[Poller].pc = "idle"
  /\ \E page \in Pages("queued") :
       poll' = [next |-> 1, batch |-> page, left |-> OfStatus("queued") \ page]
  /\ UNCHANGED <<target, job, trig, row, registered, missed, sync, clock, faults>>

\* A pass lists a page of the queued rows, syncs them, then lists and syncs those
\* in progress.  A failed listing ends the pass.
ListDeployRuns ==
  /\ poll.batch = {} /\ sync[Poller].pc = "idle"
  /\ \/ LET status == OpenStatuses[poll.next] IN
        /\ \E page \in Pages(status) :
             poll' = [next |-> 3 - poll.next, batch |-> page,
                      left |-> OfStatus(status) \ page]
        /\ UNCHANGED faults
     \/ Fault /\ poll' = FirstPage
  /\ UNCHANGED <<target, job, trig, row, registered, missed, sync, clock>>

\* The next row of the page, newest first.
PollNext ==
  /\ poll.batch # {} /\ sync[Poller].pc = "idle"
  /\ \E r \in poll.batch :
       /\ \A q \in poll.batch : row[q].requestedAt <= row[r].requestedAt
       /\ poll' = [poll EXCEPT !.batch = @ \ {r}]
       /\ SyncRead(Poller, r)
  /\ UNCHANGED <<target, job, trig, row, registered, missed, clock, faults>>

\* The process stops and starts again: calls in progress are gone.
Restart ==
  /\ Fault
  /\ trig' = [r \in Runs |-> IF trig[r].pc \in {"idle", "done"} THEN trig[r]
                             ELSE [pc |-> "failed", row |-> NewRow]]
  /\ sync' = [s \in Syncers |-> NotSyncing]
  /\ poll' = FirstPage
  /\ UNCHANGED <<target, job, row, registered, missed, clock>>

Tick ==
  /\ clock < MaxClock /\ clock' = clock + 1
  /\ UNCHANGED <<target, job, trig, row, registered, missed, sync, poll,
                 faults>>

Trigger(r) == Dispatch(r) \/ Attach(r) \/ CreateDeployRun(r)
SyncRun(s) == SyncAsk(s) \/ Update(s)
SyncOpenRuns == ListDeployRuns \/ PollNext
Workflow(j) == Appear(j) \/ Proceed(j) \/ Complete(j)

Next ==
  \/ \E r \in Runs : Trigger(r)
  \/ \E j \in Dispatches : Workflow(j)
  \/ \E j \in Foreign : ForeignDispatch(j)
  \/ \E h \in Handlers, r \in Runs : HandleGetRun(h, r)
  \/ \E s \in Syncers : SyncRun(s)
  \/ SyncOpenRuns
  \/ DeleteDeployTarget
  \/ Restart
  \/ Tick

Spec == Init /\ [][Next]_vars

\* The poller's ticker keeps firing and its SyncRun calls go on, and the provider
\* makes an accepted dispatch visible and ends its workflow some time, be it by
\* a timeout.  Nobody has to call the API, and calls at the API need not end.
FairSpec ==
  /\ Spec
  /\ WF_vars(SyncOpenRuns)
  /\ WF_vars(SyncRun(Poller))
  /\ \A j \in Dispatches : WF_vars(Appear(j)) /\ WF_vars(Complete(j))

-----------------------------------------------------------------------------
\* What a stored row says of its workflow: it was created since shortly
\* before the dispatch, and it is over when the row says so.
Honest(c) ==
  /\ c.id # None => c.id \in CreatedSince(Since(c))
  /\ c.status = "completed" =>
       /\ c.id # None /\ job[c.id].status = "completed"
       /\ c.conclusion \in {"", job[c.id].conclusion}
  /\ c.conclusion # "" => c.status = "completed"

\* However the poller, the API and other dispatches interleave, and whichever
\* request fails: a row speaks of a workflow of its own window and never claims
\* an end or a conclusion that workflow did not have (Trigger, SyncRun); a row is
\* marked for verification exactly when it says that a run with expected hosts
\* succeeded, and then the upserts were tried (SyncRun); hosts are registered only
\* when a workflow of their run's window succeeded.
DeployInv ==
  /\ TypeOK
  /\ \A r \in Runs : row[r] # None =>
       /\ Honest(row[r])
       /\ row[r].verification = "pending" <=> (row[r].conclusion = "success" /\ r \in Hosts)
       /\ row[r].verification = "pending" => r \in registered \cup missed
  /\ \A r \in registered :
       \E j \in CreatedSince(Since(row[r])) : job[j].conclusion = "success"

\* No run stays queued or in progress for good, although a late SyncRun may write
\* an old status over a newer one: unless its target was deleted, when SyncRun
\* leaves the row as it is, or the page has no room for it again and again.  In
\* the end the row is completed or has a status the poller does not ask for, which
\* only a GET of that run gets it out of (SyncRun, SyncOpenRuns).
RunsSettle ==
  \A r \in Runs :
    \/ <>[](target /\ row[r] # None => row[r].status \in {"completed", "waiting"})
    \/ []<>(r \in poll.left)
=============================================================================
