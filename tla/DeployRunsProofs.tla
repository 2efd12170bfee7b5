-------------------------- MODULE DeployRunsProofs --------------------------
(***************************************************************************)
(* DeployInv holds for any number of runs, foreign dispatches, concurrent  *)
(* requests, clock values and faults.  A row may be overwritten by a copy  *)
(* that was read long before, so what is claimed of the rows has to be     *)
(* claimed of every copy under way too (Triggers, Syncs): copies stay      *)
(* honest because a workflow only moves forward (Forward).                 *)
(***************************************************************************)
EXTENDS DeployRuns, TLAPS

\* Honest, of the workflows jb.
Claims(jb, c) ==
  /\ c.id # None =>
       /\ jb[c.id].status \in Shown
       /\ jb[c.id].created >= c.requestedAt - Slack
  /\ c.status = "completed" =>
       /\ c.id # None /\ jb[c.id].status = "completed"
       /\ c.conclusion \in {"", jb[c.id].conclusion}
  /\ c.conclusion # "" => c.status = "completed"

\* A workflow is concluded when it is over.
Workflows == \A j \in Dispatches : job[j].conclusion # "" => job[j].status = "completed"

\* What a Trigger call builds; only a Trigger that is done has left a row.
Triggers ==
  \A r \in Runs :
    /\ Claims(job, trig[r].row)
    /\ trig[r].row.verification = "" /\ trig[r].row.conclusion = ""
    /\ trig[r].pc = "idle" => job[r].status = "none" /\ trig[r].row.id = None
    /\ trig[r].pc = "done" => row[r] \in Rows
    /\ trig[r].pc # "done" => row[r] = None

RowFits(r, c, tried) ==
  /\ c.verification = "pending" <=> (c.conclusion = "success" /\ r \in Hosts)
  /\ c.verification = "pending" => r \in tried

Table ==
  \A r \in Runs : trig[r].pc = "done" =>
    Claims(job, row[r]) /\ RowFits(r, row[r], registered \cup missed)

\* A copy being synced is of a stored row that had not been registered.
Copied(t) ==
  /\ t.run \in Runs /\ trig[t.run].pc = "done"
  /\ t.copy \in Rows /\ t.copy.requestedAt = row[t.run].requestedAt
  /\ Claims(job, t.copy)
  /\ t.copy.verification = ""

Syncs == \A s \in Syncers : sync[s].pc # "idle" => Copied(sync[s])

Proven(jb, since) ==
  \E j \in Dispatches : /\ jb[j].status = "completed" /\ jb[j].conclusion = "success"
                        /\ jb[j].created >= since

Registered ==
  \A r \in registered : trig[r].pc = "done" /\ Proven(job, row[r].requestedAt - Slack)

IInv == TypeOK /\ Workflows /\ Triggers /\ Table /\ Syncs /\ Registered

\* A workflow never becomes invisible, keeps its creation time and, once over,
\* everything.
Forward ==
  \A j \in Dispatches :
    /\ job[j].status \in Shown =>
         /\ job'[j].status \in Shown
         /\ job'[j].created = job[j].created
    /\ job[j].status = "completed" =>
         job'[j].status = "completed" /\ job'[j].conclusion = job[j].conclusion

LEMMA PartTypes ==
  ASSUME TypeOK
  PROVE  /\ \A j \in Dispatches : job[j] \in Jobs
         /\ \A r \in Runs : trig[r].row \in Rows /\ row[r] \in Rows \cup {None}
         /\ \A r \in Runs : trig[r].pc \in {"idle", "attach", "create", "done", "failed"}
         /\ \A s \in Syncers : /\ sync[s].pc \in {"idle", "ask", "update"}
                               /\ sync[s].run \in Runs \cup {None}
                               /\ sync[s].copy \in Rows \cup {None}
         /\ registered \subseteq Runs
  BY DeployAssumption DEF TypeOK

LEMMA RowParts ==
  ASSUME NEW c \in Rows
  PROVE  /\ c.id \in Dispatches \cup {None} /\ c.requestedAt \in 0..MaxClock
         /\ c.conclusion \in {"", "success", "failure"}
         /\ c.status \in Shown
         /\ c.verification \in {"", "pending"}
  BY DEF Rows

\* What was true of a row stays true while workflows move forward.
LEMMA ClaimsStay ==
  ASSUME Forward, NEW c \in Rows, Claims(job, c)
  PROVE  Claims(job', c)
  BY RowParts DEF Forward, Claims

LEMMA ProvenStays ==
  ASSUME Forward, NEW since \in Int, Proven(job, since)
  PROVE  Proven(job', since)
<1>1. PICK j \in Dispatches : /\ job[j].status = "completed" /\ job[j].conclusion = "success"
                              /\ job[j].created >= since
  BY DEF Proven
<1>2. /\ job'[j].status = "completed" /\ job'[j].conclusion = "success"
      /\ job'[j].created >= since
  BY <1>1 DEF Forward, Shown
<1> QED BY <1>2 DEF Proven

LEMMA SinceInt ==
  ASSUME NEW c \in Rows
  PROVE  c.requestedAt - Slack \in Int
<1>1. c.requestedAt \in 0..MaxClock
  BY RowParts
<1> QED BY <1>1, DeployAssumption

-----------------------------------------------------------------------------
\* Steps of the provider and the dispatches: only workflows move, and only
\* forward.
LEMMA WorkflowsMove ==
  ASSUME IInv, Forward, Workflows', job' \in [Dispatches -> Jobs],
         \A r \in Runs : trig[r].pc = "idle" => job'[r].status = "none",
         UNCHANGED <<target, trig, row, registered, missed, sync, poll, clock, faults>>
  PROVE  IInv'
<1>1. TypeOK'
  BY DEF IInv, TypeOK
<1>2. Triggers'
  <2> SUFFICES ASSUME NEW r \in Runs PROVE Claims(job', trig[r].row)
    BY DEF IInv, Triggers
  <2> QED BY PartTypes, ClaimsStay DEF IInv, Triggers
<1>3. Table'
  <2> SUFFICES ASSUME NEW r \in Runs, trig[r].pc = "done" PROVE Claims(job', row[r])
    BY DEF IInv, Table, RowFits
  <2> QED BY ClaimsStay DEF IInv, Triggers, Table
<1>4. Syncs'
  <2> SUFFICES ASSUME NEW s \in Syncers, sync[s].pc # "idle" PROVE Copied(sync[s])'
    BY DEF IInv, Syncs
  <2>1. Copied(sync[s])
    BY DEF IInv, Syncs
  <2>2. Claims(job', sync[s].copy)
    BY <2>1, ClaimsStay DEF Copied
  <2> QED BY <2>1, <2>2 DEF Copied
<1>5. Registered'
  <2> SUFFICES ASSUME NEW r \in registered
               PROVE  trig[r].pc = "done" /\ Proven(job', row[r].requestedAt - Slack)
    BY DEF Registered
  <2>1. trig[r].pc = "done" /\ r \in Runs /\ Proven(job, row[r].requestedAt - Slack)
    BY PartTypes DEF IInv, Registered
  <2>2. row[r].requestedAt - Slack \in Int
    BY <2>1, SinceInt DEF IInv, Triggers
  <2> QED BY <2>1, <2>2, ProvenStays
<1> QED BY <1>1, <1>2, <1>3, <1>4, <1>5 DEF IInv

\* A dispatch that has been made is not that of a run whose Trigger has yet to
\* make it.
LEMMA IdleStays ==
  ASSUME Triggers, NEW j \in Dispatches, job[j].status # "none",
         \A q \in Dispatches : q # j => job'[q] = job[q]
  PROVE  \A r \in Runs : trig[r].pc = "idle" => job'[r].status = "none"
<1> SUFFICES ASSUME NEW r \in Runs, trig[r].pc = "idle"
             PROVE  job'[r].status = "none"
  OBVIOUS
<1>1. job[r].status = "none"
  BY DEF Triggers
<1>2. r \in Dispatches
  BY DEF Dispatches
<1> QED BY <1>1, <1>2

LEMMA WorkflowStep ==
  ASSUME IInv, NEW j \in Dispatches, Workflow(j)
  PROVE  IInv'
<1> USE PartTypes DEF IInv, Workflows, Forward, Jobs, JobStatus, Shown
<1>a. job \in [Dispatches -> Jobs]
  BY DEF TypeOK
<1>1. CASE Appear(j)
  <2> clock \in 0..MaxClock
    BY DEF TypeOK
  <2>1. PICK status \in {"queued", "waiting"} :
          job' = [job EXCEPT ![j].status = status, ![j].created = clock]
    BY <1>1 DEF Appear
  <2>2. job' \in [Dispatches -> Jobs]
    BY <1>a, <2>1, ZenonT(60)
  <2>3. /\ \A q \in Dispatches : q # j => job'[q] = job[q]
        /\ job'[j].status = status /\ job'[j].conclusion = job[j].conclusion
    BY <2>1 DEF TypeOK
  <2>4. job[j].status = "dispatched"
    BY <1>1 DEF Appear
  <2>5. Forward
    BY <2>3, <2>4
  <2>6. Workflows'
    BY <2>3, <2>4
  <2>7. \A r \in Runs : trig[r].pc = "idle" => job'[r].status = "none"
    BY <2>3, <2>4, IdleStays
  <2> QED BY <1>1, <2>2, <2>5, <2>6, <2>7, WorkflowsMove DEF Appear
<1>2. CASE Proceed(j)
  <2>1. PICK status \in {"waiting", "in_progress"} : job' = [job EXCEPT ![j].status = status]
    BY <1>2 DEF Proceed
  <2>2. job' \in [Dispatches -> Jobs]
    BY <1>a, <2>1, ZenonT(60)
  <2>3. /\ \A q \in Dispatches : q # j => job'[q] = job[q]
        /\ job'[j].status = status /\ job'[j].conclusion = job[j].conclusion
        /\ job'[j].created = job[j].created
    BY <2>1 DEF TypeOK
  <2>4. job[j].status \in Shown \ {"completed"}
    BY <1>2 DEF Proceed, Visible
  <2>5. Forward
    BY <2>3, <2>4
  <2>6. Workflows'
    BY <2>3, <2>4
  <2>7. \A r \in Runs : trig[r].pc = "idle" => job'[r].status = "none"
    BY <2>3, <2>4, IdleStays
  <2> QED BY <1>2, <2>2, <2>5, <2>6, <2>7, WorkflowsMove DEF Proceed
<1>3. CASE Complete(j)
  <2>1. PICK c \in {"success", "failure"} :
          job' = [job EXCEPT ![j].status = "completed", ![j].conclusion = c]
    BY <1>3 DEF Complete
  <2>2. job' \in [Dispatches -> Jobs]
    BY <1>a, <2>1, ZenonT(60)
  <2>3. /\ \A q \in Dispatches : q # j => job'[q] = job[q]
        /\ job'[j].status = "completed" /\ job'[j].created = job[j].created
    BY <2>1 DEF TypeOK
  <2>4. job[j].status \in Shown \ {"completed"}
    BY <1>3 DEF Complete, Visible
  <2>5. Forward
    BY <2>3, <2>4
  <2>6. Workflows'
    BY <2>3, <2>4
  <2>7. \A r \in Runs : trig[r].pc = "idle" => job'[r].status = "none"
    BY <2>3, <2>4, IdleStays
  <2> QED BY <1>3, <2>2, <2>5, <2>6, <2>7, WorkflowsMove DEF Complete
<1> QED BY <1>1, <1>2, <1>3 DEF Workflow

LEMMA ForeignStep ==
  ASSUME IInv, NEW j \in Foreign, ForeignDispatch(j)
  PROVE  IInv'
<1> USE PartTypes DEF IInv, Workflows, Forward, Jobs, JobStatus, Shown
<1>1. j \in Dispatches /\ j \notin Runs
  BY DeployAssumption DEF Dispatches
<1>2. job' \in [Dispatches -> Jobs]
  BY <1>1 DEF ForeignDispatch, TypeOK
<1>3. Forward /\ Workflows'
  BY <1>1 DEF ForeignDispatch, TypeOK
<1>4. \A r \in Runs : trig[r].pc = "idle" => job'[r].status = "none"
  BY <1>1 DEF ForeignDispatch, TypeOK, Triggers, Dispatches
<1> QED BY <1>2, <1>3, <1>4, WorkflowsMove DEF ForeignDispatch

-----------------------------------------------------------------------------
TriggerPC == {"idle", "attach", "create", "done", "failed"}

\* A Trigger call that does not store its row.
LEMMA TriggerMoves ==
  ASSUME IInv, NEW r \in Runs, NEW p \in {"attach", "create", "failed"}, NEW c \in Rows,
         Forward, Workflows', job' \in [Dispatches -> Jobs],
         trig[r].pc # "done", trig' \in [Runs -> [pc : TriggerPC, row : Rows]],
         trig'[r].pc = p, trig'[r].row = c,
         \A q \in Runs : q # r => trig'[q] = trig[q],
         Claims(job', c), c.verification = "", c.conclusion = "",
         \A q \in Runs : q # r => job'[q] = job[q],
         faults' \in 0..MaxFaults,
         UNCHANGED <<target, row, registered, missed, sync, poll, clock>>
  PROVE  IInv'
<1>2. TypeOK'
  BY DEF IInv, TypeOK, TriggerPC
<1>3. \A q \in Runs : trig[q].pc = "done" <=> trig'[q].pc = "done"
  OBVIOUS
<1>4. Triggers'
  <2>1. ASSUME NEW q \in Runs, q # r PROVE Claims(job', trig'[q].row)
    BY <2>1, PartTypes, ClaimsStay DEF IInv, Triggers
  <2>2. \A q \in Runs : Claims(job', trig'[q].row)
    BY <2>1
  <2> QED BY <2>2, <1>3 DEF IInv, Triggers
<1>5. Table'
  <2> SUFFICES ASSUME NEW q \in Runs, trig[q].pc = "done" PROVE Claims(job', row[q])
    BY <1>3 DEF IInv, Table, RowFits
  <2> QED BY ClaimsStay DEF IInv, Triggers, Table
<1>6. Syncs'
  <2> SUFFICES ASSUME NEW s \in Syncers, sync[s].pc # "idle" PROVE Copied(sync[s])'
    BY DEF IInv, Syncs
  <2>1. Copied(sync[s])
    BY DEF IInv, Syncs
  <2>2. Claims(job', sync[s].copy)
    BY <2>1, ClaimsStay DEF Copied
  <2> QED BY <1>3, <2>1, <2>2 DEF Copied
<1>7. Registered'
  <2> SUFFICES ASSUME NEW q \in registered
               PROVE  trig'[q].pc = "done" /\ Proven(job', row[q].requestedAt - Slack)
    BY DEF Registered
  <2>1. trig[q].pc = "done" /\ q \in Runs /\ Proven(job, row[q].requestedAt - Slack)
    BY PartTypes DEF IInv, Registered
  <2>2. row[q].requestedAt - Slack \in Int
    BY <2>1, SinceInt DEF IInv, Triggers
  <2> QED BY <1>3, <2>1, <2>2, ProvenStays
<1> QED BY <1>2, <1>4, <1>5, <1>6, <1>7 DEF IInv

\* The row a Trigger starts from claims nothing.
LEMMA NewRowClaims ==
  ASSUME NEW jb
  PROVE  /\ NewRow \in Rows /\ NewRow.verification = "" /\ NewRow.conclusion = ""
         /\ Claims(jb, NewRow)
  BY DeployAssumption DEF NewRow, Rows, Claims, Shown

LEMMA FaultType ==
  ASSUME TypeOK, Fault \/ UNCHANGED faults
  PROVE  faults' \in 0..MaxFaults
  BY DeployAssumption DEF TypeOK, Fault

LEMMA DispatchStep ==
  ASSUME IInv, NEW r \in Runs, Dispatch(r)
  PROVE  IInv'
<1>1. TypeOK /\ r \in Dispatches /\ trig[r].pc = "idle" /\ faults' \in 0..MaxFaults
  BY FaultType DEF IInv, Dispatch, Dispatches
<1>2. job[r].status = "none" /\ trig[r].row \in Rows /\ trig[r].row.id = None
      /\ trig[r].row.verification = "" /\ trig[r].row.conclusion = ""
      /\ trig[r].row.status # "completed" /\ job[r].conclusion = ""
  BY <1>1, PartTypes DEF IInv, Triggers, Claims, Workflows
<1>3. job' = job \/ job' = [job EXCEPT ![r].status = "dispatched"]
  BY DEF Dispatch
<1>4. /\ job' \in [Dispatches -> Jobs] /\ Forward /\ Workflows'
      /\ \A q \in Runs : q # r => job'[q] = job[q]
  <2>1. job \in [Dispatches -> Jobs] /\ Workflows
    BY DEF IInv, TypeOK
  <2>2. CASE job' = job
    BY <2>1, <2>2 DEF Forward, Workflows
  <2>3. CASE job' = [job EXCEPT ![r].status = "dispatched"]
    <3>1. job' \in [Dispatches -> Jobs]
      BY <1>1, <2>1, <2>3 DEF Jobs, JobStatus, Shown
    <3>2. \A q \in Dispatches : q # r => job'[q] = job[q]
      BY <2>1, <2>3
    <3>3. job'[r].status = "dispatched" /\ job'[r].conclusion = ""
      BY <1>1, <1>2, <2>1, <2>3 DEF Jobs
    <3>4. Forward
      BY <1>2, <3>2 DEF Forward, Shown
    <3>5. Workflows'
      BY <2>1, <3>2, <3>3 DEF Workflows
    <3> QED BY <3>1, <3>2, <3>4, <3>5 DEF Dispatches
  <2> QED BY <1>3, <2>2, <2>3
<1>5. CASE Return(r, "failed")
  <2>1. /\ trig' \in [Runs -> [pc : TriggerPC, row : Rows]]
        /\ trig'[r].pc = "failed" /\ trig'[r].row = NewRow
        /\ \A q \in Runs : q # r => trig'[q] = trig[q]
    BY <1>1, <1>5, NewRowClaims DEF Return, TypeOK, TriggerPC
  <2> QED BY <1>1, <1>4, <2>1, NewRowClaims, TriggerMoves DEF Dispatch
<1>6. CASE trig' = [trig EXCEPT ![r].pc = "attach", ![r].row.requestedAt = clock]
  <2> DEFINE c == [trig[r].row EXCEPT !.requestedAt = clock]
  <2>1. c \in Rows /\ c.verification = "" /\ c.conclusion = "" /\ Claims(job', c)
    BY <1>1, <1>2 DEF TypeOK, Rows, Claims
  <2>2. /\ trig' \in [Runs -> [pc : TriggerPC, row : Rows]]
        /\ trig'[r].pc = "attach" /\ trig'[r].row = c
        /\ \A q \in Runs : q # r => trig'[q] = trig[q]
    BY <1>1, <1>6, <2>1 DEF TypeOK, TriggerPC
  <2> HIDE DEF c
  <2> QED BY <1>1, <1>4, <2>1, <2>2, TriggerMoves DEF Dispatch
<1> QED BY <1>5, <1>6 DEF Dispatch

\* A workflow of the window is an honest answer.
LEMMA LatestIsHonest ==
  ASSUME TypeOK, NEW c \in Rows, NEW j \in LatestRunSince(Since(c))
  PROVE  /\ j \in Dispatches /\ job[j].created >= c.requestedAt - Slack
         /\ job[j].status \in Shown
  BY DEF LatestRunSince, Newest, CreatedSince, Visible, Since

LEMMA AttachStep ==
  ASSUME IInv, NEW r \in Runs, Attach(r)
  PROVE  IInv'
<1>1. TypeOK /\ trig[r].pc = "attach" /\ faults' \in 0..MaxFaults /\ job' = job
  BY FaultType DEF IInv, Attach
<1>2. /\ trig[r].row \in Rows /\ Claims(job, trig[r].row)
      /\ trig[r].row.verification = "" /\ trig[r].row.conclusion = ""
  BY <1>1, PartTypes DEF IInv, Triggers
<1>3. job' \in [Dispatches -> Jobs] /\ Forward /\ Workflows'
  BY <1>1 DEF IInv, TypeOK, Forward, Workflows
<1>4. CASE trig' = [trig EXCEPT ![r].pc = "create"]
  <2>1. /\ trig' \in [Runs -> [pc : TriggerPC, row : Rows]]
        /\ trig'[r].pc = "create" /\ trig'[r].row = trig[r].row
        /\ \A q \in Runs : q # r => trig'[q] = trig[q]
    BY <1>1, <1>4 DEF TypeOK, TriggerPC
  <2>2. Claims(job', trig[r].row)
    BY <1>1, <1>2
  <2> QED BY <1>1, <1>2, <1>3, <2>1, <2>2, TriggerMoves DEF Attach
<1>5. ASSUME NEW j \in LatestRunSince(Since(trig[r].row)),
             trig' = [trig EXCEPT ![r].pc = "create", ![r].row.id = j,
                                  ![r].row.status = job[j].status]
      PROVE  IInv'
  <2> DEFINE c == [trig[r].row EXCEPT !.id = j, !.status = job[j].status]
  <2>1. /\ j \in Dispatches /\ job[j].created >= trig[r].row.requestedAt - Slack
        /\ job[j].status \in Shown
    BY <1>1, <1>2, LatestIsHonest
  <2>2. c \in Rows /\ c.verification = "" /\ c.conclusion = "" /\ Claims(job', c)
    BY <1>1, <1>2, <2>1, DeployAssumption DEF Rows, Claims, Dispatches
  <2>3. /\ trig' \in [Runs -> [pc : TriggerPC, row : Rows]]
        /\ trig'[r].pc = "create" /\ trig'[r].row = c
        /\ \A q \in Runs : q # r => trig'[q] = trig[q]
    BY <1>1, <1>5, <2>2 DEF TypeOK, TriggerPC
  <2> HIDE DEF c
  <2> QED BY <1>1, <1>3, <2>2, <2>3, TriggerMoves DEF Attach
<1> QED BY <1>4, <1>5 DEF Attach

\* Storing the row: nothing has been synced or registered for r before.
LEMMA CreateStep ==
  ASSUME IInv, NEW r \in Runs, CreateDeployRun(r)
  PROVE  IInv'
<1>1. TypeOK /\ trig[r].pc = "create" /\ faults' \in 0..MaxFaults /\ job' = job
  BY FaultType DEF IInv, CreateDeployRun
<1>2. /\ trig[r].row \in Rows /\ Claims(job, trig[r].row)
      /\ trig[r].row.verification = "" /\ trig[r].row.conclusion = ""
  BY <1>1, PartTypes DEF IInv, Triggers
<1>3. CASE Return(r, "failed") /\ UNCHANGED row
  <2>1. /\ trig' \in [Runs -> [pc : TriggerPC, row : Rows]]
        /\ trig'[r].pc = "failed" /\ trig'[r].row = NewRow
        /\ \A q \in Runs : q # r => trig'[q] = trig[q]
    BY <1>1, <1>3, NewRowClaims DEF Return, TypeOK, TriggerPC
  <2>2. job' \in [Dispatches -> Jobs] /\ Forward /\ Workflows'
    BY <1>1 DEF IInv, TypeOK, Forward, Workflows
  <2> QED BY <1>1, <1>3, <2>1, <2>2, NewRowClaims, TriggerMoves DEF CreateDeployRun
<1>4. CASE row' = [row EXCEPT ![r] = trig[r].row] /\ Return(r, "done")
  <2>1. /\ trig' \in [Runs -> [pc : TriggerPC, row : Rows]]
        /\ trig'[r].pc = "done" /\ trig'[r].row = NewRow
        /\ \A q \in Runs : q # r => trig'[q] = trig[q]
    BY <1>1, <1>4, NewRowClaims DEF Return, TypeOK, TriggerPC
  <2>2. /\ row' \in [Runs -> Rows \cup {None}] /\ row'[r] = trig[r].row
        /\ \A q \in Runs : q # r => row'[q] = row[q]
    BY <1>1, <1>2, <1>4 DEF TypeOK
  <2>3. UNCHANGED <<target, job, registered, missed, sync, poll, clock>>
    BY DEF CreateDeployRun
  <2>4. TypeOK' /\ Workflows'
    BY <1>1, <2>1, <2>2, <2>3 DEF IInv, TypeOK, TriggerPC, Workflows
  <2>5. Triggers'
    BY <1>2, <2>1, <2>2, <2>3, NewRowClaims, ZenonT(60) DEF IInv, Triggers
  <2>6. Table'
    BY <1>2, <2>1, <2>2, <2>3 DEF IInv, Table, RowFits
  <2>7. Syncs'
    <3> SUFFICES ASSUME NEW s \in Syncers, sync[s].pc # "idle" PROVE Copied(sync[s])'
      BY <2>3 DEF Syncs
    <3>1. Copied(sync[s]) /\ sync[s].run # r
      BY <1>1 DEF IInv, Syncs, Copied
    <3> QED BY <2>1, <2>2, <2>3, <3>1 DEF Copied
  <2>8. Registered'
    <3> SUFFICES ASSUME NEW q \in registered
                 PROVE  trig'[q].pc = "done" /\ Proven(job, row'[q].requestedAt - Slack)
      BY <2>3 DEF Registered
    <3>1. q \in Runs /\ q # r
      BY <1>1, PartTypes DEF IInv, Registered
    <3> QED BY <2>1, <2>2, <3>1 DEF IInv, Registered
  <2> QED BY <2>4, <2>5, <2>6, <2>7, <2>8 DEF IInv
<1> QED BY <1>3, <1>4 DEF CreateDeployRun

-----------------------------------------------------------------------------
\* A SyncRun call that does not write.
LEMMA SyncMoves ==
  ASSUME IInv, NEW s \in Syncers,
         sync' \in [Syncers -> [pc : {"idle", "ask", "update"},
                                run : Runs \cup {None}, copy : Rows \cup {None}]],
         \A z \in Syncers : z # s => sync'[z] = sync[z],
         sync'[s].pc # "idle" => Copied(sync'[s]),
         poll' \in PollType, faults' \in 0..MaxFaults,
         UNCHANGED <<target, job, trig, row, registered, missed, clock>>
  PROVE  IInv'
<1>1. TypeOK' /\ Workflows' /\ Triggers' /\ Table' /\ Registered'
  BY DEF IInv, TypeOK, Workflows, Triggers, Table, Registered
<1>2. Syncs'
  <2> SUFFICES ASSUME NEW z \in Syncers, sync'[z].pc # "idle" PROVE Copied(sync[z])'
    BY DEF Syncs
  <2>1. Copied(sync'[z])
    BY DEF IInv, Syncs
  <2> QED BY <2>1 DEF Copied
<1> QED BY <1>1, <1>2 DEF IInv

LEMMA NotSyncingType ==
  NotSyncing \in [pc : {"idle", "ask", "update"}, run : Runs \cup {None},
                  copy : Rows \cup {None}]
  BY DEF NotSyncing

\* A row that SyncRun goes on with is a faithful copy.
LEMMA ReadStep ==
  ASSUME IInv, NEW s \in Syncers, NEW r \in Runs, SyncRead(s, r),
         poll' \in PollType,
         UNCHANGED <<target, job, trig, row, registered, missed, clock, faults>>
  PROVE  IInv'
<1>1. TypeOK /\ faults' \in 0..MaxFaults
  BY DEF IInv, TypeOK
<1>2. CASE SyncOpens(r)
  <2> DEFINE t == [pc |-> "ask", run |-> r, copy |-> row[r]]
  <2>1. sync' = [sync EXCEPT ![s] = t]
    BY <1>2 DEF SyncRead
  <2>2. trig[r].pc = "done" /\ row[r] \in Rows
    BY <1>2 DEF IInv, Triggers, SyncOpens
  <2>3. Claims(job, row[r]) /\ RowFits(r, row[r], registered \cup missed)
    BY <2>2 DEF IInv, Table
  <2>4. row[r].verification = ""
    BY <1>2, <2>2, <2>3, RowParts DEF SyncOpens, Claims, RowFits
  <2>5. Copied(t)
    BY <2>2, <2>3, <2>4 DEF Copied
  <2>6. /\ sync' \in [Syncers -> [pc : {"idle", "ask", "update"},
                                  run : Runs \cup {None}, copy : Rows \cup {None}]]
        /\ \A z \in Syncers : z # s => sync'[z] = sync[z]
        /\ sync'[s] = t
    BY <1>1, <2>1, <2>2 DEF TypeOK
  <2> HIDE DEF t
  <2> QED BY <1>1, <2>5, <2>6, SyncMoves
<1>3. CASE ~SyncOpens(r)
  <2>1. /\ sync' \in [Syncers -> [pc : {"idle", "ask", "update"},
                                  run : Runs \cup {None}, copy : Rows \cup {None}]]
        /\ \A z \in Syncers : z # s => sync'[z] = sync[z]
        /\ sync'[s].pc = "idle"
    BY <1>1, <1>3, NotSyncingType DEF TypeOK, SyncRead, NotSyncing
  <2> QED BY <1>1, <2>1, SyncMoves
<1> QED BY <1>2, <1>3

LEMMA AskStep ==
  ASSUME IInv, NEW s \in Syncers, SyncAsk(s)
  PROVE  IInv'
<1>1. /\ TypeOK /\ faults' \in 0..MaxFaults /\ Copied(sync[s])
      /\ poll' \in PollType
  BY FaultType DEF IInv, SyncAsk, Syncs, TypeOK
<1>2. CASE sync' = [sync EXCEPT ![s] = NotSyncing]
  <2>1. /\ sync' \in [Syncers -> [pc : {"idle", "ask", "update"},
                                  run : Runs \cup {None}, copy : Rows \cup {None}]]
        /\ \A z \in Syncers : z # s => sync'[z] = sync[z]
        /\ sync'[s].pc = "idle"
    BY <1>1, <1>2, NotSyncingType DEF TypeOK, NotSyncing
  <2> QED BY <1>1, <2>1, SyncMoves DEF SyncAsk
<1>3. ASSUME NEW j \in Asked(s),
             sync' = [sync EXCEPT ![s].pc = "update", ![s].copy = Found(s, j)]
      PROVE  IInv'
  <2> DEFINE c == sync[s].copy
             f == Found(s, j)
  <2>1. c \in Rows /\ Claims(job, c) /\ c.verification = ""
    BY <1>1 DEF Copied
  <2>2. /\ j \in Dispatches /\ job[j].created >= c.requestedAt - Slack
        /\ job[j].status \in Shown
    <3>1. CASE c.id # None
      BY <2>1, <3>1, RowParts DEF Asked, Claims
    <3>2. CASE c.id = None
      <4>1. j \in LatestRunSince(Since(c))
        BY <3>2 DEF Asked
      <4> QED BY <1>1, <2>1, <4>1, LatestIsHonest
    <3> QED BY <3>1, <3>2
  <2>3. job[j].conclusion \in {"", "success", "failure"}
        /\ (job[j].conclusion # "" => job[j].status = "completed")
    BY <1>1, <2>2, PartTypes DEF IInv, Workflows, Jobs
  <2>4. f = [c EXCEPT !.id = j, !.status = job[j].status, !.conclusion = job[j].conclusion]
    BY DEF Found
  <2>5. /\ f \in Rows /\ f.requestedAt = c.requestedAt /\ f.verification = ""
        /\ f.id = j /\ f.status = job[j].status /\ f.conclusion = job[j].conclusion
    BY <2>1, <2>2, <2>3, <2>4 DEF Rows
  <2>6. Claims(job, f)
    BY <2>2, <2>3, <2>5, DeployAssumption DEF Claims, Dispatches
  <2> HIDE DEF f
  <2>7. /\ sync' \in [Syncers -> [pc : {"idle", "ask", "update"},
                                  run : Runs \cup {None}, copy : Rows \cup {None}]]
        /\ \A z \in Syncers : z # s => sync'[z] = sync[z]
        /\ sync'[s].run = sync[s].run /\ sync'[s].copy = f
    BY <1>1, <1>3, <2>5, ZenonT(60) DEF TypeOK, f
  <2>8. Copied(sync'[s])
    BY <1>1, <2>5, <2>6, <2>7 DEF Copied
  <2> QED BY <1>1, <2>7, <2>8, SyncMoves DEF SyncAsk
<1> QED BY <1>2, <1>3 DEF SyncAsk

\* The write of a copy, however old: what it says is still true, and the hosts
\* it makes known were proven by its workflow.
LEMMA UpdateStep ==
  ASSUME IInv, NEW s \in Syncers, Update(s)
  PROVE  IInv'
<1> DEFINE r == sync[s].run
           c == sync[s].copy
           hosts == IF Registers(r, c) THEN {r} ELSE {}
           w == IF Registers(r, c) THEN [c EXCEPT !.verification = "pending"] ELSE c
<1>1. TypeOK /\ Copied(sync[s]) /\ sync' = [sync EXCEPT ![s] = NotSyncing]
  BY DEF IInv, Update, Syncs
<1>2. faults' \in 0..MaxFaults
  BY <1>1, FaultType DEF Update
<1>3. /\ r \in Runs /\ trig[r].pc = "done" /\ c \in Rows /\ Claims(job, c)
      /\ c.requestedAt = row[r].requestedAt /\ c.verification = "" /\ row[r] \in Rows
  BY <1>1 DEF IInv, Copied, Triggers
<1>4. w \in Rows /\ w.requestedAt = c.requestedAt /\ Claims(job, w)
  BY <1>3 DEF Rows, Claims
<1>5. RowFits(r, w, hosts)
  <2>1. CASE Registers(r, c)
    BY <1>3, <2>1 DEF Registers, RowFits, Rows
  <2>2. CASE ~Registers(r, c)
    BY <1>3, <2>2 DEF Registers, RowFits, Rows, Claims
  <2> QED BY <2>1, <2>2
<1>6. /\ hosts \subseteq Hosts
      /\ \A q \in hosts : q = r /\ Proven(job, row[r].requestedAt - Slack)
  <2>1. CASE Registers(r, c)
    <3>1. c.id \in Dispatches /\ job[c.id].status = "completed"
          /\ job[c.id].conclusion = "success"
          /\ job[c.id].created >= row[r].requestedAt - Slack
      BY <1>3, <2>1, RowParts DEF Registers, Claims
    <3>2. Proven(job, row[r].requestedAt - Slack)
      BY <3>1 DEF Proven
    <3> QED BY <2>1, <3>2 DEF Registers
  <2>2. CASE ~Registers(r, c)
    BY <2>2
  <2> QED BY <2>1, <2>2
<1>7. /\ UNCHANGED <<target, job, trig, poll, clock>>
      /\ registered \subseteq registered' /\ missed \subseteq missed'
      /\ registered' \subseteq registered \cup hosts /\ missed' \subseteq missed \cup hosts
      /\ \/ row' = [row EXCEPT ![r] = w] /\ hosts \subseteq registered' \cup missed'
         \/ row' = row
  BY DEF Update
<1> HIDE DEF w, hosts
<1>8. /\ row' \in [Runs -> Rows \cup {None}]
      /\ \A q \in Runs :
           \/ row'[q] = row[q]
           \/ q = r /\ row'[q] = w /\ hosts \subseteq registered' \cup missed'
  BY <1>1, <1>4, <1>7 DEF TypeOK
<1>9. /\ sync' \in [Syncers -> [pc : {"idle", "ask", "update"},
                                run : Runs \cup {None}, copy : Rows \cup {None}]]
      /\ \A z \in Syncers : z # s => sync'[z] = sync[z]
      /\ sync'[s].pc = "idle"
  BY <1>1, NotSyncingType DEF TypeOK, NotSyncing
<1>10. TypeOK' /\ Workflows'
  BY <1>1, <1>2, <1>6, <1>7, <1>8, <1>9 DEF IInv, TypeOK, Workflows
<1>11. Triggers'
  BY <1>3, <1>4, <1>7, <1>8 DEF IInv, Triggers
<1>12. Table'
  <2> SUFFICES ASSUME NEW q \in Runs, trig[q].pc = "done"
               PROVE  Claims(job, row'[q]) /\ RowFits(q, row'[q], registered' \cup missed')
    BY <1>7 DEF Table
  <2>1. CASE row'[q] = row[q]
    BY <1>7, <2>1 DEF IInv, Table, RowFits
  <2>2. CASE q = r /\ row'[q] = w /\ hosts \subseteq registered' \cup missed'
    BY <1>4, <1>5, <2>2 DEF RowFits
  <2> QED BY <1>8, <2>1, <2>2
<1>13. \A q \in Runs : row'[q].requestedAt = row[q].requestedAt
  BY <1>3, <1>4, <1>8
<1>14. Syncs'
  <2> SUFFICES ASSUME NEW z \in Syncers, sync'[z].pc # "idle" PROVE Copied(sync[z])'
    BY DEF Syncs
  <2>1. sync'[z] = sync[z] /\ Copied(sync[z])
    BY <1>9 DEF IInv, Syncs
  <2> QED BY <1>7, <1>13, <2>1 DEF Copied
<1>15. Registered'
  <2> SUFFICES ASSUME NEW q \in registered'
               PROVE  trig[q].pc = "done" /\ Proven(job, row'[q].requestedAt - Slack)
    BY <1>7 DEF Registered
  <2>1. CASE q \in registered
    BY <1>1, <1>13, <2>1, PartTypes DEF IInv, Registered
  <2>2. CASE q \in hosts
    BY <1>3, <1>6, <1>13, <2>2
  <2> QED BY <1>7, <2>1, <2>2
<1> QED BY <1>10, <1>11, <1>12, <1>14, <1>15 DEF IInv

-----------------------------------------------------------------------------
LEMMA RestartStep ==
  ASSUME IInv, Restart
  PROVE  IInv'
<1>1. TypeOK /\ faults' \in 0..MaxFaults
  BY FaultType DEF IInv, Restart
<1>2. /\ trig' \in [Runs -> [pc : TriggerPC, row : Rows]]
      /\ \A r \in Runs : \/ trig'[r] = trig[r]
                         \/ /\ trig[r].pc \notin {"idle", "done"}
                            /\ trig'[r].pc = "failed" /\ trig'[r].row = NewRow
  BY <1>1, NewRowClaims DEF Restart, TypeOK, TriggerPC
<1>3. /\ sync' \in [Syncers -> [pc : {"idle", "ask", "update"},
                                run : Runs \cup {None}, copy : Rows \cup {None}]]
      /\ \A s \in Syncers : sync'[s].pc = "idle"
  BY NotSyncingType DEF Restart, NotSyncing
<1>4. poll' \in PollType
  BY DEF Restart, FirstPage, PollType
<1>5. UNCHANGED <<target, job, row, registered, missed, clock>>
  BY DEF Restart
<1>6. TypeOK' /\ Workflows'
  BY <1>1, <1>2, <1>3, <1>4, <1>5 DEF IInv, TypeOK, TriggerPC, Workflows
<1>7. Triggers'
  BY <1>2, <1>5, NewRowClaims DEF IInv, Triggers
<1>8. \A r \in Runs : trig[r].pc = "done" <=> trig'[r].pc = "done"
  BY <1>2
<1>9. Table' /\ Registered'
  BY <1>1, <1>5, <1>8, PartTypes DEF IInv, Table, Registered
<1>10. Syncs'
  BY <1>3 DEF Syncs
<1> QED BY <1>6, <1>7, <1>9, <1>10 DEF IInv

\* The poller's page, the target, the clock and the count of faults are not
\* part of the argument.
LEMMA Elsewhere ==
  ASSUME IInv, target' \in BOOLEAN, poll' \in PollType,
         clock' \in 0..MaxClock, faults' \in 0..MaxFaults,
         UNCHANGED <<job, trig, row, registered, missed, sync>>
  PROVE  IInv'
<1>1. TypeOK' /\ Workflows' /\ Triggers' /\ Table' /\ Registered'
  BY DEF IInv, TypeOK, Workflows, Triggers, Table, Registered
<1>2. Syncs'
  BY DEF IInv, Syncs, Copied
<1> QED BY <1>1, <1>2 DEF IInv

LEMMA PollerStep ==
  ASSUME IInv, SyncOpenRuns
  PROVE  IInv'
<1>1. TypeOK
  BY DEF IInv
<1>2. poll' \in PollType
  <2>1. CASE ListDeployRuns
    <3>1. \A status : OfStatus(status) \subseteq Runs /\ Pages(status) \subseteq SUBSET Runs
      BY DEF OfStatus, Pages
    <3>2. 3 - poll.next \in 1..2
      BY <1>1 DEF TypeOK, PollType
    <3> QED BY <2>1, <3>1, <3>2 DEF ListDeployRuns, FirstPage, PollType
  <2>2. CASE PollNext
    BY <1>1, <2>2 DEF TypeOK, PollNext, PollType
  <2> QED BY <2>1, <2>2 DEF SyncOpenRuns
<1>3. CASE ListDeployRuns
  <2>1. /\ target' \in BOOLEAN /\ clock' \in 0..MaxClock /\ faults' \in 0..MaxFaults
    BY <1>1, <1>3, FaultType DEF TypeOK, ListDeployRuns
  <2> QED BY <1>2, <1>3, <2>1, Elsewhere DEF ListDeployRuns
<1>4. CASE PollNext
  <2>1. Poller \in Syncers /\ poll.batch \subseteq Runs
    BY <1>1 DEF Syncers, TypeOK, PollType
  <2>2. PICK r \in poll.batch : SyncRead(Poller, r)
    BY <1>4 DEF PollNext
  <2> QED BY <1>2, <1>4, <2>1, <2>2, ReadStep DEF PollNext
<1> QED BY <1>3, <1>4 DEF SyncOpenRuns

LEMMA Initially == Init => IInv
<1> SUFFICES ASSUME Init PROVE IInv
  OBVIOUS
<1>1. TypeOK
  <2> DEFINE j0 == [status |-> "none", conclusion |-> "", created |-> 0]
  <2>1. /\ clock = 0 /\ faults = 0 /\ poll = FirstPage
        /\ job = [j \in Dispatches |-> j0]
    BY DEF Init
  <2>2. j0 \in Jobs
    BY DeployAssumption DEF Jobs, JobStatus, Shown
  <2> HIDE DEF j0
  <2>3. job \in [Dispatches -> Jobs]
    BY <2>1, <2>2
  <2>4. trig \in [Runs -> [pc : TriggerPC, row : Rows]]
    BY NewRowClaims DEF Init, NoTrigger, TriggerPC
  <2>5. poll \in PollType
    BY <2>1 DEF FirstPage, PollType
  <2>6. clock \in 0..MaxClock /\ faults \in 0..MaxFaults
    BY <2>1, DeployAssumption
  <2> QED BY <2>3, <2>4, <2>5, <2>6, NotSyncingType DEF Init, TypeOK, TriggerPC
<1>2. Workflows
  BY DEF Init, Workflows
<1>3. Triggers /\ Table
  BY NewRowClaims DEF Init, Triggers, Table, NoTrigger, NewRow, Dispatches
<1>4. Syncs /\ Registered
  BY DEF Init, Syncs, Registered, NotSyncing
<1> QED BY <1>1, <1>2, <1>3, <1>4 DEF IInv

LEMMA Step == IInv /\ [Next]_vars => IInv'
<1> SUFFICES ASSUME IInv, [Next]_vars PROVE IInv'
  OBVIOUS
<1>1. TypeOK
  BY DEF IInv
<1>2. ASSUME NEW r \in Runs, Trigger(r) PROVE IInv'
  BY <1>2, DispatchStep, AttachStep, CreateStep DEF Trigger
<1>3. ASSUME NEW h \in Handlers, NEW r \in Runs, HandleGetRun(h, r) PROVE IInv'
  <2>1. h \in Syncers /\ poll' \in PollType
    BY <1>1, <1>3 DEF Syncers, TypeOK, HandleGetRun
  <2> QED BY <1>3, <2>1, ReadStep DEF HandleGetRun
<1>4. ASSUME NEW s \in Syncers, SyncRun(s) PROVE IInv'
  BY <1>4, AskStep, UpdateStep DEF SyncRun
<1>5. CASE DeleteDeployTarget
  BY <1>1, <1>5, Elsewhere DEF DeleteDeployTarget, TypeOK
<1>6. CASE Tick
  <2>1. clock' \in 0..MaxClock
    BY <1>1, <1>6, DeployAssumption DEF Tick, TypeOK
  <2> QED BY <1>1, <1>6, <2>1, Elsewhere DEF Tick, TypeOK
<1>7. CASE UNCHANGED vars
  BY <1>1, <1>7, Elsewhere DEF vars, TypeOK
<1> QED BY <1>2, <1>3, <1>4, <1>5, <1>6, <1>7, WorkflowStep, ForeignStep, PollerStep,
           RestartStep DEF Next

LEMMA Implies == IInv => DeployInv
<1> SUFFICES ASSUME IInv PROVE DeployInv
  OBVIOUS
<1>1. ASSUME NEW r \in Runs, row[r] # None
      PROVE  /\ Honest(row[r])
             /\ row[r].verification = "pending" <=>
                  (row[r].conclusion = "success" /\ r \in Hosts)
             /\ row[r].verification = "pending" => r \in registered \cup missed
  <2>1. Claims(job, row[r]) /\ RowFits(r, row[r], registered \cup missed)
    BY <1>1 DEF IInv, Triggers, Table
  <2>2. row[r].id # None => row[r].id \in Dispatches
    BY <1>1, RowParts, PartTypes DEF IInv
  <2> QED BY <2>1, <2>2 DEF Claims, RowFits, Honest, CreatedSince, Visible, Since
<1>2. ASSUME NEW r \in registered
      PROVE  \E j \in CreatedSince(Since(row[r])) : job[j].conclusion = "success"
  <2>1. Proven(job, row[r].requestedAt - Slack)
    BY DEF IInv, Registered
  <2> QED BY <2>1 DEF Proven, CreatedSince, Visible, Since, Shown
<1> QED BY <1>1, <1>2 DEF IInv, DeployInv

\* However Trigger, SyncRun, the poller, the API and other dispatches interleave,
\* and however many requests fail: a stored row claims no end and no conclusion
\* that a workflow of its own window did not have, and hosts are registered only
\* when such a workflow succeeded (internal/deploy/service.go).
THEOREM RowsTellTheTruth == Spec => []DeployInv
<1> QED BY Initially, Step, Implies, PTL DEF Spec
=============================================================================
