-------------------------- MODULE RolloutPlanProofs --------------------------
(***************************************************************************)
(* Theorems about RolloutPlan, for every plan, any number of engines and   *)
(* every bound: type correctness, the order of the steps and of their      *)
(* actions, that a succeeded action was executed, that a rollback has a    *)
(* reason, how often (with one engine) an action is executed, and that a   *)
(* failure takes the rest of the plan with it.                             *)
(***************************************************************************)
EXTENDS RolloutPlan, FiniteSetTheorems, TLAPS

-----------------------------------------------------------------------------
(* The ids of the table. *)

LEMMA RowIds ==
    /\ \A k \in Steps : Step(k) \in Rows /\ Undo(k) \in Rows /\ Step(k) # Undo(k)
    /\ \A k \in Steps : Step(k)[1] = "step" /\ Step(k)[2] = k
    /\ \A k \in Steps : Undo(k)[1] = "undo" /\ Undo(k)[2] = k
    /\ \A j, k \in Steps : (Step(j) = Step(k) => j = k) /\ Step(j) # Undo(k)
    /\ \A i \in Rows : i[2] \in Steps /\ (i = Step(i[2]) \/ i = Undo(i[2]))
    /\ \A i \in Rows : i[1] = "step" => i = Step(i[2])
    /\ \A i \in Rows : i[1] = "undo" => i = Undo(i[2])
    /\ \A k \in Steps : k \in Nat
    /\ 0 \in Steps
BY KindsAssumption DEF Rows, Step, Undo, Steps

LEMMA NewRowType ==
    ASSUME NEW st \in States, NEW v \in Nat, NEW pl \in BOOLEAN, NEW n \in Int,
           NEW g \in BOOLEAN, NEW pr \in BOOLEAN
    PROVE  NewRow(st, v, pl, n, g, pr) \in RowRec
BY DEF NewRow, RowRec

LEMMA LocalType ==
    ASSUME NEW pc \in PCs, NEW i \in Rows, NEW r \in RowRec,
           NEW todo \in SUBSET (Rows \X Nat), NEW w \in Nat
    PROVE  Local(pc, i, r, todo, w) \in ProcRec
BY DEF Local, ProcRec

LEMMA IdleType == Idle \in ProcRec
<1>1. Absent \in RowRec
  BY DEF Absent, NewRow, RowRec, States
<1>2. Step(0) \in Rows
  BY RowIds
<1> QED
  BY <1>1, <1>2 DEF Idle, PCs, Local, ProcRec

(* A goto or a return of a well-typed process. *)
LEMMA GotoType ==
    ASSUME proc \in [Procs -> ProcRec], NEW p \in Procs, NEW s \in ProcRec,
           proc' = [proc EXCEPT ![p] = s]
    PROVE  proc' \in [Procs -> ProcRec]
OBVIOUS

(* A write of the table. *)
LEMMA WriteType ==
    ASSUME row \in [Rows -> RowRec], NEW i \in Rows, NEW r \in RowRec, NEW v \in Nat,
           row' = [row EXCEPT ![i] = [r EXCEPT !.version = v]]
    PROVE  row' \in [Rows -> RowRec]
<1>1. [r EXCEPT !.version = v] \in RowRec
  BY DEF RowRec
<1> QED
  BY <1>1

LEMMA RequestType ==
    ASSUME req \in Seq(ReqRec), NEW q \in Nat, NEW st \in {"pending", "success", "failure", "denied"},
           req' = [req EXCEPT ![q].status = st]
    PROVE  req' \in Seq(ReqRec)
<1>1. \A x \in 1..Len(req) : req[x] \in ReqRec
  OBVIOUS
<1>2. \A x \in 1..Len(req) : [req[x] EXCEPT !.status = st] \in ReqRec
  BY <1>1 DEF ReqRec
<1>3. req \in [1..Len(req) -> ReqRec] /\ Len(req) \in Nat
  OBVIOUS
<1>4. req' \in [1..Len(req) -> ReqRec]
  BY <1>2, <1>3
<1> QED
  BY <1>3, <1>4

LEMMA ExpiryType ==
    ASSUME req \in Seq(ReqRec), NEW q \in DOMAIN req, req' = [req EXCEPT ![q].expired = TRUE]
    PROVE  req' \in Seq(ReqRec)
<1>1. \A x \in 1..Len(req) : req[x] \in ReqRec
  OBVIOUS
<1>2. \A x \in 1..Len(req) : [req[x] EXCEPT !.expired = TRUE] \in ReqRec
  BY <1>1 DEF ReqRec
<1>3. req \in [1..Len(req) -> ReqRec] /\ Len(req) \in Nat
  OBVIOUS
<1>4. req' \in [1..Len(req) -> ReqRec]
  BY <1>2, <1>3
<1> QED
  BY <1>3, <1>4

LEMMA FaultType ==
    ASSUME TypeOK, NEW kind, Fault(kind) PROVE faults' \in 0..MaxFaults
BY PlanBounds DEF TypeOK, Fault

(* The copy with another state, and the version it is written with. *)
LEMMA CopyType ==
    ASSUME NEW r \in RowRec, NEW st \in States
    PROVE  /\ [r EXCEPT !.state = st] \in RowRec
           /\ \A q \in Nat : [r EXCEPT !.state = st, !.request = q] \in RowRec
           /\ \A v \in Nat : [r EXCEPT !.state = st, !.version = v] \in RowRec
           /\ \A n \in Int : [r EXCEPT !.plan = TRUE, !.index = n] \in RowRec
           /\ r.version \in Nat /\ r.version + 1 \in Nat
<1>1. r.version \in Nat /\ r.version + 1 \in Nat
  BY DEF RowRec
<1>2. [r EXCEPT !.state = st] \in RowRec
  BY DEF RowRec
<1>3. ASSUME NEW q \in Nat PROVE [r EXCEPT !.state = st, !.request = q] \in RowRec
  BY DEF RowRec
<1>4. ASSUME NEW v \in Nat PROVE [r EXCEPT !.state = st, !.version = v] \in RowRec
  BY DEF RowRec
<1>5. ASSUME NEW n \in Int PROVE [r EXCEPT !.plan = TRUE, !.index = n] \in RowRec
  BY DEF RowRec
<1> QED
  BY <1>1, <1>2, <1>3, <1>4, <1>5

LEMMA VerdictType == \A q : Verdict(q) \in States
BY DEF Verdict, States

LEMMA InitType == Init => TypeOK
<1> SUFFICES ASSUME Init PROVE TypeOK
  OBVIOUS
<1>1. row \in [Rows -> RowRec]
  <2>1. PICK m \in 1..Len(Kinds), cleaned \in SUBSET Steps, gate \in BOOLEAN, first \in 0..Len(Kinds) :
            row = CreatePlan(m, cleaned, gate, first)
    BY DEF Init
  <2>2. ASSUME NEW i \in Rows PROVE CreatePlan(m, cleaned, gate, first)[i] \in RowRec
    <3>1. i[2] \in Int
      BY RowIds
    <3> QED
      BY <3>1 DEF CreatePlan, Absent, NewRow, RowRec, States
  <2> QED
    BY <2>1, <2>2 DEF CreatePlan
<1>2. proc \in [Procs -> ProcRec]
  BY IdleType DEF Init
<1> QED
  BY <1>1, <1>2, PlanBounds DEF Init, TypeOK, Results

-----------------------------------------------------------------------------
(* Type correctness, action by action. *)

LEMMA DecideType ==
    ASSUME TypeOK, NEW p \in Procs, NEW st \in States, Decide(p, st), faults' \in 0..MaxFaults
    PROVE  TypeOK'
<1>1. proc[p] \in ProcRec
  BY DEF TypeOK
<1>2. [proc[p].r EXCEPT !.state = st] \in RowRec
  BY <1>1, CopyType DEF ProcRec
<1>3. proc' \in [Procs -> ProcRec]
  BY <1>1, <1>2, GotoType, LocalType DEF Decide, Goto, TypeOK, ProcRec, PCs
<1> QED
  BY <1>3 DEF Decide, TypeOK, agentside

LEMMA PassType ==
    ASSUME TypeOK, NEW p \in Engines, Pass(p)
    PROVE  TypeOK'
<1> DEFINE s == proc[p]
<1>p. p \in Procs
  BY DEF Procs
<1>s. s \in ProcRec
  BY <1>p DEF TypeOK
<1>r. s.r \in RowRec /\ s.id \in Rows /\ s.todo \in SUBSET (Rows \X Nat) /\ s.walked \in Nat
  BY <1>s DEF ProcRec
<1>f. faults \in 0..MaxFaults
  BY DEF TypeOK
<1>goto. ASSUME NEW pc \in PCs, NEW i \in Rows, NEW r \in RowRec, Goto(p, pc, i, r)
         PROVE  proc' \in [Procs -> ProcRec]
  BY <1>goto, <1>p, GotoType, LocalType DEF Goto, TypeOK
<1>ret. ASSUME Return(p) PROVE proc' \in [Procs -> ProcRec]
  BY <1>ret, <1>p, GotoType, IdleType DEF Return, TypeOK
<1>upd. ASSUME NEW i \in Rows, NEW r \in RowRec, UpdateRollout(i, r) PROVE row' \in [Rows -> RowRec]
  <2>1. r.version + 1 \in Nat
    BY <1>upd DEF RowRec
  <2>2. row' = [row EXCEPT ![i] = [r EXCEPT !.version = r.version + 1]]
    BY <1>upd DEF UpdateRollout
  <2> QED
    BY <1>upd, <2>1, <2>2, WriteType DEF TypeOK
<1>pcs. \A pc \in {"persist", "next", "promote", "cancel_read", "cancel_write", "list_followers",
                   "list_predecessors", "predecessors", "link", "group"} : pc \in PCs
  BY DEF PCs
<1>1. CASE Start(p)
  BY <1>1, <1>p, <1>f, DecideType DEF Start, States
<1>2. CASE Finish(p)
  BY <1>2, <1>p, <1>f, DecideType DEF Finish, States
<1>3. CASE TriggerAbort(p)
  BY <1>3, <1>p, <1>f, DecideType DEF TriggerAbort, States
<1>4. CASE Finalize(p)
  BY <1>4, <1>p, <1>f, DecideType DEF Finalize, States
<1>5. CASE DispatchActionStep(p)
  <2>1. Len(req) + 1 \in Nat /\ req \in Seq(ReqRec)
    BY DEF TypeOK
  <2>2. [s.r EXCEPT !.state = "in_progress", !.request = Len(req) + 1] \in RowRec
    BY <1>r, <2>1, CopyType DEF States
  <2>3. proc' \in [Procs -> ProcRec]
    BY <1>5, <1>goto, <1>pcs, <1>r, <2>2 DEF DispatchActionStep
  <2>4. [step |-> s.id[2], status |-> "pending", expired |-> FALSE] \in ReqRec
    BY <1>r, RowIds DEF ReqRec
  <2>5. req' \in Seq(ReqRec)
    BY <1>5, <2>1, <2>4 DEF DispatchActionStep
  <2> QED
    BY <1>5, <2>3, <2>5 DEF DispatchActionStep, TypeOK, agentside
<1>6. CASE DispatchFails(p)
  BY <1>6, <1>p, FaultType, DecideType DEF DispatchFails, States
<1>7. CASE PollActionStep(p)
  BY <1>7, <1>p, <1>f, VerdictType, DecideType DEF PollActionStep
<1>8. CASE PollAgain(p)
  BY <1>8, <1>ret, <1>f, FaultType DEF PollAgain, TypeOK, agentside
<1>9. CASE Persist(p)
  <2>1. CASE UpdateRollout(s.id, s.r) /\ AfterPersist(p, s.r) /\ UNCHANGED faults
    BY <1>9, <2>1, <1>r, <1>upd, <1>goto, <1>ret, <1>pcs DEF Persist, AfterPersist, TypeOK, agentside
  <2>2. CASE Return(p) /\ UNCHANGED <<row, faults>>
    BY <1>9, <2>2, <1>ret DEF Persist, TypeOK, agentside
  <2>3. CASE Fault("store") /\ Return(p) /\ UNCHANGED row
    BY <1>9, <2>3, <1>ret, FaultType DEF Persist, TypeOK, agentside
  <2> QED
    BY <1>9, <2>1, <2>2, <2>3 DEF Persist
<1>10. CASE NextPlanStep(p)
  <2>1. ASSUME NEW i \in Rows, Goto(p, "promote", i, [row[i] EXCEPT !.state = "pending"])
        PROVE  proc' \in [Procs -> ProcRec]
    BY <2>1, <1>goto, <1>pcs, CopyType DEF TypeOK, States
  <2>2. proc' \in [Procs -> ProcRec]
    BY <1>10, <2>1, <1>ret DEF NextPlanStep
  <2>3. faults' \in 0..MaxFaults
    BY <1>10, <1>f, FaultType DEF NextPlanStep
  <2> QED
    BY <1>10, <2>2, <2>3 DEF NextPlanStep, TypeOK, agentside
<1>11. CASE Promote(p)
  <2>1. row' \in [Rows -> RowRec]
    BY <1>11, <1>upd, <1>r DEF Promote, TypeOK
  <2>2. faults' \in 0..MaxFaults
    BY <1>11, <1>f, FaultType DEF Promote
  <2> QED
    BY <1>11, <2>1, <2>2, <1>ret DEF Promote, TypeOK, agentside
<1>12. CASE CancelRead(p)
  <2>1. faults' \in 0..MaxFaults
    BY <1>12, <1>f, FaultType DEF CancelRead
  <2>2. proc' \in [Procs -> ProcRec]
    BY <1>12, <1>goto, <1>pcs, <1>r DEF CancelRead
  <2> QED
    BY <1>12, <2>1, <2>2 DEF CancelRead, TypeOK, agentside
<1>13. CASE CancelWrite(p)
  <2>1. faults' \in 0..MaxFaults
    BY <1>13, <1>f, FaultType DEF CancelWrite
  <2>2. proc' \in [Procs -> ProcRec]
    BY <1>13, <1>goto, <1>pcs, <1>r DEF CancelWrite
  <2>3. s.r.request \in Nat /\ req \in Seq(ReqRec)
    BY <1>r DEF RowRec, TypeOK
  <2>4. req' \in Seq(ReqRec)
    BY <1>13, <2>3, RequestType DEF CancelWrite
  <2> QED
    BY <1>13, <2>1, <2>2, <2>4 DEF CancelWrite, TypeOK, agentside
<1>14. CASE ListPredecessors(p)
  <2>1. ASSUME NEW S \in SUBSET Rows PROVE {<<i, row[i].version>> : i \in S} \in SUBSET (Rows \X Nat)
    BY DEF TypeOK, RowRec
  <2>2. ASSUME NEW S \in SUBSET Rows, Walk(p, "predecessors", S) PROVE proc' \in [Procs -> ProcRec]
    BY <2>1, <2>2, <1>r, <1>p, <1>pcs, LocalType, GotoType DEF Walk, TypeOK
  <2>3. proc' \in [Procs -> ProcRec]
    BY <1>14, <2>2, <1>ret DEF ListPredecessors
  <2>4. faults' \in 0..MaxFaults
    BY <1>14, <1>f, FaultType DEF ListPredecessors
  <2> QED
    BY <1>14, <2>3, <2>4 DEF ListPredecessors, TypeOK, agentside
<1>15. CASE CreateUndo(p)
  <2>1. PICK t \in s.todo :
            \/ \E gate \in BOOLEAN :
                  LET r == NewRow(IF gate THEN "pending_approval" ELSE "pending",
                                  1, FALSE, 0, gate, TRUE)
                  IN
                  /\ row' = [row EXCEPT ![Undo(t[1][2])] = r]
                  /\ proc' = [proc EXCEPT ![p] = Local("link", Undo(t[1][2]), r, s.todo \ {t}, s.walked + 1)]
                  /\ UNCHANGED faults
            \/ SkipUndo(p, t) /\ UNCHANGED <<row, faults>>
            \/ Fault("store") /\ SkipUndo(p, t) /\ UNCHANGED row
    BY <1>15 DEF CreateUndo
  <2>2. t[1] \in Rows /\ Undo(t[1][2]) \in Rows
    BY <1>r, RowIds
  <2>3. s.todo \ {t} \in SUBSET (Rows \X Nat) /\ s.walked + 1 \in Nat
    BY <1>r
  <2>4. ASSUME SkipUndo(p, t), UNCHANGED row, faults' \in 0..MaxFaults PROVE TypeOK'
    <3>1. proc' \in [Procs -> ProcRec]
      BY <1>p, <1>s, <2>3, <2>4 DEF SkipUndo, TypeOK, ProcRec
    <3> QED
      BY <1>15, <2>4, <3>1 DEF CreateUndo, TypeOK, agentside
  <2>5. ASSUME NEW gate \in BOOLEAN, NEW r,
               r = NewRow(IF gate THEN "pending_approval" ELSE "pending", 1, FALSE, 0, gate, TRUE),
               row' = [row EXCEPT ![Undo(t[1][2])] = r],
               proc' = [proc EXCEPT ![p] = Local("link", Undo(t[1][2]), r, s.todo \ {t}, s.walked + 1)],
               UNCHANGED faults
        PROVE  TypeOK'
    <3>1. r \in RowRec
      BY <2>5 DEF NewRow, RowRec, States
    <3>2. row' \in [Rows -> RowRec]
      BY <2>2, <2>5, <3>1 DEF TypeOK
    <3>3. Local("link", Undo(t[1][2]), r, s.todo \ {t}, s.walked + 1) \in ProcRec
      BY <2>2, <2>3, <3>1, <1>pcs, LocalType
    <3>4. proc' \in [Procs -> ProcRec]
      BY <1>p, <2>5, <3>3, GotoType DEF TypeOK
    <3> QED
      BY <1>15, <2>5, <3>2, <3>4 DEF CreateUndo, TypeOK, agentside
  <2> QED
    BY <2>1, <2>4, <2>5, <1>f, FaultType
<1>16. CASE LinkUndo(p)
  <2>1. faults' \in 0..MaxFaults
    BY <1>16, <1>f, FaultType DEF LinkUndo
  <2>2. row' \in [Rows -> RowRec]
    <3>1. row[s.id].version + 1 \in Nat
      BY <1>r DEF TypeOK, RowRec
    <3> QED
      BY <1>16, <1>r, <3>1, WriteType DEF LinkUndo, Overwrite, TypeOK
  <2>3. ASSUME NEW pc \in PCs, proc' = [proc EXCEPT ![p].pc = pc] PROVE proc' \in [Procs -> ProcRec]
    BY <2>3, <1>s, <1>p DEF TypeOK, ProcRec
  <2>4. proc' \in [Procs -> ProcRec]
    BY <1>16, <2>3, <1>pcs DEF LinkUndo, NextUndo
  <2> QED
    BY <1>16, <2>1, <2>2, <2>4 DEF LinkUndo, TypeOK, agentside
<1>17. CASE GroupUndo(p)
  <2>1. faults' \in 0..MaxFaults
    BY <1>17, <1>f, FaultType DEF GroupUndo
  <2>2. [s.r EXCEPT !.plan = TRUE, !.index = -s.walked] \in RowRec
    <3>1. -s.walked \in Int
      BY <1>r
    <3> QED
      BY <1>r, <3>1 DEF RowRec
  <2>3. row' \in [Rows -> RowRec]
    <3>1. row[s.id].version + 1 \in Nat
      BY <1>r DEF TypeOK, RowRec
    <3> QED
      BY <1>17, <1>r, <2>2, <3>1, WriteType DEF GroupUndo, Overwrite, TypeOK
  <2>4. proc' \in [Procs -> ProcRec]
    BY <1>17, <1>s, <1>p DEF GroupUndo, NextUndo, TypeOK, ProcRec, PCs
  <2> QED
    BY <1>17, <2>1, <2>3, <2>4 DEF GroupUndo, TypeOK, agentside
<1>18. CASE PredecessorsDone(p)
  BY <1>18, <1>ret DEF PredecessorsDone, TypeOK, agentside
<1> QED
  BY <1>1, <1>2, <1>3, <1>4, <1>5, <1>6, <1>7, <1>8, <1>9, <1>10, <1>11, <1>12, <1>13, <1>14,
     <1>15, <1>16, <1>17, <1>18 DEF Pass

(* The cancellation walk, of an engine or of the API process. *)
LEMMA CancelWalkType ==
    ASSUME TypeOK, NEW p \in Procs, CancelWalk(p)
    PROVE  TypeOK'
<1> DEFINE s == proc[p]
<1>s. s \in ProcRec
  BY DEF TypeOK
<1>r. s.r \in RowRec /\ s.id \in Rows /\ s.todo \in SUBSET (Rows \X Nat) /\ s.walked \in Nat
  BY <1>s DEF ProcRec
<1>f. faults \in 0..MaxFaults
  BY DEF TypeOK
<1>done. ASSUME FollowersDone(p) PROVE proc' \in [Procs -> ProcRec]
  <2>1. "list_predecessors" \in PCs
    BY DEF PCs
  <2> QED
    BY <1>done, <1>r, <2>1, GotoType, LocalType, IdleType DEF FollowersDone, Goto, Return, TypeOK
<1>1. CASE ListFollowers(p)
  <2>1. ASSUME NEW S \in SUBSET Rows PROVE {<<i, row[i].version>> : i \in S} \in SUBSET (Rows \X Nat)
    BY DEF TypeOK, RowRec
  <2>2. ASSUME NEW S \in SUBSET Rows, Walk(p, "followers", S) PROVE proc' \in [Procs -> ProcRec]
    <3>1. "followers" \in PCs
      BY DEF PCs
    <3> QED
      BY <2>1, <2>2, <3>1, <1>r, LocalType, GotoType DEF Walk, TypeOK
  <2>3. proc' \in [Procs -> ProcRec]
    BY <1>1, <2>2, <1>done DEF ListFollowers
  <2>4. faults' \in 0..MaxFaults
    BY <1>1, <1>f, FaultType DEF ListFollowers
  <2> QED
    BY <1>1, <2>3, <2>4 DEF ListFollowers, TypeOK, agentside
<1>2. CASE CancelFollower(p)
  <2>1. PICK t \in s.todo :
           LET i == t[1]
               r == [row[i] EXCEPT !.state = "cancelled", !.version = t[2]]
           IN
           \/ /\ UpdateRollout(i, r)
              /\ proc' = [proc EXCEPT ![p].todo = @ \ {t}]
              /\ UNCHANGED faults
           \/ FollowersDone(p) /\ UNCHANGED <<row, faults>>
           \/ Fault("store") /\ FollowersDone(p) /\ UNCHANGED row
    BY <1>2 DEF CancelFollower
  <2>2. t[1] \in Rows /\ t[2] \in Nat /\ row[t[1]] \in RowRec
    BY <1>r DEF TypeOK
  <2>3. CASE FollowersDone(p) /\ (UNCHANGED <<row, faults>> \/ (Fault("store") /\ UNCHANGED row))
    BY <1>2, <2>3, <1>done, <1>f, FaultType DEF CancelFollower, TypeOK, agentside
  <2>4. ASSUME NEW r, r = [row[t[1]] EXCEPT !.state = "cancelled", !.version = t[2]],
               UpdateRollout(t[1], r), proc' = [proc EXCEPT ![p].todo = @ \ {t}], UNCHANGED faults
        PROVE  TypeOK'
    <3>1. r \in RowRec
      BY <2>2, <2>4 DEF RowRec, States
    <3>2. r.version + 1 \in Nat
      BY <3>1 DEF RowRec
    <3>3. row' = [row EXCEPT ![t[1]] = [r EXCEPT !.version = r.version + 1]]
      BY <2>4 DEF UpdateRollout
    <3>4. row' \in [Rows -> RowRec]
      BY <2>2, <3>1, <3>2, <3>3, WriteType DEF TypeOK
    <3>5. proc' \in [Procs -> ProcRec]
      BY <2>4, <1>s DEF TypeOK, ProcRec
    <3> QED
      BY <1>2, <2>4, <3>4, <3>5 DEF CancelFollower, TypeOK, agentside
  <2> QED
    BY <2>1, <2>3, <2>4
<1>3. CASE FollowersCancelled(p)
  BY <1>3, <1>done DEF FollowersCancelled, TypeOK, agentside
<1> QED
  BY <1>1, <1>2, <1>3 DEF CancelWalk

LEMMA CommandType ==
    ASSUME TypeOK, NEW name, NEW i \in Rows, NEW states, NEW new \in States,
           Command(name, i, states, new), proc' \in [Procs -> ProcRec]
    PROVE  TypeOK'
<1>1. row[i] \in RowRec
  BY DEF TypeOK
<1>2. [row[i] EXCEPT !.state = new] \in RowRec /\ row[i].version + 1 \in Nat
  BY <1>1 DEF RowRec
<1>3. row' = [row EXCEPT ![i] = [[row[i] EXCEPT !.state = new] EXCEPT !.version = row[i].version + 1]]
  BY <1>1 DEF Command, UpdateRollout, RowRec
<1>4. row' \in [Rows -> RowRec]
  BY <1>2, <1>3, WriteType DEF TypeOK
<1>5. cmds' \in 0..MaxCommands
  BY PlanBounds DEF Command, TypeOK
<1> QED
  BY <1>4, <1>5 DEF Command, TypeOK, agentside

LEMMA OperatorType ==
    ASSUME TypeOK, NEW i \in Rows, Pause(i) \/ Resume(i) \/ Abort(i) \/ Approve(i) \/ Reject(i)
    PROVE  TypeOK'
<1>p. proc \in [Procs -> ProcRec] /\ Api \in Procs
  BY DEF TypeOK, Procs
<1>1. CASE Pause(i)
  BY <1>1, <1>p, CommandType DEF Pause, States
<1>2. CASE Resume(i)
  BY <1>2, <1>p, CommandType DEF Resume, States
<1>3. CASE Abort(i)
  BY <1>3, <1>p, CommandType DEF Abort, States
<1>4. CASE Approve(i)
  BY <1>4, <1>p, CommandType DEF Approve, States
<1>5. CASE Reject(i)
  <2>1. row[i] \in RowRec /\ "list_followers" \in PCs
    BY DEF TypeOK, PCs
  <2>2. proc' \in [Procs -> ProcRec]
    BY <1>5, <1>p, <2>1, GotoType, LocalType DEF Reject, Goto
  <2> QED
    BY <1>5, <2>2, CommandType DEF Reject, States
<1> QED
  BY <1>1, <1>2, <1>3, <1>4, <1>5

LEMMA FlagType ==
    ASSUME TypeOK, NEW i \in Rows, SetExcludeFromLearning(i) PROVE TypeOK'
<1>1. row[i] \in RowRec /\ i[2] \in Steps
  BY RowIds DEF TypeOK
<1>2. row[i].version + 1 \in Nat
  BY <1>1 DEF RowRec
<1>3. row' = [row EXCEPT ![i] = [row[i] EXCEPT !.version = row[i].version + 1]]
  BY <1>1 DEF SetExcludeFromLearning, UpdateRollout, RowRec
<1>4. row' \in [Rows -> RowRec]
  BY <1>1, <1>2, <1>3, WriteType DEF TypeOK
<1>5. cmds' \in 0..MaxCommands
  BY PlanBounds DEF SetExcludeFromLearning, TypeOK
<1>6. flips' \in [Steps -> Nat]
  BY <1>1 DEF SetExcludeFromLearning, TypeOK
<1> QED
  BY <1>4, <1>5, <1>6 DEF SetExcludeFromLearning, TypeOK

LEMMA RunnerType ==
    ASSUME TypeOK,
           \/ FetchPending \/ PostResult \/ RunnerRestart
           \/ \E q \in DOMAIN req : HandleOne(q) \/ Expire(q)
    PROVE  TypeOK'
<1> DEFINE RunnerRec == [batch: SUBSET Nat, at: Nat, result: Results, seen: SUBSET Nat]
<1>t. runner \in RunnerRec /\ req \in Seq(ReqRec) /\ DOMAIN req \subseteq Nat
  BY DEF TypeOK
<1>1. CASE FetchPending
  <2>1. ({q \in DOMAIN req : req[q].status = "pending"} \ runner.seen) \in SUBSET Nat
    BY <1>t
  <2>2. runner' \in RunnerRec
    BY <1>1, <1>t, <2>1 DEF FetchPending
  <2> QED
    BY <1>1, <2>2 DEF FetchPending, TypeOK
<1>2. CASE PostResult
  <2>1. runner' \in RunnerRec
    BY <1>2, <1>t DEF PostResult, Results
  <2>2. faults' \in 0..MaxFaults
    BY <1>2, FaultType DEF PostResult, TypeOK
  <2>3. runner.at \in Nat /\ runner.result \in {"pending", "success", "failure", "denied"}
    BY <1>t DEF Results
  <2>4. req' \in Seq(ReqRec)
    BY <1>2, <1>t, <2>3, RequestType DEF PostResult
  <2> QED
    BY <1>2, <2>1, <2>2, <2>4 DEF PostResult, TypeOK
<1>3. CASE RunnerRestart
  <2>1. runner' \in RunnerRec
    BY <1>3, <1>t DEF RunnerRestart, Results
  <2> QED
    BY <1>3, <2>1, FaultType DEF RunnerRestart, TypeOK
<1>4. ASSUME NEW q \in DOMAIN req, HandleOne(q) PROVE TypeOK'
  <2>1. PICK result \in Results :
           /\ runner' = [runner EXCEPT !.batch = @ \ {q}, !.at = q, !.result = result,
                                       !.seen = @ \cup {q}]
           /\ ran' = IF result = "denied" THEN ran ELSE [ran EXCEPT ![req[q].step] = @ + 1]
    BY <1>4 DEF HandleOne
  <2>2. q \in Nat /\ runner.batch \ {q} \in SUBSET Nat /\ runner.seen \cup {q} \in SUBSET Nat
    BY <1>t
  <2>3. runner' = [batch |-> runner.batch \ {q}, at |-> q, result |-> runner'.result,
                   seen |-> runner.seen \cup {q}] /\ runner'.result \in Results
    BY <1>t, <2>1
  <2>4. req[q].step \in Steps
    <3>1. req[q] \in ReqRec
      BY <1>t
    <3> QED
      BY <3>1 DEF ReqRec
  <2>5. ran' \in [Steps -> Nat]
    BY <2>1, <2>4 DEF TypeOK
  <2> QED
    BY <1>4, <2>2, <2>3, <2>5 DEF HandleOne, TypeOK
<1>5. ASSUME NEW q \in DOMAIN req, Expire(q) PROVE TypeOK'
  BY <1>5, <1>t, ExpiryType DEF Expire, TypeOK, agentside
<1> QED
  BY <1>1, <1>2, <1>3, <1>4, <1>5

LEMMA NextType == TypeOK /\ [Next]_vars => TypeOK'
<1> SUFFICES ASSUME TypeOK, [Next]_vars PROVE TypeOK'
  OBVIOUS
<1>1. ASSUME NEW p \in Engines, NEW i \in Rows, ListRollouts(p, i) PROVE TypeOK'
  <2>1. p \in Procs /\ row[i] \in RowRec /\ "listed" \in PCs
    BY DEF Procs, TypeOK, PCs
  <2>2. proc' \in [Procs -> ProcRec]
    BY <1>1, <2>1, GotoType, LocalType DEF ListRollouts, Goto, TypeOK
  <2> QED
    BY <1>1, <2>2 DEF ListRollouts, TypeOK, agentside
<1>2. ASSUME NEW p \in Procs, Crash(p) PROVE TypeOK'
  <2>1. proc' \in [Procs -> ProcRec]
    BY <1>2, GotoType, IdleType DEF Crash, Return, TypeOK
  <2> QED
    BY <1>2, <2>1, FaultType DEF Crash, TypeOK, agentside
<1>3. CASE UNCHANGED vars
  BY <1>3 DEF vars, TypeOK
<1> QED
  BY <1>1, <1>2, <1>3, PassType, CancelWalkType, OperatorType, FlagType, RunnerType DEF Next

(* Every reachable state of the plan model is well typed. *)
THEOREM PlanTypeCorrect == Spec => []TypeOK
<1>1. Init => TypeOK
  BY InitType
<1>2. TypeOK /\ [Next]_vars => TypeOK'
  BY NextType
<1> QED
  BY <1>1, <1>2, PTL DEF Spec

-----------------------------------------------------------------------------
(* The order of the plan.                                                  *)
(*                                                                         *)
(* A step of the system leaves the row of a plan step alone or moves it,   *)
(* and a move raises the version, leaves a succeeded row succeeded, brings *)
(* no row back to waiting, and makes one startable only when the steps     *)
(* before it have succeeded.                                               *)

IInv == TypeOK /\ PlanOrder /\ ActionsInOrder /\ PlanCopies

Moved(k) ==
    LET o == row[Step(k)]
        n == row'[Step(k)]
    IN
    /\ n.version = o.version + 1
    /\ o.state # "absent" /\ n.state # "absent"
    /\ o.state = "succeeded" => n.state = "succeeded"
    /\ n.state \in {"queued", "pending_approval"} => o.state = n.state
    /\ n.plan /\ n.index = k
    /\ n.state = "rejected" => k = 0
    /\ Past(o.state) => Past(n.state)
    /\ n.state \in Started => DoneBefore(k)

TableStep ==
    /\ \A k \in Steps : row'[Step(k)] = row[Step(k)] \/ Moved(k)
    /\ \A k \in Steps : row'[Undo(k)].state # "queued"
                        /\ (row'[Undo(k)].plan => row'[Undo(k)].index < 0)

LEMMA RowType ==
    ASSUME TypeOK, NEW i \in Rows
    PROVE  row[i] \in RowRec /\ row[i].version \in Nat /\ row[i].version + 1 \in Nat
<1>1. row[i] \in RowRec
  BY DEF TypeOK
<1> QED
  BY <1>1 DEF RowRec

LEMMA NoWrite == ASSUME RowsOK, UNCHANGED row PROVE TableStep
BY DEF TableStep, RowsOK

LEMMA StepWrite ==
    ASSUME TypeOK, RowsOK, NEW k \in Steps, NEW r \in RowRec,
           row' = [row EXCEPT ![Step(k)] = r],
           r.version = row[Step(k)].version + 1,
           row[Step(k)].state \notin {"absent", "succeeded"},
           r.state \notin {"absent", "queued", "pending_approval"},
           r.plan, r.index = k,
           r.state = "rejected" => k = 0,
           Past(row[Step(k)].state) => Past(r.state),
           r.state \in Started => DoneBefore(k)
    PROVE  TableStep
<1>1. \A j \in Steps : row'[Undo(j)] = row[Undo(j)]
  BY RowIds DEF TypeOK
<1>2. row'[Step(k)] = r
  BY RowIds DEF TypeOK
<1>3. \A j \in Steps : j # k => row'[Step(j)] = row[Step(j)]
  BY RowIds DEF TypeOK
<1>4. Moved(k)
  BY <1>2 DEF Moved
<1> QED
  BY <1>1, <1>3, <1>4 DEF TableStep, RowsOK

LEMMA UndoWrite ==
    ASSUME TypeOK, RowsOK, NEW k \in Steps, NEW r \in RowRec,
           row' = [row EXCEPT ![Undo(k)] = r],
           r.state # "queued", r.plan => r.index < 0
    PROVE  TableStep
<1>1. \A j \in Steps : row'[Step(j)] = row[Step(j)]
  BY RowIds DEF TypeOK
<1>2. \A j \in Steps : row'[Undo(j)] = r \/ row'[Undo(j)] = row[Undo(j)]
  BY RowIds DEF TypeOK
<1> QED
  BY <1>1, <1>2 DEF TableStep, RowsOK

(* What has succeeded stays so. *)
LEMMA DoneStable ==
    ASSUME TableStep, NEW k \in Steps, DoneBefore(k) PROVE DoneBefore(k)'
BY DEF TableStep, Moved, DoneBefore

LEMMA OrderStep ==
    ASSUME TypeOK, RowsOK, PlanOrder, TableStep PROVE RowsOK' /\ PlanOrder'
<1>1. ASSUME NEW k \in Steps, row'[Step(k)].state \in Started PROVE DoneBefore(k)'
  <2>1. DoneBefore(k)
    BY <1>1 DEF TableStep, Moved, PlanOrder
  <2> QED
    BY <2>1, DoneStable
<1>2. RowsOK'
  BY DEF RowsOK, TableStep, Moved, Queued
<1> QED
  BY <1>1, <1>2 DEF PlanOrder

LEMMA ActionsStep ==
    ASSUME TypeOK, ActionsInOrder, TableStep,
           \A k \in Steps : ran'[k] > 0 \/ Open(k)' =>
               \/ ran[k] > 0 \/ Open(k)
               \/ DoneBefore(k) /\ Past(row[Step(k)].state)
    PROVE  ActionsInOrder'
<1> SUFFICES ASSUME NEW k \in Steps, ran'[k] > 0 \/ Open(k)'
             PROVE  DoneBefore(k)' /\ row'[Step(k)].state \notin {"pending_approval", "rejected", "queued"}
  BY DEF ActionsInOrder
<1>1. DoneBefore(k) /\ row[Step(k)].state \notin {"pending_approval", "rejected", "queued"}
  BY DEF ActionsInOrder, Past
<1>2. DoneBefore(k)'
  BY <1>1, DoneStable
<1> QED
  BY <1>1, <1>2 DEF TableStep, Moved, Past

(* What a process that does not move takes the table for stays true. *)
LEMMA CopyStable ==
    ASSUME TypeOK, TypeOK', TableStep, NEW p \in Procs, CopyOK(p), proc'[p] = proc[p]
    PROVE  CopyOK(p)'
<1> DEFINE s == proc[p]
<1>0. s \in ProcRec /\ s.id \in Rows /\ s.r \in RowRec /\ s.r.version \in Nat
      /\ s.todo \in SUBSET (Rows \X Nat) /\ proc'[p] = s
  BY DEF TypeOK, ProcRec, RowRec
<1>v. \A i \in Rows : row[i].version \in Nat /\ row'[i].version \in Nat
  BY DEF TypeOK, RowRec
<1>m. ASSUME NEW i \in Rows, i[1] = "step"
      PROVE  /\ i[2] \in Steps
             /\ row'[i] = row[i] \/ (row'[i].version = row[i].version + 1 /\ Moved(i[2]))
             /\ row[i].state = "succeeded" => row'[i].state = "succeeded"
             /\ Past(row[i].state) => Past(row'[i].state)
             /\ DoneBefore(i[2]) => DoneBefore(i[2])'
  <2>1. i[2] \in Steps /\ i = Step(i[2])
    BY <1>m, RowIds
  <2> QED
    BY <2>1, DoneStable DEF TableStep, Moved
<1>1. WorkOK(p)'
  <2> SUFFICES ASSUME s.pc \in {"listed", "persist"}, s.id[1] = "step"
               PROVE  /\ s.r.version <= row'[s.id].version
                      /\ s.r.version = row'[s.id].version => row'[s.id].state \in Active
                      /\ Past(row'[s.id].state) /\ Past(s.r.state)
                      /\ s.r.state \in Started => DoneBefore(s.id[2])'
    BY <1>0 DEF WorkOK, Active, Started, DoneBefore
  <2> QED
    BY <1>0, <1>v, <1>m DEF CopyOK, WorkOK
<1>2. CopyIndexOK(p)'
  BY <1>0 DEF CopyOK, CopyIndexOK
<1>3. NextOK(p)'
  <2> SUFFICES ASSUME s.pc = "next"
               PROVE  s.r.plan /\ (s.id[1] = "step" =>
                        row'[s.id].state = "succeeded" /\ DoneBefore(s.id[2])')
    BY <1>0 DEF NextOK, DoneBefore
  <2> QED
    BY <1>0, <1>m DEF CopyOK, NextOK
<1>4. PromoteOK(p)'
  <2> SUFFICES ASSUME s.pc = "promote"
               PROVE  /\ s.id[1] = "step" /\ s.r.plan /\ s.r.index = s.id[2] /\ s.r.state = "pending"
                      /\ s.r.version <= row'[s.id].version
                      /\ s.r.version = row'[s.id].version => row'[s.id].state = "queued"
                      /\ DoneBefore(s.id[2])'
    BY <1>0 DEF PromoteOK, DoneBefore
  <2> QED
    BY <1>0, <1>v, <1>m DEF CopyOK, PromoteOK
<1>5. WalkOK(p)'
  <2>1. ASSUME s.pc = "followers", NEW t \in s.todo
        PROVE  /\ t[1][1] = "step"
               /\ t[2] <= row'[t[1]].version
               /\ t[2] = row'[t[1]].version => row'[t[1]].state = "queued"
    <3>1. t[1] \in Rows /\ t[2] \in Nat
      BY <1>0
    <3>2. /\ t[1][1] = "step"
          /\ t[2] <= row[t[1]].version
          /\ t[2] = row[t[1]].version => row[t[1]].state = "queued"
      BY <2>1 DEF CopyOK, WalkOK
    <3> QED
      BY <3>1, <3>2, <1>v, <1>m
  <2>2. s.pc \in {"link", "group"} =>
          s.id[1] = "undo" /\ s.r.state # "queued" /\ ~s.r.plan /\ s.walked > 0
    BY DEF CopyOK, WalkOK
  <2> QED
    BY <1>0, <2>1, <2>2 DEF WalkOK
<1> QED
  BY <1>1, <1>2, <1>3, <1>4, <1>5 DEF CopyOK

(* No step is dispatched or executed out of turn in this step. *)
ActionStep ==
    \A k \in Steps : ran'[k] > 0 \/ Open(k)' =>
        \/ ran[k] > 0 \/ Open(k)
        \/ DoneBefore(k) /\ Past(row[Step(k)].state)

LEMMA Assemble ==
    ASSUME IInv, TypeOK', TableStep, ActionStep, NEW p \in Procs, CopyOK(p)',
           \A u \in Procs : u # p => proc'[u] = proc[u]
    PROVE  IInv'
<1>1. RowsOK' /\ PlanOrder'
  BY OrderStep DEF IInv, PlanCopies
<1>2. ActionsInOrder'
  BY ActionsStep DEF IInv, ActionStep
<1>3. ASSUME NEW u \in Procs PROVE CopyOK(u)'
  <2>1. CASE u = p
    BY <2>1
  <2>2. CASE u # p
    BY <2>2, CopyStable DEF IInv, PlanCopies
  <2> QED
    BY <2>1, <2>2
<1> QED
  BY <1>1, <1>2, <1>3 DEF IInv, PlanCopies

(* A process that holds no copy it may write. *)
LEMMA NoCopy ==
    ASSUME NEW p \in Procs,
           proc'[p].pc \in {"idle", "cancel_read", "cancel_write", "list_followers",
                            "list_predecessors", "predecessors"}
    PROVE  CopyOK(p)'
BY DEF CopyOK, WorkOK, CopyIndexOK, NextOK, PromoteOK, WalkOK

LEMMA ReturnCopy ==
    ASSUME TypeOK, NEW p \in Procs, Return(p)
    PROVE  CopyOK(p)' /\ \A u \in Procs : u # p => proc'[u] = proc[u]
<1>1. proc'[p] = Idle /\ \A u \in Procs : u # p => proc'[u] = proc[u]
  BY DEF Return, TypeOK
<1>2. proc'[p].pc = "idle"
  BY <1>1 DEF Idle, Local
<1> QED
  BY <1>1, <1>2, NoCopy

LEMMA GotoCopy ==
    ASSUME TypeOK, NEW p \in Procs, NEW pc \in PCs, NEW i \in Rows, NEW r \in RowRec, Goto(p, pc, i, r)
    PROVE  /\ proc'[p] = Local(pc, i, r, {}, 0)
           /\ proc'[p].pc = pc /\ proc'[p].id = i /\ proc'[p].r = r
           /\ \A u \in Procs : u # p => proc'[u] = proc[u]
BY DEF Goto, TypeOK, Local

LEMMA SameRequests ==
    ASSUME UNCHANGED <<req, ran>> PROVE ActionStep
BY DEF ActionStep, Open

(* A change of the status or of the deadline of a request. *)
LEMMA StatusRequests ==
    ASSUME TypeOK, UNCHANGED ran,
           \/ \E q, st : req' = [req EXCEPT ![q].status = st]
           \/ \E q, st : req' = [req EXCEPT ![q].expired = st]
    PROVE  ActionStep
<1>1. DOMAIN req' = DOMAIN req /\ \A x \in DOMAIN req : req[x] \in ReqRec
  BY DEF TypeOK
<1>2. ASSUME NEW x \in DOMAIN req PROVE req'[x].step = req[x].step
  BY <1>1 DEF ReqRec
<1> QED
  BY <1>1, <1>2 DEF ActionStep, Open

(* The row a process has taken and moves to another state, its version the *)
(* one it was listed with.                                                 *)
LEMMA DecideCopy ==
    ASSUME TypeOK, NEW p \in Procs, CopyOK(p), proc[p].pc = "listed", UNCHANGED row,
           NEW r \in RowRec, Goto(p, "persist", proc[p].id, r),
           r.version = proc[p].r.version, r.plan = proc[p].r.plan, r.index = proc[p].r.index,
           Past(r.state),
           r.state \in Started => proc[p].r.state \in Started
    PROVE  CopyOK(p)' /\ \A u \in Procs : u # p => proc'[u] = proc[u]
<1> DEFINE s == proc[p]
<1>1. s.id \in Rows /\ "persist" \in PCs
  BY DEF TypeOK, ProcRec, PCs
<1>2. /\ proc'[p].pc = "persist" /\ proc'[p].id = s.id /\ proc'[p].r = r
      /\ \A u \in Procs : u # p => proc'[u] = proc[u]
  BY <1>1, GotoCopy
<1>3. WorkOK(p)'
  BY <1>2 DEF CopyOK, WorkOK, DoneBefore
<1>4. CopyIndexOK(p)'
  BY <1>2 DEF CopyOK, CopyIndexOK, Past
<1>5. NextOK(p)' /\ PromoteOK(p)' /\ WalkOK(p)'
  BY <1>2 DEF NextOK, PromoteOK, WalkOK
<1> QED
  BY <1>2, <1>3, <1>4, <1>5 DEF CopyOK

(* The passes that decide on a new state of the row. *)
LEMMA DecideOrder ==
    ASSUME IInv, TypeOK', NEW p \in Procs,
           \/ Start(p) \/ Finish(p) \/ TriggerAbort(p) \/ Finalize(p)
           \/ DispatchFails(p) \/ PollActionStep(p)
    PROVE  IInv'
<1> DEFINE s == proc[p]
<1>1. s.r \in RowRec /\ TypeOK /\ CopyOK(p) /\ RowsOK
  BY DEF IInv, TypeOK, ProcRec, PlanCopies
<1>2. ASSUME NEW st \in {"in_progress", "succeeded", "aborted", "rolled_back"}, Decide(p, st), At(p, "listed"),
             st \in {"in_progress", "succeeded"} => s.r.state \in {"pending", "in_progress"}
      PROVE  IInv'
  <2>1. [s.r EXCEPT !.state = st] \in RowRec /\ st \in States
    BY <1>1, <1>2, CopyType DEF States
  <2>2. CopyOK(p)' /\ \A u \in Procs : u # p => proc'[u] = proc[u]
    <3> DEFINE r == [s.r EXCEPT !.state = st]
    <3>1. r.state = st /\ r.version = s.r.version /\ r.plan = s.r.plan /\ r.index = s.r.index
      BY <1>1 DEF RowRec
    <3>2. Past(r.state) /\ (r.state \in Started => s.r.state \in Started)
      BY <1>2, <3>1 DEF Past, Started
    <3>3. Goto(p, "persist", s.id, r) /\ UNCHANGED row /\ s.pc = "listed"
      BY <1>2 DEF Decide, At
    <3> HIDE DEF r
    <3> QED
      BY <1>1, <2>1, <3>1, <3>2, <3>3, DecideCopy DEF r
  <2>3. TableStep /\ ActionStep
    BY <1>1, <1>2, NoWrite, SameRequests DEF Decide, agentside
  <2> QED
    BY <2>2, <2>3, Assemble
<1>3. CASE Start(p)
  BY <1>2, <1>3 DEF Start, Listed
<1>4. CASE Finish(p)
  BY <1>2, <1>4 DEF Finish, Listed
<1>5. CASE TriggerAbort(p)
  BY <1>2, <1>5 DEF TriggerAbort, Listed
<1>6. CASE Finalize(p)
  BY <1>2, <1>6 DEF Finalize, Listed
<1>7. CASE DispatchFails(p)
  BY <1>2, <1>7 DEF DispatchFails, Listed
<1>8. CASE PollActionStep(p)
  <2>1. Verdict(req[s.r.request]) \in {"in_progress", "succeeded", "aborted"}
    BY DEF Verdict
  <2> QED
    BY <1>2, <1>8, <2>1 DEF PollActionStep, Listed
<1> QED
  BY <1>3, <1>4, <1>5, <1>6, <1>7, <1>8

(* A step of a process that writes no row and keeps no copy. *)
LEMMA QuietOrder ==
    ASSUME IInv, TypeOK', UNCHANGED row, ActionStep, NEW p \in Procs,
           \/ Return(p)
           \/ \E pc \in {"cancel_write", "list_followers", "list_predecessors"} :
                 Goto(p, pc, proc[p].id, proc[p].r)
           \/ \E S \in SUBSET Rows : Walk(p, "predecessors", S)
    PROVE  IInv'
<1>1. TypeOK /\ RowsOK /\ proc[p].id \in Rows /\ proc[p].r \in RowRec
  BY DEF IInv, PlanCopies, TypeOK, ProcRec
<1>2. CopyOK(p)' /\ \A u \in Procs : u # p => proc'[u] = proc[u]
  <2>1. CASE Return(p)
    BY <1>1, <2>1, ReturnCopy
  <2>2. ASSUME NEW pc \in {"cancel_write", "list_followers", "list_predecessors"},
               Goto(p, pc, proc[p].id, proc[p].r)
        PROVE  CopyOK(p)' /\ \A u \in Procs : u # p => proc'[u] = proc[u]
    <3>1. pc \in PCs
      BY DEF PCs
    <3>2. proc'[p].pc = pc /\ \A u \in Procs : u # p => proc'[u] = proc[u]
      BY <1>1, <2>2, <3>1, GotoCopy
    <3> QED
      BY <3>2, NoCopy
  <2>3. ASSUME NEW S \in SUBSET Rows, Walk(p, "predecessors", S)
        PROVE  CopyOK(p)' /\ \A u \in Procs : u # p => proc'[u] = proc[u]
    <3>1. proc'[p].pc = "predecessors" /\ \A u \in Procs : u # p => proc'[u] = proc[u]
      BY <1>1, <2>3 DEF Walk, Local, TypeOK
    <3> QED
      BY <3>1, NoCopy
  <2> QED
    BY <2>1, <2>2, <2>3
<1> QED
  BY <1>1, <1>2, NoWrite, Assemble

LEMMA DispatchOrder ==
    ASSUME IInv, TypeOK', NEW p \in Procs, DispatchActionStep(p) PROVE IInv'
<1> DEFINE s == proc[p]
           r == [s.r EXCEPT !.state = "in_progress", !.request = Len(req) + 1]
<1>1. s.r \in RowRec /\ s.id \in Rows /\ TypeOK /\ CopyOK(p) /\ RowsOK /\ req \in Seq(ReqRec)
  BY DEF IInv, TypeOK, ProcRec, PlanCopies
<1>2. s.pc = "listed" /\ s.r.state = "pending" /\ s.id[1] = "step" /\ s.id = Step(s.id[2]) /\ s.id[2] \in Steps
  BY <1>1, RowIds DEF DispatchActionStep, Listed, At, Kind
<1>3. r \in RowRec
  <2>1. Len(req) + 1 \in Nat /\ "in_progress" \in States
    BY <1>1 DEF States
  <2> QED
    BY <1>1, <2>1 DEF RowRec
<1>4. r.state = "in_progress" /\ r.version = s.r.version /\ r.plan = s.r.plan /\ r.index = s.r.index
  BY <1>1 DEF RowRec
<1>5. Goto(p, "persist", s.id, r) /\ UNCHANGED row
  BY DEF DispatchActionStep
<1>6. CopyOK(p)' /\ \A u \in Procs : u # p => proc'[u] = proc[u]
  <2> HIDE DEF r
  <2> QED
    BY <1>1, <1>2, <1>3, <1>4, <1>5, DecideCopy DEF Past, Started
<1>7. DoneBefore(s.id[2]) /\ Past(row[s.id].state)
  BY <1>1, <1>2 DEF CopyOK, WorkOK, Started
<1>8. ActionStep
  <2>1. req' = Append(req, [step |-> s.id[2], status |-> "pending", expired |-> FALSE])
    BY DEF DispatchActionStep
  <2>2. \A x \in DOMAIN req' : (x \in DOMAIN req /\ req'[x] = req[x]) \/ req'[x].step = s.id[2]
    BY <1>1, <2>1
  <2>3. \A k \in Steps : Open(k)' => Open(k) \/ k = s.id[2]
    BY <2>2 DEF Open
  <2>4. UNCHANGED ran
    BY DEF DispatchActionStep, agentside
  <2> QED
    BY <1>2, <1>7, <2>3, <2>4 DEF ActionStep
<1> QED
  BY <1>1, <1>5, <1>6, <1>8, NoWrite, Assemble

LEMMA ListOrder ==
    ASSUME IInv, TypeOK', NEW p \in Procs, NEW i \in Rows, ListRollouts(p, i) PROVE IInv'
<1>1. TypeOK /\ RowsOK /\ row[i] \in RowRec /\ "listed" \in PCs /\ i[2] \in Steps
      /\ (i = Step(i[2]) \/ i = Undo(i[2]))
  BY RowIds DEF IInv, PlanCopies, TypeOK, PCs
<1>2. /\ proc'[p].pc = "listed" /\ proc'[p].id = i /\ proc'[p].r = row[i]
      /\ \A u \in Procs : u # p => proc'[u] = proc[u]
  BY <1>1, GotoCopy DEF ListRollouts
<1>3. row' = row /\ row[i].state \in Active /\ row[i].version \in Nat
  BY <1>1 DEF ListRollouts, Active, RowRec
<1>4. i[1] = "step" => i = Step(i[2])
  BY RowIds
<1>5. i[1] = "undo" => i = Undo(i[2])
  BY RowIds
<1>6. WorkOK(p)'
  <2>1. i[1] = "step" /\ row[i].state \in Started => DoneBefore(i[2])
    BY <1>1, <1>4 DEF IInv, PlanOrder
  <2> QED
    BY <1>2, <1>3, <2>1 DEF WorkOK, Past, Active, DoneBefore
<1>7. CopyIndexOK(p)'
  BY <1>1, <1>2, <1>3, <1>4, <1>5 DEF CopyIndexOK, RowsOK, Active
<1>8. NextOK(p)' /\ PromoteOK(p)' /\ WalkOK(p)'
  BY <1>2 DEF NextOK, PromoteOK, WalkOK
<1>9. ActionStep
  BY SameRequests DEF ListRollouts, agentside
<1> QED
  BY <1>1, <1>2, <1>3, <1>6, <1>7, <1>8, <1>9, NoWrite, Assemble DEF CopyOK

LEMMA NextStepOrder ==
    ASSUME IInv, TypeOK', NEW p \in Procs, NextPlanStep(p) PROVE IInv'
<1> DEFINE s == proc[p]
<1>1. s.r \in RowRec /\ s.id \in Rows /\ TypeOK /\ CopyOK(p) /\ RowsOK /\ s.r.index \in Int
  BY DEF IInv, TypeOK, ProcRec, PlanCopies, RowRec
<1>2. UNCHANGED row /\ ActionStep /\ s.pc = "next"
  BY SameRequests DEF NextPlanStep, agentside, At
<1>3. CASE Return(p)
  BY <1>2, <1>3, QuietOrder
<1>4. ASSUME NEW i \in Rows, InPlan(i), row[i].index = s.r.index + 1, row[i].state = "queued",
             Goto(p, "promote", i, [row[i] EXCEPT !.state = "pending"])
      PROVE  IInv'
  <2>1. row[i] \in RowRec /\ row[i].version \in Nat /\ [row[i] EXCEPT !.state = "pending"] \in RowRec
    <3>1. row[i] \in RowRec /\ "pending" \in States
      BY <1>1 DEF TypeOK, States
    <3> QED
      BY <3>1 DEF RowRec
  <2>2. i[2] \in Steps /\ i = Step(i[2]) /\ i[1] = "step"
    BY <1>1, <1>4, RowIds DEF RowsOK
  <2>3. row[i].plan /\ row[i].index = i[2] /\ i[2] > 0 /\ i[2] \in Nat
    BY <1>1, <1>4, <2>2, RowIds DEF RowsOK, Queued
  <2>4. s.id[1] = "step" /\ s.id[2] \in Steps /\ s.id = Step(s.id[2]) /\ i[2] = s.id[2] + 1
    BY <1>1, <1>2, <1>4, <2>3, RowIds DEF CopyOK, CopyIndexOK, NextOK
  <2>5. DoneBefore(i[2])
    <3>1. row[Step(s.id[2])].state = "succeeded" /\ DoneBefore(s.id[2])
      BY <1>1, <1>2, <2>4 DEF CopyOK, NextOK
    <3>2. \A j \in Steps : j < s.id[2] + 1 => j < s.id[2] \/ j = s.id[2]
      BY <2>4, RowIds
    <3> QED
      BY <2>4, <3>1, <3>2 DEF DoneBefore
  <2>6. /\ proc'[p].pc = "promote" /\ proc'[p].id = i /\ proc'[p].r = [row[i] EXCEPT !.state = "pending"]
        /\ \A u \in Procs : u # p => proc'[u] = proc[u]
    <3>1. "promote" \in PCs
      BY DEF PCs
    <3> QED
      BY <1>1, <1>4, <2>1, <3>1, GotoCopy
  <2>7. PromoteOK(p)'
    BY <1>2, <1>4, <2>1, <2>2, <2>3, <2>5, <2>6 DEF PromoteOK, DoneBefore, RowRec
  <2>8. WorkOK(p)' /\ CopyIndexOK(p)' /\ NextOK(p)' /\ WalkOK(p)'
    BY <2>6 DEF WorkOK, CopyIndexOK, NextOK, WalkOK
  <2> QED
    BY <1>1, <1>2, <2>6, <2>7, <2>8, NoWrite, Assemble DEF CopyOK
<1> QED
  BY <1>3, <1>4 DEF NextPlanStep

LEMMA PersistOrder ==
    ASSUME IInv, TypeOK', NEW p \in Procs, Persist(p) PROVE IInv'
<1> DEFINE s == proc[p]
           n == [s.r EXCEPT !.version = @ + 1]
<1>1. s.r \in RowRec /\ s.id \in Rows /\ TypeOK /\ CopyOK(p) /\ RowsOK /\ s.r.version \in Nat
  BY DEF IInv, TypeOK, ProcRec, PlanCopies, RowRec
<1>2. ActionStep /\ s.pc = "persist"
  BY SameRequests DEF Persist, agentside, At
<1>3. CASE UNCHANGED row /\ Return(p)
  BY <1>2, <1>3, QuietOrder
<1>4. CASE UpdateRollout(s.id, s.r) /\ AfterPersist(p, s.r)
  <2>1. s.r.version = row[s.id].version /\ row' = [row EXCEPT ![s.id] = n]
    BY <1>4 DEF UpdateRollout
  <2>2. /\ n \in RowRec /\ n.version = s.r.version + 1 /\ n.state = s.r.state
        /\ n.plan = s.r.plan /\ n.index = s.r.index
    BY <1>1 DEF RowRec
  <2>3. s.id[2] \in Steps /\ (s.id = Step(s.id[2]) \/ s.id = Undo(s.id[2]))
    BY <1>1, RowIds
  <2>4. TableStep
    <3>1. CASE s.id = Step(s.id[2])
      <4>1. s.id[1] = "step"
        BY <2>3, <3>1, RowIds
      <4>2. /\ row[s.id].state \in Active /\ Past(s.r.state) /\ s.r.plan /\ s.r.index = s.id[2]
            /\ s.r.state \in Started => DoneBefore(s.id[2])
        BY <1>1, <1>2, <2>1, <4>1 DEF CopyOK, WorkOK, CopyIndexOK
      <4>3. row[s.id].state \notin {"absent", "succeeded"}
        BY <4>2 DEF Active
      <4>4. n.state \notin {"absent", "queued", "pending_approval", "rejected"}
        BY <2>2, <4>2 DEF Past
      <4> HIDE DEF n
      <4> QED
        BY <1>1, <2>1, <2>2, <2>3, <3>1, <4>2, <4>3, <4>4, StepWrite
    <3>2. CASE s.id = Undo(s.id[2])
      <4>1. s.id[1] = "undo"
        BY <2>3, <3>2, RowIds
      <4>2. s.r.state # "queued" /\ (s.r.plan => s.r.index < 0)
        BY <1>1, <1>2, <4>1 DEF CopyOK, CopyIndexOK
      <4> HIDE DEF n
      <4> QED
        BY <1>1, <2>1, <2>2, <2>3, <3>2, <4>2, UndoWrite
    <3> QED
      BY <2>3, <3>1, <3>2
  <2>5. CopyOK(p)' /\ \A u \in Procs : u # p => proc'[u] = proc[u]
    <3>1. CASE Return(p)
      BY <1>1, <3>1, ReturnCopy
    <3>2. ASSUME NEW pc \in {"cancel_read", "list_followers"}, Goto(p, pc, s.id, s.r)
          PROVE  CopyOK(p)' /\ \A u \in Procs : u # p => proc'[u] = proc[u]
      <4>1. proc'[p].pc = pc /\ \A u \in Procs : u # p => proc'[u] = proc[u]
        BY <1>1, <3>2, GotoCopy DEF PCs
      <4> QED
        BY <4>1, NoCopy
    <3>3. CASE s.r.plan /\ s.r.state = "succeeded" /\ Goto(p, "next", s.id, s.r)
      <4>1. /\ proc'[p].pc = "next" /\ proc'[p].id = s.id /\ proc'[p].r = s.r
            /\ \A u \in Procs : u # p => proc'[u] = proc[u]
        BY <1>1, <3>3, GotoCopy DEF PCs
      <4>2. row'[s.id].state = "succeeded"
        <5>1. row'[s.id] = n
          BY <1>1, <2>1 DEF TypeOK
        <5> QED
          BY <5>1, <2>2, <3>3
      <4>3. ASSUME NEW k \in Steps, k = s.id[2], s.id[1] = "step" PROVE DoneBefore(k)'
        <5>1. DoneBefore(k)
          BY <1>1, <1>2, <3>3, <4>3 DEF CopyOK, WorkOK, Started
        <5> QED
          BY <2>4, <5>1, DoneStable
      <4>4. NextOK(p)'
        BY <2>3, <3>3, <4>1, <4>2, <4>3 DEF NextOK, DoneBefore
      <4>5. CopyIndexOK(p)'
        BY <1>1, <1>2, <4>1 DEF CopyOK, CopyIndexOK
      <4>6. WorkOK(p)' /\ PromoteOK(p)' /\ WalkOK(p)'
        BY <4>1 DEF WorkOK, PromoteOK, WalkOK
      <4> QED
        BY <4>1, <4>4, <4>5, <4>6 DEF CopyOK
    <3> QED
      BY <1>4, <3>1, <3>2, <3>3 DEF AfterPersist
  <2> QED
    BY <1>2, <2>4, <2>5, Assemble
<1> QED
  BY <1>3, <1>4 DEF Persist

LEMMA PromoteOrder ==
    ASSUME IInv, TypeOK', NEW p \in Procs, Promote(p) PROVE IInv'
<1> DEFINE s == proc[p]
           n == [s.r EXCEPT !.version = @ + 1]
<1>1. s.r \in RowRec /\ s.id \in Rows /\ TypeOK /\ CopyOK(p) /\ RowsOK /\ s.r.version \in Nat
  BY DEF IInv, TypeOK, ProcRec, PlanCopies, RowRec
<1>2. ActionStep /\ s.pc = "promote" /\ Return(p)
  BY SameRequests DEF Promote, agentside, At
<1>3. CASE UNCHANGED row
  BY <1>2, <1>3, QuietOrder
<1>4. CASE UpdateRollout(s.id, s.r)
  <2>1. s.r.version = row[s.id].version /\ row' = [row EXCEPT ![s.id] = n]
    BY <1>4 DEF UpdateRollout
  <2>2. /\ n \in RowRec /\ n.version = s.r.version + 1 /\ n.state = s.r.state
        /\ n.plan = s.r.plan /\ n.index = s.r.index
    BY <1>1 DEF RowRec
  <2>3. /\ s.id[1] = "step" /\ row[s.id].state = "queued" /\ s.r.state = "pending"
        /\ s.r.plan /\ s.r.index = s.id[2] /\ DoneBefore(s.id[2])
    BY <1>1, <1>2, <2>1 DEF CopyOK, PromoteOK
  <2>4. s.id[2] \in Steps /\ s.id = Step(s.id[2])
    BY <1>1, <2>3, RowIds
  <2>5. TableStep
    <3> HIDE DEF n
    <3> QED
      BY <1>1, <2>1, <2>2, <2>3, <2>4, StepWrite DEF Past
  <2> QED
    BY <1>1, <1>2, <2>5, ReturnCopy, Assemble
<1> QED
  BY <1>3, <1>4 DEF Promote

(* The walks over the followers. *)
LEMMA CancelWalkOrder ==
    ASSUME IInv, TypeOK', NEW p \in Procs, CancelWalk(p) PROVE IInv'
<1> DEFINE s == proc[p]
<1>1. /\ s \in ProcRec /\ s.r \in RowRec /\ s.id \in Rows /\ TypeOK /\ CopyOK(p) /\ RowsOK
      /\ s.todo \in SUBSET (Rows \X Nat)
  BY DEF IInv, TypeOK, ProcRec, PlanCopies
<1>2. ActionStep
  BY SameRequests DEF CancelWalk, ListFollowers, CancelFollower, FollowersCancelled, agentside
<1>3. CASE UNCHANGED row /\ FollowersDone(p)
  BY <1>2, <1>3, QuietOrder DEF FollowersDone
<1>4. CASE ListFollowers(p)
  <2> DEFINE S == {i \in Rows : InPlan(i) /\ row[i].index > s.r.index /\ row[i].state = "queued"}
  <2>1. UNCHANGED row
    BY <1>4 DEF ListFollowers
  <2>2. CASE Walk(p, "followers", S)
    <3>1. /\ proc'[p].pc = "followers" /\ proc'[p].todo = {<<i, row[i].version>> : i \in S}
          /\ \A u \in Procs : u # p => proc'[u] = proc[u]
      BY <1>1, <2>2 DEF Walk, Local, TypeOK
    <3>2. ASSUME NEW i \in Rows, row[i].state = "queued"
          PROVE  i[1] = "step" /\ row[i].version \in Nat
      <4>1. i[1] = "step"
        BY <1>1, <3>2, RowIds DEF RowsOK
      <4> QED
        BY <1>1, <4>1, RowType
    <3>3. WalkOK(p)'
      BY <2>1, <3>1, <3>2 DEF WalkOK
    <3>4. WorkOK(p)' /\ CopyIndexOK(p)' /\ NextOK(p)' /\ PromoteOK(p)'
      BY <3>1 DEF WorkOK, CopyIndexOK, NextOK, PromoteOK
    <3> QED
      BY <1>1, <1>2, <2>1, <3>1, <3>3, <3>4, NoWrite, Assemble DEF CopyOK
  <2> QED
    BY <1>3, <1>4, <2>1, <2>2 DEF ListFollowers
<1>5. CASE CancelFollower(p)
  <2>0. s.pc = "followers"
    BY <1>5 DEF CancelFollower, At
  <2>1. ASSUME NEW t \in s.todo,
               UpdateRollout(t[1], [row[t[1]] EXCEPT !.state = "cancelled", !.version = t[2]]),
               proc' = [proc EXCEPT ![p].todo = @ \ {t}]
        PROVE  IInv'
    <3> DEFINE i == t[1]
               n == [row[i] EXCEPT !.state = "cancelled", !.version = t[2] + 1]
    <3>1. i \in Rows /\ t[2] \in Nat /\ row[i] \in RowRec
      BY <1>1 DEF TypeOK
    <3>2. i[1] = "step" /\ i[2] \in Steps /\ i = Step(i[2])
      BY <1>1, <2>0, <3>1, RowIds DEF CopyOK, WalkOK
    <3>3. t[2] = row[i].version /\ row' = [row EXCEPT ![i] = n]
      BY <2>1, <3>1 DEF UpdateRollout, RowRec
    <3>4. row[i].state = "queued"
      BY <1>1, <2>0, <3>3 DEF CopyOK, WalkOK
    <3>5. row[i].plan /\ row[i].index = i[2]
      BY <1>1, <3>2, <3>4 DEF RowsOK
    <3>6. /\ n.version = row[i].version + 1 /\ n.state = "cancelled"
          /\ n.plan = row[i].plan /\ n.index = row[i].index
      BY <3>1, <3>3 DEF RowRec
    <3>7. n \in RowRec
      <4>1. "cancelled" \in States /\ t[2] + 1 \in Nat
        BY <3>1 DEF States
      <4> QED
        BY <3>1, <4>1 DEF RowRec
    <3>8. TableStep
      <4> HIDE DEF n
      <4> QED
        BY <1>1, <3>2, <3>3, <3>4, <3>5, <3>6, <3>7, StepWrite DEF Past, Started
    <3>9. /\ proc'[p].pc = "followers" /\ proc'[p].todo = s.todo \ {t}
          /\ \A u \in Procs : u # p => proc'[u] = proc[u]
      BY <1>1, <2>0, <2>1 DEF TypeOK, ProcRec
    <3>10. WalkOK(p)'
      <4>1. ASSUME NEW x \in s.todo
            PROVE  /\ x[1][1] = "step"
                   /\ x[2] <= row'[x[1]].version
                   /\ x[2] = row'[x[1]].version => row'[x[1]].state = "queued"
        <5>1. x[1] \in Rows /\ x[2] \in Nat /\ row[x[1]].version \in Nat
          BY <1>1 DEF TypeOK, RowRec
        <5>2. /\ x[1][1] = "step"
              /\ x[2] <= row[x[1]].version
              /\ x[2] = row[x[1]].version => row[x[1]].state = "queued"
          BY <1>1, <2>0 DEF CopyOK, WalkOK
        <5>3. row'[x[1]] = row[x[1]] \/ row'[x[1]].version = row[x[1]].version + 1
          BY <1>1, <3>1, <3>3, <3>6, <5>1 DEF TypeOK
        <5> QED
          BY <5>1, <5>2, <5>3
      <4> QED
        BY <3>9, <4>1 DEF WalkOK
    <3>11. WorkOK(p)' /\ CopyIndexOK(p)' /\ NextOK(p)' /\ PromoteOK(p)'
      BY <3>9 DEF WorkOK, CopyIndexOK, NextOK, PromoteOK
    <3> QED
      BY <1>2, <3>8, <3>9, <3>10, <3>11, Assemble DEF CopyOK
  <2> QED
    BY <1>3, <1>5, <2>1 DEF CancelFollower
<1>6. CASE FollowersCancelled(p)
  BY <1>3, <1>6 DEF FollowersCancelled
<1> QED
  BY <1>4, <1>5, <1>6 DEF CancelWalk

(* The rollback rollouts of the predecessors. *)
LEMMA UndoOrder ==
    ASSUME IInv, TypeOK', NEW p \in Procs, CreateUndo(p) \/ LinkUndo(p) \/ GroupUndo(p) PROVE IInv'
<1> DEFINE s == proc[p]
<1>1. /\ s \in ProcRec /\ s.r \in RowRec /\ s.id \in Rows /\ TypeOK /\ CopyOK(p) /\ RowsOK
      /\ s.todo \in SUBSET (Rows \X Nat) /\ s.walked \in Nat /\ "predecessors" \in PCs
  BY DEF IInv, TypeOK, ProcRec, PlanCopies, PCs
<1>2. ActionStep
  BY SameRequests DEF CreateUndo, LinkUndo, GroupUndo, agentside
<1>3. ASSUME NEW k \in Steps, NEW r \in RowRec, row' = [row EXCEPT ![Undo(k)] = r],
             r.state # "queued", r.plan => r.index < 0,
             CopyOK(p)', \A u \in Procs : u # p => proc'[u] = proc[u]
      PROVE  IInv'
  BY <1>1, <1>2, <1>3, UndoWrite, Assemble
<1>4. ASSUME UNCHANGED row, CopyOK(p)', \A u \in Procs : u # p => proc'[u] = proc[u] PROVE IInv'
  BY <1>1, <1>2, <1>4, NoWrite, Assemble
<1>5. ASSUME NextUndo(p) PROVE CopyOK(p)' /\ \A u \in Procs : u # p => proc'[u] = proc[u]
  <2>1. proc'[p].pc = "predecessors" /\ \A u \in Procs : u # p => proc'[u] = proc[u]
    BY <1>1, <1>5 DEF NextUndo, TypeOK, ProcRec
  <2> QED
    BY <2>1, NoCopy
<1>6. CASE CreateUndo(p)
  <2>0. s.pc = "predecessors"
    BY <1>6 DEF CreateUndo, At
  <2>1. ASSUME NEW t \in s.todo, SkipUndo(p, t), UNCHANGED row PROVE IInv'
    <3>1. proc'[p].pc = "predecessors" /\ \A u \in Procs : u # p => proc'[u] = proc[u]
      BY <1>1, <2>0, <2>1 DEF SkipUndo, TypeOK, ProcRec
    <3> QED
      BY <1>4, <2>1, <3>1, NoCopy
  <2>2. ASSUME NEW t \in s.todo, NEW gate \in BOOLEAN, NEW r,
               r = NewRow(IF gate THEN "pending_approval" ELSE "pending", 1, FALSE, 0, gate, TRUE),
               row' = [row EXCEPT ![Undo(t[1][2])] = r],
               proc' = [proc EXCEPT ![p] = Local("link", Undo(t[1][2]), r, s.todo \ {t}, s.walked + 1)]
        PROVE  IInv'
    <3>1. t[1][2] \in Steps
      BY <1>1, RowIds
    <3>2. r \in RowRec /\ r.state # "queued" /\ ~r.plan
      BY <2>2 DEF NewRow, RowRec, States
    <3>3. /\ proc'[p].pc = "link" /\ proc'[p].id = Undo(t[1][2]) /\ proc'[p].r = r
          /\ proc'[p].walked = s.walked + 1
          /\ \A u \in Procs : u # p => proc'[u] = proc[u]
      BY <1>1, <2>2 DEF TypeOK, Local
    <3>4. CopyOK(p)'
      BY <1>1, <3>1, <3>2, <3>3, RowIds DEF CopyOK, WorkOK, CopyIndexOK, NextOK, PromoteOK, WalkOK
    <3> QED
      BY <1>3, <2>2, <3>1, <3>2, <3>3, <3>4
  <2> QED
    BY <1>6, <2>1, <2>2 DEF CreateUndo
<1>7. CASE LinkUndo(p)
  <2>1. s.pc = "link" /\ s.id[1] = "undo" /\ s.r.state # "queued" /\ ~s.r.plan /\ s.walked > 0
    BY <1>1, <1>7 DEF LinkUndo, At, CopyOK, WalkOK
  <2>2. CASE NextUndo(p) /\ UNCHANGED row
    BY <1>4, <1>5, <2>2
  <2>3. CASE Overwrite(s.id, s.r) /\ proc' = [proc EXCEPT ![p].pc = "group"]
    <3> DEFINE n == [s.r EXCEPT !.version = row[s.id].version + 1]
    <3>0. row[s.id].version + 1 \in Nat
      BY <1>1, RowType
    <3>1. n \in RowRec /\ n.state # "queued" /\ ~n.plan
      BY <1>1, <2>1, <3>0 DEF RowRec
    <3>2. row' = [row EXCEPT ![s.id] = n]
      BY <2>3 DEF Overwrite
    <3>3. s.id[2] \in Steps /\ s.id = Undo(s.id[2])
      BY <1>1, <2>1, RowIds
    <3>4. /\ proc'[p].pc = "group" /\ proc'[p].id = s.id /\ proc'[p].r = s.r
          /\ proc'[p].walked = s.walked /\ \A u \in Procs : u # p => proc'[u] = proc[u]
      BY <1>1, <2>3 DEF TypeOK, ProcRec
    <3>5. CopyOK(p)'
      BY <2>1, <3>4 DEF CopyOK, WorkOK, CopyIndexOK, NextOK, PromoteOK, WalkOK
    <3> HIDE DEF n
    <3> QED
      BY <1>3, <3>1, <3>2, <3>3, <3>4, <3>5
  <2> QED
    BY <1>7, <2>2, <2>3 DEF LinkUndo
<1>8. CASE GroupUndo(p)
  <2>1. s.pc = "group" /\ s.id[1] = "undo" /\ s.r.state # "queued" /\ ~s.r.plan /\ s.walked > 0
    BY <1>1, <1>8 DEF GroupUndo, At, CopyOK, WalkOK
  <2>2. CopyOK(p)' /\ \A u \in Procs : u # p => proc'[u] = proc[u]
    BY <1>5, <1>8 DEF GroupUndo
  <2>3. CASE UNCHANGED row
    BY <1>4, <2>2, <2>3
  <2>4. CASE Overwrite(s.id, [s.r EXCEPT !.plan = TRUE, !.index = -s.walked])
    <3> DEFINE n == [s.r EXCEPT !.plan = TRUE, !.index = -s.walked, !.version = row[s.id].version + 1]
    <3>0. -s.walked \in Int /\ -s.walked < 0 /\ row[s.id].version + 1 \in Nat
      <4>1. row[s.id].version + 1 \in Nat
        BY <1>1, RowType
      <4>2. -s.walked \in Int /\ -s.walked < 0
        BY <1>1, <2>1
      <4> QED
        BY <4>1, <4>2
    <3>1. n \in RowRec /\ n.state # "queued" /\ n.index < 0
      BY <1>1, <2>1, <3>0 DEF RowRec
    <3>2. row' = [row EXCEPT ![s.id] = n]
      BY <1>1, <2>4 DEF Overwrite, RowRec
    <3>3. s.id[2] \in Steps /\ s.id = Undo(s.id[2])
      BY <1>1, <2>1, RowIds
    <3> HIDE DEF n
    <3> QED
      BY <1>3, <2>2, <3>1, <3>2, <3>3
  <2> QED
    BY <1>8, <2>3, <2>4 DEF GroupUndo
<1> QED
  BY <1>6, <1>7, <1>8

(* A command on a row: the checks of the API handlers. *)
LEMMA CommandTable ==
    ASSUME IInv, TypeOK', NEW i \in Rows, NEW st \in States, NEW old \in SUBSET States,
           row[i].state \in old, UpdateRollout(i, [row[i] EXCEPT !.state = st]),
           old \cap {"absent", "succeeded"} = {},
           st \notin {"absent", "queued", "pending_approval"},
           st = "rejected" => old = {"pending_approval"},
           st \in Started => old \subseteq Started \/ old = {"pending_approval"}
    PROVE  TableStep
<1> DEFINE n == [row[i] EXCEPT !.state = st, !.version = @ + 1]
<1>1. TypeOK /\ RowsOK /\ row[i] \in RowRec /\ row[i].version + 1 \in Nat
  BY RowType DEF IInv, PlanCopies
<1>2. row' = [row EXCEPT ![i] = n]
  BY <1>1 DEF UpdateRollout, RowRec
<1>3. /\ n \in RowRec /\ n.version = row[i].version + 1 /\ n.state = st
      /\ n.plan = row[i].plan /\ n.index = row[i].index
  BY <1>1 DEF RowRec
<1>4. i[2] \in Steps /\ i[2] \in Nat /\ (i = Step(i[2]) \/ i = Undo(i[2]))
  BY RowIds
<1> HIDE DEF n
<1>5. CASE i = Undo(i[2])
  <2>1. n.plan => n.index < 0
    BY <1>1, <1>3, <1>4, <1>5 DEF RowsOK
  <2> QED
    BY <1>1, <1>2, <1>3, <1>4, <1>5, <2>1, UndoWrite
<1>6. CASE i = Step(i[2])
  <2>1. row[i].plan /\ row[i].index = i[2]
    BY <1>1, <1>4, <1>6 DEF RowsOK
  <2>2. row[i].state = "pending_approval" => i[2] = 0
    BY <1>1, <1>4, <1>6 DEF RowsOK
  <2>3. st = "rejected" => i[2] = 0
    BY <2>2
  <2>4. Past(row[i].state) => Past(st)
    BY DEF Past
  <2>5. st \in Started => DoneBefore(i[2])
    <3>1. CASE row[i].state \in Started
      BY <1>4, <1>6, <3>1 DEF IInv, PlanOrder
    <3>2. CASE i[2] = 0
      BY <3>2, RowIds DEF DoneBefore
    <3> QED
      BY <2>2, <3>1, <3>2
  <2>6. row[i].state \notin {"absent", "succeeded"}
    OBVIOUS
  <2> QED
    BY <1>1, <1>2, <1>3, <1>4, <1>6, <2>1, <2>3, <2>4, <2>5, <2>6, StepWrite
<1> QED
  BY <1>4, <1>5, <1>6

LEMMA OperatorOrder ==
    ASSUME IInv, TypeOK', NEW i \in Rows, Pause(i) \/ Resume(i) \/ Abort(i) \/ Approve(i) \/ Reject(i)
    PROVE  IInv'
<1>0. Api \in Procs /\ TypeOK /\ CopyOK(Api)
  BY DEF Procs, IInv, PlanCopies
<1>1. ASSUME NEW name, NEW old \in SUBSET States, NEW st \in States, Command(name, i, old, st),
             old \cap {"absent", "succeeded"} = {},
             st \notin {"absent", "queued", "pending_approval"},
             st = "rejected" => old = {"pending_approval"},
             st \in Started => old \subseteq Started \/ old = {"pending_approval"}
      PROVE  TableStep /\ ActionStep
  BY <1>1, CommandTable, SameRequests DEF Command, agentside
<1>2. ASSUME UNCHANGED proc, TableStep, ActionStep PROVE IInv'
  <2>1. CopyOK(Api)'
    BY <1>0, <1>2, CopyStable
  <2> QED
    BY <1>0, <1>2, <2>1, Assemble
<1>3. CASE Pause(i)
  <2>1. TableStep /\ ActionStep
    BY <1>1, <1>3 DEF Pause, States, Started
  <2> QED
    BY <1>2, <1>3, <2>1 DEF Pause
<1>4. CASE Resume(i)
  <2>1. TableStep /\ ActionStep
    BY <1>1, <1>4 DEF Resume, States, Started
  <2> QED
    BY <1>2, <1>4, <2>1 DEF Resume
<1>5. CASE Abort(i)
  <2>1. TableStep /\ ActionStep
    BY <1>1, <1>5 DEF Abort, States, Started
  <2> QED
    BY <1>2, <1>5, <2>1 DEF Abort
<1>6. CASE Approve(i)
  <2>1. TableStep /\ ActionStep
    BY <1>1, <1>6 DEF Approve, States, Started
  <2> QED
    BY <1>2, <1>6, <2>1 DEF Approve
<1>7. CASE Reject(i)
  <2>1. TableStep /\ ActionStep
    BY <1>1, <1>7 DEF Reject, States, Started
  <2>2. CASE UNCHANGED proc
    BY <1>2, <2>1, <2>2
  <2>3. CASE Goto(Api, "list_followers", i, row[i])
    <3>1. proc'[Api].pc = "list_followers" /\ \A u \in Procs : u # Api => proc'[u] = proc[u]
      BY <1>0, <2>3, GotoCopy, RowType DEF PCs
    <3> QED
      BY <1>0, <2>1, <3>1, NoCopy, Assemble
  <2> QED
    BY <1>7, <2>2, <2>3 DEF Reject
<1> QED
  BY <1>3, <1>4, <1>5, <1>6, <1>7

(* The flag keeps the state of the row; the copies of it are stale. *)
LEMMA FlagOrder ==
    ASSUME IInv, TypeOK', NEW i \in Rows, SetExcludeFromLearning(i) PROVE IInv'
<1>0. Api \in Procs /\ TypeOK /\ CopyOK(Api) /\ RowsOK /\ row[i] \in RowRec
  BY RowType DEF Procs, IInv, PlanCopies
<1>1. UNCHANGED <<proc, req, ran>> /\ row[i].state # "absent"
  BY DEF SetExcludeFromLearning
<1>2. PICK n : n = [row[i] EXCEPT !.version = row[i].version + 1]
  OBVIOUS
<1>3. /\ n.version = row[i].version + 1 /\ n.state = row[i].state
      /\ n.plan = row[i].plan /\ n.index = row[i].index
  BY <1>0, <1>2 DEF RowRec
<1>4. row' = [row EXCEPT ![i] = n]
  BY <1>0, <1>2 DEF SetExcludeFromLearning, UpdateRollout, RowRec
<1>5. row'[i] = n /\ \A j \in Rows : j # i => row'[j] = row[j]
  BY <1>0, <1>4 DEF TypeOK
<1>6. ASSUME NEW k \in Steps PROVE row'[Step(k)] = row[Step(k)] \/ Moved(k)
  <2>1. CASE i = Step(k)
    <3>1. n.plan /\ n.index = k /\ (n.state = "rejected" => k = 0)
      BY <1>0, <1>1, <1>3, <2>1 DEF RowsOK
    <3>2. n.state \in Started => DoneBefore(k)
      BY <1>3, <2>1 DEF IInv, PlanOrder
    <3> QED
      BY <1>1, <1>3, <1>5, <2>1, <3>1, <3>2 DEF Moved
  <2>2. CASE i # Step(k)
    BY <1>5, <2>2, RowIds
  <2> QED
    BY <2>1, <2>2
<1>7. ASSUME NEW k \in Steps
      PROVE  row'[Undo(k)].state # "queued" /\ (row'[Undo(k)].plan => row'[Undo(k)].index < 0)
  BY <1>0, <1>3, <1>5, RowIds DEF RowsOK
<1>8. TableStep
  BY <1>6, <1>7 DEF TableStep
<1>9. ActionStep
  BY <1>1, SameRequests
<1>10. CopyOK(Api)'
  BY <1>0, <1>1, <1>8, CopyStable
<1> QED
  BY <1>0, <1>1, <1>8, <1>9, <1>10, Assemble

LEMMA RunnerOrder ==
    ASSUME IInv, TypeOK',
           \/ FetchPending \/ PostResult \/ RunnerRestart
           \/ \E q \in DOMAIN req : HandleOne(q) \/ Expire(q)
           \/ UNCHANGED vars
    PROVE  IInv'
<1>0. Api \in Procs /\ TypeOK /\ CopyOK(Api) /\ RowsOK
  BY DEF Procs, IInv, PlanCopies
<1>1. UNCHANGED <<row, proc>>
  BY DEF FetchPending, PostResult, RunnerRestart, HandleOne, Expire, vars
<1>2. ActionStep
  <2>1. CASE FetchPending \/ RunnerRestart \/ UNCHANGED vars
    BY <2>1, SameRequests DEF FetchPending, RunnerRestart, vars
  <2>2. CASE PostResult
    <3>1. UNCHANGED ran
      BY <2>2 DEF PostResult
    <3>2. (\E q, st : req' = [req EXCEPT ![q].status = st]) \/ UNCHANGED req
      BY <2>2 DEF PostResult
    <3> QED
      BY <1>0, <3>1, <3>2, StatusRequests, SameRequests
  <2>3. ASSUME NEW q \in DOMAIN req, Expire(q) PROVE ActionStep
    <3>1. UNCHANGED ran /\ \E x, st : req' = [req EXCEPT ![x].expired = st]
      BY <2>3 DEF Expire, agentside
    <3> QED
      BY <1>0, <3>1, StatusRequests
  <2>4. ASSUME NEW q \in DOMAIN req, HandleOne(q) PROVE ActionStep
    <3>1. UNCHANGED req
      BY <2>4 DEF HandleOne
    <3>2. ran' = ran \/ ran' = [ran EXCEPT ![req[q].step] = @ + 1]
      BY <2>4 DEF HandleOne
    <3>3. ASSUME NEW k \in Steps PROVE ran'[k] = ran[k] \/ k = req[q].step
      BY <3>2, <1>0 DEF TypeOK
    <3>4. ASSUME NEW k \in Steps, k = req[q].step PROVE Open(k)
      BY <3>4 DEF Open
    <3> QED
      BY <3>1, <3>3, <3>4 DEF ActionStep, Open
  <2> QED
    BY <2>1, <2>2, <2>3, <2>4
<1>3. TableStep
  BY <1>0, <1>1, NoWrite
<1>4. CopyOK(Api)'
  BY <1>0, <1>1, <1>3, CopyStable
<1> QED
  BY <1>0, <1>1, <1>2, <1>3, <1>4, Assemble

LEMMA PassOrder ==
    ASSUME IInv, TypeOK', NEW p \in Procs, Pass(p) PROVE IInv'
<1>0. TypeOK
  BY DEF IInv
<1>1. CASE PollAgain(p)
  BY <1>1, SameRequests, QuietOrder DEF PollAgain, agentside
<1>2. CASE CancelRead(p)
  BY <1>2, SameRequests, QuietOrder DEF CancelRead, agentside
<1>3. CASE CancelWrite(p)
  <2>1. UNCHANGED ran /\ ((\E q, st : req' = [req EXCEPT ![q].status = st]) \/ UNCHANGED req)
    BY <1>3 DEF CancelWrite, agentside
  <2>2. ActionStep
    BY <1>0, <2>1, StatusRequests, SameRequests
  <2> QED
    BY <1>3, <2>2, QuietOrder DEF CancelWrite
<1>4. CASE ListPredecessors(p)
  <2>1. UNCHANGED row /\ ActionStep
    BY <1>4, SameRequests DEF ListPredecessors, agentside
  <2>2. Return(p) \/ \E S \in SUBSET Rows : Walk(p, "predecessors", S)
    BY <1>4 DEF ListPredecessors
  <2> QED
    BY <2>1, <2>2, QuietOrder
<1>5. CASE PredecessorsDone(p)
  BY <1>5, SameRequests, QuietOrder DEF PredecessorsDone, agentside
<1> QED
  BY <1>1, <1>2, <1>3, <1>4, <1>5, DecideOrder, DispatchOrder, PersistOrder,
     NextStepOrder, PromoteOrder, UndoOrder DEF Pass

LEMMA InitOrder == Init => IInv
<1> SUFFICES ASSUME Init PROVE IInv
  OBVIOUS
<1>1. PICK m \in 1..Len(Kinds), cleaned \in SUBSET Steps, gate \in BOOLEAN, first \in 0..Len(Kinds) :
         row = CreatePlan(m, cleaned, gate, first)
  BY DEF Init
<1>2. ASSUME NEW k \in Steps
      PROVE  /\ row[Undo(k)].state = "absent" /\ ~row[Undo(k)].plan
             /\ row[Step(k)].state \in {"absent", "pending_approval", "pending", "queued", "cancelled"}
             /\ k # 0 => row[Step(k)].state \in {"absent", "queued", "cancelled"}
             /\ k = 0 => row[Step(k)].state \in {"pending_approval", "pending"}
             /\ row[Step(k)].state # "absent" => row[Step(k)].plan /\ row[Step(k)].index = k
  <2>1. row[Undo(k)] = Absent
    BY <1>1, RowIds DEF CreatePlan
  <2>2. k >= m => row[Step(k)] = Absent
    BY <1>1, RowIds DEF CreatePlan
  <2>3. k \in Nat /\ m \in Nat /\ m > 0 /\ Step(k)[1] = "step" /\ Step(k)[2] = k /\ Step(k) \in Rows
    BY RowIds, <1>1
  <2>4. CASE k < m /\ k = 0
    <3>1. /\ row[Step(k)].state = IF gate THEN "pending_approval" ELSE "pending"
          /\ row[Step(k)].plan /\ row[Step(k)].index = 0
      BY <1>1, <2>3, <2>4 DEF CreatePlan, NewRow
    <3> QED
      BY <2>1, <2>4, <3>1 DEF Absent, NewRow
  <2>5. CASE k < m /\ k # 0
    <3>1. row[Step(k)].state \in {"cancelled", "queued"} /\ row[Step(k)].plan /\ row[Step(k)].index = k
      BY <1>1, <2>3, <2>5 DEF CreatePlan, NewRow
    <3> QED
      BY <2>1, <2>5, <3>1 DEF Absent, NewRow
  <2>6. CASE k >= m
    BY <2>1, <2>2, <2>3, <2>6 DEF Absent, NewRow
  <2> QED
    BY <2>3, <2>4, <2>5, <2>6
<1>3. RowsOK
  BY <1>2, RowIds DEF RowsOK, Queued
<1>4. PlanOrder
  BY <1>2, RowIds DEF PlanOrder, DoneBefore, Started
<1>5. ActionsInOrder
  BY DEF Init, ActionsInOrder, Open
<1>6. ASSUME NEW p \in Procs PROVE CopyOK(p)
  <2>1. proc[p].pc = "idle"
    BY DEF Init, Idle, Local
  <2> QED
    BY <2>1 DEF CopyOK, WorkOK, CopyIndexOK, NextOK, PromoteOK, WalkOK
<1> QED
  BY <1>3, <1>4, <1>5, <1>6, InitType DEF IInv, PlanCopies

LEMMA NextOrder == IInv /\ [Next]_vars => IInv'
<1> SUFFICES ASSUME IInv, [Next]_vars PROVE IInv'
  OBVIOUS
<1>1. TypeOK'
  BY NextType DEF IInv
<1>2. Engines \subseteq Procs
  BY DEF Procs
<1>3. ASSUME NEW p \in Procs, Crash(p) PROVE IInv'
  BY <1>1, <1>3, SameRequests, QuietOrder DEF Crash, agentside
<1> QED
  BY <1>1, <1>2, <1>3, PassOrder, ListOrder, CancelWalkOrder, OperatorOrder, FlagOrder, RunnerOrder
     DEF Next

(* IInv is inductive. *)
LEMMA PlanInvariant == Spec => []IInv
BY InitOrder, NextOrder, PTL DEF Spec

(* The steps of every plan run one after the other, whatever engines,      *)
(* operators, failed calls and crashes do between the calls of advancePlan *)
(* and CancelPlanFollowers.                                                *)
THEOREM StepsInOrder == Spec => []PlanOrder
<1>1. IInv => PlanOrder
  BY DEF IInv
<1> QED
  BY <1>1, PlanInvariant, PTL

(* No action of any plan is dispatched or executed before its turn.        *)
THEOREM ActionsRunInOrder == Spec => []ActionsInOrder
<1>1. IInv => ActionsInOrder
  BY DEF IInv
<1> QED
  BY <1>1, PlanInvariant, PTL

(* The copies that engines and the API hold fit the table, so that the     *)
(* version check of UpdateRollout refuses every write that is out of date. *)
THEOREM PlanCopiesConsistent == Spec => []PlanInv
<1>1. IInv => PlanCopies
  BY DEF IInv
<1>2. TypeOK /\ PlanCopies => PlanInv
  BY DEF PlanInv
<1> QED
  BY <1>1, <1>2, PlanInvariant, PlanTypeCorrect, PTL

-----------------------------------------------------------------------------
(* A succeeded action was executed.                                        *)
(*                                                                         *)
(* The evidence travels from the runner to the row: the result it is about *)
(* to post, the status of the request, the copy an engine is about to      *)
(* write, the row.  Every request number points at a request of that step. *)

Refers(q, k) == q # 0 => q \in DOMAIN req /\ req[q].step = k

SlotOK(p) ==
    LET s == proc[p] IN
    /\ Refers(s.r.request, s.id[2])
    /\ s.pc = "persist" /\ s.r.state = "succeeded" /\ Kind(s.id) = "action" => ran[s.id[2]] > 0

RowRan(i) ==
    /\ Refers(row[i].request, i[2])
    /\ Kind(i) = "action" /\ row[i].state = "succeeded" => ran[i[2]] > 0

RanInv ==
    /\ \A i \in Rows : RowRan(i)
    /\ \A p \in Procs : SlotOK(p)
    /\ \A q \in DOMAIN req : req[q].status = "success" => ran[req[q].step] > 0
    /\ runner.at # 0 => /\ runner.at \in DOMAIN req
                        /\ runner.result = "success" => ran[req[runner.at].step] > 0

(* Requests stay and keep their step; what has run has run. *)
Grows ==
    /\ \A q \in DOMAIN req : q \in DOMAIN req' /\ req'[q].step = req[q].step
    /\ \A k \in Steps : ran[k] > 0 => ran'[k] > 0

AgentStep ==
    /\ Grows
    /\ \A q \in DOMAIN req' : req'[q].status = "success" =>
          (q \in DOMAIN req /\ req[q].status = "success") \/ ran'[req'[q].step] > 0
    /\ runner'.at # 0 =>
          \/ runner'.at = runner.at /\ runner'.result = runner.result
          \/ /\ runner'.at \in DOMAIN req'
             /\ runner'.result = "success" => ran'[req'[runner'.at].step] > 0

LEMMA SameAgents == ASSUME UNCHANGED <<req, runner, ran>> PROVE AgentStep
BY DEF AgentStep, Grows

LEMMA SlotStable ==
    ASSUME TypeOK, Grows, NEW p \in Procs, SlotOK(p), proc'[p] = proc[p] PROVE SlotOK(p)'
<1>1. proc[p].id \in Rows /\ proc[p].id[2] \in Steps
  BY RowIds DEF TypeOK, ProcRec
<1> QED
  BY <1>1 DEF SlotOK, Refers, Grows, Kind

LEMMA RowRanStable ==
    ASSUME Grows, NEW i \in Rows, RowRan(i), row'[i] = row[i] PROVE RowRan(i)'
<1>1. i[2] \in Steps
  BY RowIds
<1> QED
  BY <1>1 DEF RowRan, Refers, Grows, Kind

LEMMA RequestStep ==
    ASSUME TypeOK, NEW q \in DOMAIN req
    PROVE  req[q] \in ReqRec /\ req[q].step \in Steps /\ q \in Nat /\ q # 0
<1>1. req[q] \in ReqRec /\ q \in Nat /\ q # 0
  BY DEF TypeOK
<1> QED
  BY <1>1 DEF ReqRec

(* One process, one row and the agent move; the rest stays. *)
LEMMA RanAssemble ==
    ASSUME TypeOK, TypeOK', RanInv, AgentStep,
           NEW p \in Procs, SlotOK(p)', \A u \in Procs : u # p => proc'[u] = proc[u],
           NEW i \in Rows, RowRan(i)', \A j \in Rows : j # i => row'[j] = row[j]
    PROVE  RanInv'
<1>1. \A j \in Rows : RowRan(j)'
  BY RowRanStable DEF RanInv, AgentStep
<1>2. \A u \in Procs : SlotOK(u)'
  BY SlotStable DEF RanInv, AgentStep
<1>3. \A q \in DOMAIN req : req[q].step \in Steps
  BY RequestStep
<1>4. \A q \in DOMAIN req' : req'[q].status = "success" => ran'[req'[q].step] > 0
  BY <1>3 DEF RanInv, AgentStep, Grows
<1>5. runner'.at # 0 => /\ runner'.at \in DOMAIN req'
                        /\ runner'.result = "success" => ran'[req'[runner'.at].step] > 0
  BY <1>3 DEF RanInv, AgentStep, Grows
<1> QED
  BY <1>1, <1>2, <1>4, <1>5 DEF RanInv

(* No row is written. *)
LEMMA RanNoWrite ==
    ASSUME TypeOK, TypeOK', RanInv, AgentStep, UNCHANGED row,
           NEW p \in Procs, SlotOK(p)', \A u \in Procs : u # p => proc'[u] = proc[u]
    PROVE  RanInv'
<1>1. Step(0) \in Rows
  BY RowIds
<1>2. RowRan(Step(0))'
  BY <1>1, RowRanStable DEF RanInv, AgentStep
<1> QED
  BY <1>1, <1>2, RanAssemble

(* The moves of a process that keep its reference. *)
LEMMA RanReturn ==
    ASSUME TypeOK, NEW p \in Procs, Return(p)
    PROVE  SlotOK(p)' /\ \A u \in Procs : u # p => proc'[u] = proc[u]
<1>1. proc'[p] = Idle /\ \A u \in Procs : u # p => proc'[u] = proc[u]
  BY DEF TypeOK, Return
<1>2. Idle.pc = "idle" /\ Idle.r.request = 0
  BY DEF Idle, Local, Absent, NewRow
<1> QED
  BY <1>1, <1>2 DEF SlotOK, Refers

LEMMA RanKeep ==
    ASSUME TypeOK, RanInv, Grows, NEW p \in Procs, NEW s \in ProcRec, proc' = [proc EXCEPT ![p] = s],
           s.id = proc[p].id, s.r.request = proc[p].r.request,
           s.pc = "persist" /\ s.r.state = "succeeded" /\ Kind(s.id) = "action" => ran'[s.id[2]] > 0
    PROVE  SlotOK(p)' /\ \A u \in Procs : u # p => proc'[u] = proc[u]
<1>1. proc'[p] = s /\ \A u \in Procs : u # p => proc'[u] = proc[u]
  BY DEF TypeOK
<1>2. Refers(proc[p].r.request, proc[p].id[2])
  BY DEF RanInv, SlotOK
<1> QED
  BY <1>1, <1>2 DEF SlotOK, Refers, Grows, Kind

LEMMA RanGoto ==
    ASSUME TypeOK, RanInv, Grows, NEW p \in Procs, NEW pc \in PCs \ {"persist"},
           Goto(p, pc, proc[p].id, proc[p].r)
    PROVE  SlotOK(p)' /\ \A u \in Procs : u # p => proc'[u] = proc[u]
<1>1. proc[p].id \in Rows /\ proc[p].r \in RowRec
  BY DEF TypeOK, ProcRec
<1>2. PICK s \in ProcRec : s = Local(pc, proc[p].id, proc[p].r, {}, 0)
  BY <1>1, LocalType
<1>3. s.id = proc[p].id /\ s.r = proc[p].r /\ s.pc # "persist"
  BY <1>2 DEF Local
<1>4. proc' = [proc EXCEPT ![p] = s]
  BY <1>2 DEF Goto
<1> QED
  BY <1>3, <1>4, RanKeep

(* A process takes a row, or a copy of it with another state. *)
LEMMA RanTake ==
    ASSUME TypeOK, RanInv, UNCHANGED req, NEW p \in Procs, NEW pc \in PCs \ {"persist"}, NEW i \in Rows,
           NEW r \in RowRec, r.request = row[i].request, Goto(p, pc, i, r)
    PROVE  SlotOK(p)' /\ \A u \in Procs : u # p => proc'[u] = proc[u]
<1>1. /\ proc'[p].pc = pc /\ proc'[p].id = i /\ proc'[p].r = r
      /\ \A u \in Procs : u # p => proc'[u] = proc[u]
  BY GotoCopy
<1>2. Refers(row[i].request, i[2])
  BY DEF RanInv, RowRan
<1> QED
  BY <1>1, <1>2 DEF SlotOK, Refers

(* The passes that decide on a new state: only a poll of an answered       *)
(* request makes an action step succeed.                                   *)
LEMMA RanDecide ==
    ASSUME TypeOK, TypeOK', RanInv, NEW p \in Procs,
           \/ Start(p) \/ Finish(p) \/ TriggerAbort(p) \/ Finalize(p)
           \/ DispatchFails(p) \/ PollActionStep(p)
    PROVE  RanInv'
<1> DEFINE s == proc[p]
<1>1. s \in ProcRec /\ s.r \in RowRec /\ s.id \in Rows
  BY DEF TypeOK, ProcRec
<1>2. ASSUME NEW st \in States, Decide(p, st),
             st = "succeeded" /\ Kind(s.id) = "action" => ran[s.id[2]] > 0
      PROVE  RanInv'
  <2>1. UNCHANGED <<row, req, runner, ran>> /\ Goto(p, "persist", s.id, [s.r EXCEPT !.state = st])
    BY <1>2 DEF Decide, agentside
  <2>2. AgentStep /\ Grows
    BY <2>1, SameAgents DEF AgentStep
  <2>3. PICK r \in RowRec : r = [s.r EXCEPT !.state = st]
    BY <1>1, CopyType
  <2>4. r.state = st /\ r.request = s.r.request
    BY <1>1, <2>3 DEF RowRec
  <2>5. PICK n \in ProcRec : n = Local("persist", s.id, r, {}, 0)
    BY <1>1, LocalType DEF PCs
  <2>6. n.id = s.id /\ n.r = r /\ proc' = [proc EXCEPT ![p] = n]
    BY <2>1, <2>3, <2>5 DEF Local, Goto
  <2>7. SlotOK(p)' /\ \A u \in Procs : u # p => proc'[u] = proc[u]
    BY <1>2, <2>1, <2>2, <2>4, <2>6, RanKeep
  <2> QED
    BY <2>1, <2>2, <2>7, RanNoWrite
<1>3. CASE Start(p)
  BY <1>2, <1>3 DEF Start, States
<1>4. CASE Finish(p)
  BY <1>2, <1>4 DEF Finish, States, Listed
<1>5. CASE TriggerAbort(p)
  BY <1>2, <1>5 DEF TriggerAbort, States
<1>6. CASE Finalize(p)
  BY <1>2, <1>6 DEF Finalize, States
<1>7. CASE DispatchFails(p)
  BY <1>2, <1>7 DEF DispatchFails, States
<1>8. CASE PollActionStep(p)
  <2>1. s.r.request # 0 /\ Decide(p, Verdict(req[s.r.request]))
    BY <1>8 DEF PollActionStep
  <2>2. s.r.request \in DOMAIN req /\ req[s.r.request].step = s.id[2]
    BY <2>1 DEF RanInv, SlotOK, Refers
  <2>3. Verdict(req[s.r.request]) = "succeeded" => req[s.r.request].status = "success"
    BY DEF Verdict
  <2>4. Verdict(req[s.r.request]) = "succeeded" => ran[s.id[2]] > 0
    BY <2>2, <2>3 DEF RanInv
  <2> QED
    BY <1>2, <2>1, <2>4, VerdictType
<1> QED
  BY <1>3, <1>4, <1>5, <1>6, <1>7, <1>8

LEMMA RanDispatch ==
    ASSUME TypeOK, TypeOK', RanInv, NEW p \in Procs, DispatchActionStep(p) PROVE RanInv'
<1> DEFINE s == proc[p]
           r == [s.r EXCEPT !.state = "in_progress", !.request = Len(req) + 1]
<1>1. s.r \in RowRec /\ s.id \in Rows /\ req \in Seq(ReqRec)
  BY DEF TypeOK, ProcRec
<1>2. req' = Append(req, [step |-> s.id[2], status |-> "pending", expired |-> FALSE])
  BY DEF DispatchActionStep
<1>3. /\ UNCHANGED <<row, runner, ran>>
      /\ proc' = [proc EXCEPT ![p] = Local("persist", s.id, r, {}, 0)]
  BY DEF DispatchActionStep, agentside, Goto
<1>4. /\ \A q \in DOMAIN req : q \in DOMAIN req' /\ req'[q] = req[q]
      /\ \A q \in DOMAIN req' : (q \in DOMAIN req /\ req'[q] = req[q]) \/ req'[q].status = "pending"
      /\ Len(req) + 1 \in DOMAIN req' /\ req'[Len(req) + 1].step = s.id[2]
  BY <1>1, <1>2
<1>5. AgentStep
  BY <1>3, <1>4 DEF AgentStep, Grows
<1>6. SlotOK(p)' /\ \A u \in Procs : u # p => proc'[u] = proc[u]
  <2>1. r.state = "in_progress" /\ r.request = Len(req) + 1
    BY <1>1 DEF RowRec
  <2> HIDE DEF r
  <2>2. proc'[p].id = s.id /\ proc'[p].r = r /\ \A u \in Procs : u # p => proc'[u] = proc[u]
    BY <1>3 DEF TypeOK, Local
  <2> QED
    BY <1>4, <2>1, <2>2 DEF SlotOK, Refers
<1> QED
  BY <1>3, <1>5, <1>6, RanNoWrite

(* The engine writes what it decided. *)
LEMMA RanPersist ==
    ASSUME TypeOK, TypeOK', RanInv, NEW p \in Procs, Persist(p) PROVE RanInv'
<1> DEFINE s == proc[p]
<1>1. s.r \in RowRec /\ s.id \in Rows /\ s.r.version \in Nat /\ s.pc = "persist"
  BY DEF TypeOK, ProcRec, RowRec, Persist, At
<1>2. UNCHANGED <<req, runner, ran>>
  BY DEF Persist, agentside
<1>3. AgentStep /\ Grows
  BY <1>2, SameAgents DEF AgentStep
<1>4. CASE UNCHANGED row /\ Return(p)
  BY <1>3, <1>4, RanReturn, RanNoWrite
<1>5. CASE UpdateRollout(s.id, s.r) /\ AfterPersist(p, s.r)
  <2>1. PICK n : n = [s.r EXCEPT !.version = @ + 1]
    OBVIOUS
  <2>2. n.state = s.r.state /\ n.request = s.r.request
    BY <1>1, <2>1 DEF RowRec
  <2>3. PICK i \in Rows : i = s.id
    BY <1>1
  <2>4. row'[i] = n /\ \A j \in Rows : j # i => row'[j] = row[j]
    BY <1>1, <1>5, <2>1, <2>3 DEF UpdateRollout, TypeOK
  <2>6. RowRan(i)'
    <3>1. SlotOK(p)
      BY DEF RanInv
    <3> QED
      BY <1>1, <1>2, <2>2, <2>3, <2>4, <3>1 DEF RowRan, SlotOK, Refers, Kind
  <2>5. SlotOK(p)' /\ \A u \in Procs : u # p => proc'[u] = proc[u]
    <3>1. \/ Return(p)
          \/ \E pc \in {"next", "cancel_read", "list_followers"} : Goto(p, pc, s.id, s.r)
      BY <1>5 DEF AfterPersist
    <3>2. {"next", "cancel_read", "list_followers"} \subseteq PCs \ {"persist"}
      BY DEF PCs
    <3> QED
      BY <1>3, <3>1, <3>2, RanReturn, RanGoto
  <2> QED
    BY <1>3, <2>4, <2>5, <2>6, RanAssemble
<1> QED
  BY <1>4, <1>5 DEF Persist

(* A row is written, by an operator or a walk, with a state other than     *)
(* succeeded and with the request it had or none.                          *)
LEMMA RanWrite ==
    ASSUME TypeOK, RanInv, Grows, NEW i \in Rows, NEW n, row' = [row EXCEPT ![i] = n],
           n.request \in {0, row[i].request},
           n.state = "succeeded" => Kind(i) # "action" \/ row[i].state = "succeeded"
    PROVE  RowRan(i)' /\ \A j \in Rows : j # i => row'[j] = row[j]
<1>1. row'[i] = n /\ \A j \in Rows : j # i => row'[j] = row[j]
  BY DEF TypeOK
<1>2. RowRan(i) /\ i[2] \in Steps
  BY RowIds DEF RanInv
<1> QED
  BY <1>1, <1>2 DEF RowRan, Refers, Grows, Kind

LEMMA RanPromote ==
    ASSUME TypeOK, TypeOK', RanInv, NEW p \in Procs, CopyOK(p), Promote(p) PROVE RanInv'
<1> DEFINE s == proc[p]
<1>1. s.r \in RowRec /\ s.id \in Rows /\ s.pc = "promote" /\ s.r.state = "pending"
  BY DEF TypeOK, ProcRec, Promote, At, CopyOK, PromoteOK
<1>2. UNCHANGED <<req, runner, ran>> /\ Return(p)
  BY DEF Promote, agentside
<1>3. AgentStep /\ Grows
  BY <1>2, SameAgents DEF AgentStep
<1>4. SlotOK(p)' /\ \A u \in Procs : u # p => proc'[u] = proc[u]
  BY <1>2, RanReturn
<1>5. CASE UNCHANGED row
  BY <1>3, <1>4, <1>5, RanNoWrite
<1>6. CASE UpdateRollout(s.id, s.r)
  <2>1. PICK n : n = [s.r EXCEPT !.version = @ + 1]
    OBVIOUS
  <2>2. n.state = "pending" /\ n.request = s.r.request
    BY <1>1, <2>1 DEF RowRec
  <2>3. PICK i \in Rows : i = s.id
    BY <1>1
  <2>4. row'[i] = n /\ \A j \in Rows : j # i => row'[j] = row[j]
    BY <1>1, <1>6, <2>1, <2>3 DEF UpdateRollout, TypeOK
  <2>5. RowRan(i)'
    <3>1. SlotOK(p)
      BY DEF RanInv
    <3> QED
      BY <1>2, <2>2, <2>3, <2>4, <3>1 DEF RowRan, SlotOK, Refers
  <2> QED
    BY <1>3, <1>4, <2>4, <2>5, RanAssemble
<1> QED
  BY <1>5, <1>6 DEF Promote

(* The reads of a pass. *)
LEMMA RanRead ==
    ASSUME TypeOK, TypeOK', RanInv, NEW p \in Procs,
           \/ \E i \in Rows : ListRollouts(p, i)
           \/ NextPlanStep(p) \/ PollAgain(p) \/ CancelRead(p) \/ CancelWrite(p)
           \/ PredecessorsDone(p) \/ Crash(p)
    PROVE  RanInv'
<1> DEFINE s == proc[p]
<1>pc. {"listed", "promote", "cancel_write", "list_followers"} \subseteq PCs \ {"persist"}
  BY DEF PCs
<1>1. ASSUME UNCHANGED <<row, req, runner, ran>>,
             SlotOK(p)' /\ \A u \in Procs : u # p => proc'[u] = proc[u]
      PROVE  RanInv'
  BY <1>1, SameAgents, RanNoWrite
<1>2. ASSUME UNCHANGED <<row, req, runner, ran>>, Return(p) PROVE RanInv'
  BY <1>1, <1>2, RanReturn
<1>3. ASSUME NEW i \in Rows, ListRollouts(p, i) PROVE RanInv'
  BY <1>1, <1>3, <1>pc, RanTake, RowType DEF ListRollouts, agentside
<1>4. CASE NextPlanStep(p)
  <2>1. UNCHANGED <<row, req, runner, ran>>
    BY <1>4 DEF NextPlanStep, agentside
  <2>2. ASSUME NEW i \in Rows, Goto(p, "promote", i, [row[i] EXCEPT !.state = "pending"])
        PROVE  SlotOK(p)' /\ \A u \in Procs : u # p => proc'[u] = proc[u]
    <3>1. PICK r \in RowRec : r = [row[i] EXCEPT !.state = "pending"]
      BY RowType, CopyType DEF States
    <3>2. r.request = row[i].request
      BY <3>1, RowType DEF RowRec
    <3> QED
      BY <1>pc, <2>1, <2>2, <3>1, <3>2, RanTake
  <2>3. Return(p) \/ \E i \in Rows : Goto(p, "promote", i, [row[i] EXCEPT !.state = "pending"])
    BY <1>4 DEF NextPlanStep
  <2> QED
    BY <1>1, <1>2, <2>1, <2>2, <2>3
<1>5. CASE PollAgain(p) \/ PredecessorsDone(p) \/ Crash(p)
  BY <1>2, <1>5 DEF PollAgain, PredecessorsDone, Crash, agentside
<1>6. CASE CancelRead(p)
  <2>1. UNCHANGED <<row, req, runner, ran>>
    BY <1>6 DEF CancelRead, agentside
  <2>2. \E pc \in {"cancel_write", "list_followers"} : Goto(p, pc, s.id, s.r)
    BY <1>6 DEF CancelRead
  <2>3. Grows
    BY <2>1 DEF Grows
  <2> QED
    BY <1>1, <1>pc, <2>1, <2>2, <2>3, RanGoto
<1>7. CASE CancelWrite(p)
  <2>1. UNCHANGED <<row, runner, ran>> /\ Goto(p, "list_followers", s.id, s.r)
    BY <1>7 DEF CancelWrite, agentside
  <2>2. CASE UNCHANGED req
    <3>1. Grows
      BY <2>1, <2>2 DEF Grows
    <3> QED
      BY <1>1, <1>pc, <2>1, <2>2, <3>1, RanGoto
  <2>3. CASE req' = [req EXCEPT ![s.r.request].status = "denied"]
    <3>1. ASSUME NEW q \in DOMAIN req
          PROVE  req'[q].step = req[q].step /\ (req'[q].status = "success" => req[q].status = "success")
      <4>1. req[q] \in ReqRec
        BY RequestStep
      <4> QED
        BY <2>3, <4>1 DEF ReqRec
    <3>2. DOMAIN req' = DOMAIN req
      BY <2>3
    <3>3. AgentStep /\ Grows
      BY <2>1, <3>1, <3>2 DEF AgentStep, Grows
    <3> QED
      BY <1>pc, <2>1, <3>3, RanGoto, RanNoWrite
  <2> QED
    BY <1>7, <2>2, <2>3 DEF CancelWrite
<1> QED
  BY <1>3, <1>4, <1>5, <1>6, <1>7

(* The walks over the plan. *)
LEMMA RanWalk ==
    ASSUME TypeOK, TypeOK', RanInv, NEW p \in Procs, CopyOK(p),
           CancelWalk(p) \/ ListPredecessors(p)
    PROVE  RanInv'
<1> DEFINE s == proc[p]
<1>1. s \in ProcRec /\ s.r \in RowRec /\ s.id \in Rows /\ s.todo \in SUBSET (Rows \X Nat)
  BY DEF TypeOK, ProcRec
<1>2. UNCHANGED <<req, runner, ran>>
  BY DEF CancelWalk, ListFollowers, CancelFollower, FollowersCancelled, ListPredecessors, agentside
<1>3. AgentStep /\ Grows
  BY <1>2, SameAgents DEF AgentStep
<1>4. ASSUME FollowersDone(p) \/ Return(p)
      PROVE  SlotOK(p)' /\ \A u \in Procs : u # p => proc'[u] = proc[u]
  <2>1. "list_predecessors" \in PCs \ {"persist"}
    BY DEF PCs
  <2> QED
    BY <1>3, <1>4, <2>1, RanReturn, RanGoto DEF FollowersDone
<1>5. ASSUME NEW pc \in PCs \ {"persist"}, NEW S \in SUBSET Rows, Walk(p, pc, S)
      PROVE  SlotOK(p)' /\ \A u \in Procs : u # p => proc'[u] = proc[u]
  <2>1. /\ proc'[p].pc = pc /\ proc'[p].id = s.id /\ proc'[p].r = s.r
        /\ \A u \in Procs : u # p => proc'[u] = proc[u]
    BY <1>5 DEF Walk, Local, TypeOK
  <2>2. SlotOK(p)
    BY DEF RanInv
  <2> QED
    BY <1>2, <2>1, <2>2 DEF SlotOK, Refers
<1>6. CASE ListFollowers(p)
  <2>1. UNCHANGED row
    BY <1>6 DEF ListFollowers
  <2>2. FollowersDone(p) \/ \E S \in SUBSET Rows : Walk(p, "followers", S)
    BY <1>6 DEF ListFollowers
  <2>3. "followers" \in PCs \ {"persist"}
    BY DEF PCs
  <2> QED
    BY <1>3, <1>4, <1>5, <2>1, <2>2, <2>3, RanNoWrite
<1>7. CASE ListPredecessors(p)
  <2>1. UNCHANGED row
    BY <1>7 DEF ListPredecessors
  <2>2. Return(p) \/ \E S \in SUBSET Rows : Walk(p, "predecessors", S)
    BY <1>7 DEF ListPredecessors
  <2>3. "predecessors" \in PCs \ {"persist"}
    BY DEF PCs
  <2> QED
    BY <1>3, <1>4, <1>5, <2>1, <2>2, <2>3, RanNoWrite
<1>8. CASE FollowersCancelled(p)
  BY <1>3, <1>4, <1>8, RanNoWrite DEF FollowersCancelled
<1>9. CASE CancelFollower(p)
  <2>1. CASE UNCHANGED row /\ FollowersDone(p)
    BY <1>3, <1>4, <2>1, RanNoWrite
  <2>2. ASSUME NEW t \in s.todo,
               UpdateRollout(t[1], [row[t[1]] EXCEPT !.state = "cancelled", !.version = t[2]]),
               proc' = [proc EXCEPT ![p].todo = @ \ {t}]
        PROVE  RanInv'
    <3>1. PICK i \in Rows : i = t[1]
      BY <1>1
    <3>2. PICK n : n = [[row[i] EXCEPT !.state = "cancelled", !.version = t[2]] EXCEPT !.version = @ + 1]
      OBVIOUS
    <3>3. n.state = "cancelled" /\ n.request = row[i].request
      BY <3>2, RowType DEF RowRec
    <3>4. row' = [row EXCEPT ![i] = n]
      BY <2>2, <3>1, <3>2 DEF UpdateRollout
    <3>5. RowRan(i)' /\ \A j \in Rows : j # i => row'[j] = row[j]
      BY <1>3, <3>3, <3>4, RanWrite
    <3>6. PICK x \in ProcRec : x = [s EXCEPT !.todo = @ \ {t}]
      BY <1>1 DEF ProcRec
    <3>7. x.id = s.id /\ x.r = s.r /\ x.pc = s.pc /\ s.pc = "followers"
      BY <1>1, <1>9, <3>6 DEF ProcRec, CancelFollower, At
    <3>8. proc' = [proc EXCEPT ![p] = x]
      BY <2>2, <3>6 DEF TypeOK
    <3>9. SlotOK(p)' /\ \A u \in Procs : u # p => proc'[u] = proc[u]
      BY <1>3, <3>7, <3>8, RanKeep
    <3> QED
      BY <1>3, <3>5, <3>9, RanAssemble
  <2> QED
    BY <1>9, <2>1, <2>2 DEF CancelFollower
<1> QED
  BY <1>6, <1>7, <1>8, <1>9 DEF CancelWalk

(* The rollback rollouts carry no request. *)
LEMMA RanUndo ==
    ASSUME TypeOK, TypeOK', RanInv, NEW p \in Procs, CopyOK(p),
           CreateUndo(p) \/ LinkUndo(p) \/ GroupUndo(p)
    PROVE  RanInv'
<1> DEFINE s == proc[p]
<1>1. s \in ProcRec /\ s.r \in RowRec /\ s.id \in Rows /\ s.todo \in SUBSET (Rows \X Nat)
  BY DEF TypeOK, ProcRec
<1>2. UNCHANGED <<req, runner, ran>>
  BY DEF CreateUndo, LinkUndo, GroupUndo, agentside
<1>3. AgentStep /\ Grows
  BY <1>2, SameAgents DEF AgentStep
<1>4. SlotOK(p)
  BY DEF RanInv
<1>5. ASSUME proc'[p].id = s.id, proc'[p].r = s.r, proc'[p].pc # "persist" PROVE SlotOK(p)'
  BY <1>2, <1>4, <1>5 DEF SlotOK, Refers
<1>6. ASSUME NEW pc, proc' = [proc EXCEPT ![p].pc = pc]
      PROVE  /\ proc'[p].id = s.id /\ proc'[p].r = s.r /\ proc'[p].pc = pc
             /\ \A u \in Procs : u # p => proc'[u] = proc[u]
  BY <1>1, <1>6 DEF TypeOK, ProcRec
<1>7. CASE LinkUndo(p) \/ GroupUndo(p)
  <2>1. \E pc \in {"predecessors", "group"} : proc' = [proc EXCEPT ![p].pc = pc]
    BY <1>7 DEF LinkUndo, GroupUndo, NextUndo
  <2>2. SlotOK(p)' /\ \A u \in Procs : u # p => proc'[u] = proc[u]
    BY <1>5, <1>6, <2>1
  <2>3. s.id[1] = "undo"
    BY <1>7 DEF LinkUndo, GroupUndo, At, CopyOK, WalkOK
  <2>4. CASE UNCHANGED row
    BY <1>3, <2>2, <2>4, RanNoWrite
  <2>5. ASSUME NEW r, Overwrite(s.id, r), r.request = s.r.request, r \in RowRec PROVE RanInv'
    <3>1. PICK i \in Rows : i = s.id
      BY <1>1
    <3>2. PICK n : n = [r EXCEPT !.version = row[i].version + 1]
      OBVIOUS
    <3>3. n.request = s.r.request
      BY <2>5, <3>2 DEF RowRec
    <3>4. row'[i] = n /\ \A j \in Rows : j # i => row'[j] = row[j]
      BY <2>5, <3>1, <3>2 DEF Overwrite, TypeOK
    <3>5. RowRan(i)'
      BY <1>2, <1>4, <2>3, <3>1, <3>3, <3>4 DEF RowRan, SlotOK, Refers, Kind
    <3> QED
      BY <1>3, <2>2, <3>4, <3>5, RanAssemble
  <2>6. CASE LinkUndo(p)
    BY <1>1, <2>4, <2>5, <2>6 DEF LinkUndo
  <2>7. CASE GroupUndo(p)
    <3>1. -s.walked \in Int
      BY <1>1 DEF ProcRec
    <3>2. PICK r \in RowRec : r = [s.r EXCEPT !.plan = TRUE, !.index = -s.walked]
      BY <1>1, <3>1, CopyType DEF States
    <3>3. r.request = s.r.request
      BY <1>1, <3>2 DEF RowRec
    <3> QED
      BY <2>4, <2>5, <2>7, <3>2, <3>3 DEF GroupUndo
  <2> QED
    BY <1>7, <2>6, <2>7
<1>8. CASE CreateUndo(p)
  <2>0. s.pc = "predecessors"
    BY <1>8 DEF CreateUndo, At
  <2>1. ASSUME NEW t \in s.todo, SkipUndo(p, t), UNCHANGED row PROVE RanInv'
    <3>1. /\ proc'[p].id = s.id /\ proc'[p].r = s.r /\ proc'[p].pc = s.pc
          /\ \A u \in Procs : u # p => proc'[u] = proc[u]
      BY <1>1, <2>1 DEF SkipUndo, TypeOK, ProcRec
    <3> QED
      BY <1>3, <1>5, <2>0, <2>1, <3>1, RanNoWrite
  <2>2. ASSUME NEW t \in s.todo, NEW gate \in BOOLEAN, NEW r,
               r = NewRow(IF gate THEN "pending_approval" ELSE "pending", 1, FALSE, 0, gate, TRUE),
               row' = [row EXCEPT ![Undo(t[1][2])] = r],
               proc' = [proc EXCEPT ![p] = Local("link", Undo(t[1][2]), r, s.todo \ {t}, s.walked + 1)]
        PROVE  RanInv'
    <3>1. r.request = 0 /\ r.state # "succeeded"
      BY <2>2 DEF NewRow
    <3>2. t[1][2] \in Steps
      BY <1>1, RowIds
    <3>3. PICK i \in Rows : i = Undo(t[1][2])
      BY <3>2, RowIds
    <3>4. RowRan(i)' /\ \A j \in Rows : j # i => row'[j] = row[j]
      BY <1>3, <2>2, <3>1, <3>3, RanWrite
    <3>5. proc'[p].r = r /\ proc'[p].pc = "link" /\ \A u \in Procs : u # p => proc'[u] = proc[u]
      BY <2>2 DEF Local, TypeOK
    <3>6. SlotOK(p)'
      BY <3>1, <3>5 DEF SlotOK, Refers
    <3> QED
      BY <1>3, <3>4, <3>5, <3>6, RanAssemble
  <2> QED
    BY <1>8, <2>1, <2>2 DEF CreateUndo
<1> QED
  BY <1>7, <1>8

LEMMA RanOperator ==
    ASSUME TypeOK, TypeOK', RanInv, NEW i \in Rows,
           Pause(i) \/ Resume(i) \/ Abort(i) \/ Approve(i) \/ Reject(i)
    PROVE  RanInv'
<1>0. Api \in Procs
  BY DEF Procs
<1>1. PICK st \in {"paused", "in_progress", "aborted", "pending", "rejected"} :
          UpdateRollout(i, [row[i] EXCEPT !.state = st])
  BY DEF Pause, Resume, Abort, Approve, Reject, Command
<1>2. UNCHANGED <<req, runner, ran>>
  BY DEF Pause, Resume, Abort, Approve, Reject, Command, agentside
<1>3. AgentStep /\ Grows
  BY <1>2, SameAgents DEF AgentStep
<1>4. PICK n : n = [[row[i] EXCEPT !.state = st] EXCEPT !.version = @ + 1]
  OBVIOUS
<1>5. n.state = st /\ n.request = row[i].request
  BY <1>4, RowType DEF RowRec
<1>6. row' = [row EXCEPT ![i] = n]
  BY <1>1, <1>4 DEF UpdateRollout
<1>7. RowRan(i)' /\ \A j \in Rows : j # i => row'[j] = row[j]
  BY <1>1, <1>3, <1>5, <1>6, RanWrite
<1>8. SlotOK(Api)' /\ \A u \in Procs : u # Api => proc'[u] = proc[u]
  <2>1. CASE UNCHANGED proc
    BY <1>0, <1>3, <2>1, SlotStable DEF RanInv
  <2>2. CASE Goto(Api, "list_followers", i, row[i])
    <3>1. "list_followers" \in PCs \ {"persist"}
      BY DEF PCs
    <3> QED
      BY <1>0, <1>2, <2>2, <3>1, RanTake, RowType
  <2> QED
    BY <2>1, <2>2 DEF Pause, Resume, Abort, Approve, Reject
<1> QED
  BY <1>0, <1>3, <1>7, <1>8, RanAssemble

LEMMA RanFlag ==
    ASSUME TypeOK, TypeOK', RanInv, NEW i \in Rows, SetExcludeFromLearning(i) PROVE RanInv'
<1>0. Api \in Procs
  BY DEF Procs
<1>1. UNCHANGED <<proc, req, runner, ran>>
  BY DEF SetExcludeFromLearning
<1>2. AgentStep /\ Grows
  BY <1>1, SameAgents DEF AgentStep
<1>3. PICK n : n = [row[i] EXCEPT !.version = @ + 1]
  OBVIOUS
<1>4. n.state = row[i].state /\ n.request = row[i].request
  BY <1>3, RowType DEF RowRec
<1>5. row' = [row EXCEPT ![i] = n]
  BY <1>3 DEF SetExcludeFromLearning, UpdateRollout
<1>6. RowRan(i)' /\ \A j \in Rows : j # i => row'[j] = row[j]
  BY <1>2, <1>4, <1>5, RanWrite
<1>7. SlotOK(Api)'
  BY <1>0, <1>1, <1>2, SlotStable DEF RanInv
<1> QED
  BY <1>0, <1>1, <1>2, <1>6, <1>7, RanAssemble

(* The runner executes, then posts what came out of it. *)
LEMMA RanRunner ==
    ASSUME TypeOK, TypeOK', RanInv,
           \/ FetchPending \/ PostResult \/ RunnerRestart
           \/ \E q \in DOMAIN req : HandleOne(q) \/ Expire(q)
           \/ UNCHANGED vars
    PROVE  RanInv'
<1>0. Api \in Procs
  BY DEF Procs
<1>1. UNCHANGED <<row, proc>>
  BY DEF FetchPending, PostResult, RunnerRestart, HandleOne, Expire, vars
<1>r. runner \in [batch: SUBSET Nat, at: Nat, result: Results, seen: SUBSET Nat]
  BY DEF TypeOK
<1>2. ASSUME AgentStep PROVE RanInv'
  <2>1. SlotOK(Api)'
    BY <1>0, <1>1, <1>2, SlotStable DEF RanInv, AgentStep
  <2> QED
    BY <1>0, <1>1, <1>2, <2>1, RanNoWrite
<1>3. CASE FetchPending \/ RunnerRestart \/ UNCHANGED vars
  <2>1. /\ UNCHANGED <<req, ran>>
        /\ runner'.at = 0 \/ (runner'.at = runner.at /\ runner'.result = runner.result)
    BY <1>3, <1>r DEF FetchPending, RunnerRestart, vars
  <2>2. AgentStep
    BY <2>1 DEF AgentStep, Grows
  <2> QED
    BY <1>2, <2>2
<1>4. CASE PostResult
  <2>1. runner'.at = 0 /\ UNCHANGED ran /\ runner.at # 0
    BY <1>4, <1>r DEF PostResult
  <2>2. runner.at \in DOMAIN req /\ (runner.result = "success" => ran[req[runner.at].step] > 0)
    BY <2>1 DEF RanInv
  <2>3. CASE UNCHANGED req
    BY <1>2, <2>1, <2>3 DEF AgentStep, Grows
  <2>4. CASE req' = [req EXCEPT ![runner.at].status = runner.result]
    <3>1. DOMAIN req' = DOMAIN req
      BY <2>4
    <3>2. ASSUME NEW q \in DOMAIN req
          PROVE  /\ req'[q].step = req[q].step
                 /\ req'[q].status = "success" => req[q].status = "success" \/ ran[req[q].step] > 0
      <4>1. req[q] \in ReqRec
        BY RequestStep
      <4>2. CASE q = runner.at
        BY <2>2, <2>4, <4>1, <4>2 DEF ReqRec
      <4>3. CASE q # runner.at
        BY <2>4, <4>3
      <4> QED
        BY <4>2, <4>3
    <3>3. AgentStep
      BY <2>1, <3>1, <3>2 DEF AgentStep, Grows
    <3> QED
      BY <1>2, <3>3
  <2> QED
    BY <1>4, <2>3, <2>4 DEF PostResult
<1>5. ASSUME NEW q \in DOMAIN req, HandleOne(q) PROVE RanInv'
  <2>1. PICK result \in Results :
          /\ runner'.at = q /\ runner'.result = result
          /\ ran' = IF result = "denied" THEN ran ELSE [ran EXCEPT ![req[q].step] = @ + 1]
    BY <1>5, <1>r DEF HandleOne
  <2>2. UNCHANGED req
    BY <1>5 DEF HandleOne
  <2>3. ran \in [Steps -> Nat] /\ req[q].step \in Steps
    BY RequestStep DEF TypeOK
  <2>4. \A k \in Steps : ran[k] > 0 => ran'[k] > 0
    BY <2>1, <2>3
  <2>5. result = "success" => ran'[req[q].step] > 0
    BY <2>1, <2>3
  <2>6. AgentStep
    BY <2>1, <2>2, <2>3, <2>4, <2>5, RequestStep DEF AgentStep, Grows
  <2> QED
    BY <1>2, <2>6
<1>6. ASSUME NEW q \in DOMAIN req, Expire(q) PROVE RanInv'
  <2>1. req' = [req EXCEPT ![q].expired = TRUE] /\ UNCHANGED <<runner, ran>>
    BY <1>6 DEF Expire, agentside
  <2>2. DOMAIN req' = DOMAIN req
    BY <2>1
  <2>3. ASSUME NEW x \in DOMAIN req PROVE req'[x].step = req[x].step /\ req'[x].status = req[x].status
    <3>1. req[x] \in ReqRec
      BY RequestStep
    <3> QED
      BY <2>1, <3>1 DEF ReqRec
  <2>4. AgentStep
    BY <2>1, <2>2, <2>3 DEF AgentStep, Grows
  <2> QED
    BY <1>2, <2>4
<1> QED
  BY <1>3, <1>4, <1>5, <1>6

LEMMA RanInit == Init => RanInv
<1> SUFFICES ASSUME Init PROVE RanInv
  OBVIOUS
<1>1. PICK m \in 1..Len(Kinds), cleaned \in SUBSET Steps, gate \in BOOLEAN, first \in 0..Len(Kinds) :
         row = CreatePlan(m, cleaned, gate, first)
  BY DEF Init
<1>2. \A i \in Rows : row[i].request = 0 /\ row[i].state # "succeeded"
  BY <1>1 DEF CreatePlan, Absent, NewRow
<1>3. \A p \in Procs : proc[p].r.request = 0 /\ proc[p].pc = "idle"
  BY DEF Init, Idle, Local, Absent, NewRow
<1>4. DOMAIN req = {} /\ runner.at = 0
  BY DEF Init
<1> QED
  BY <1>2, <1>3, <1>4 DEF RanInv, RowRan, SlotOK, Refers

(* An action step of any plan is counted as succeeded only after its       *)
(* action was executed, through lost and late answers, cancellations,      *)
(* double dispatch, crashes and operator writes (pollActionStep,           *)
(* HandlePostActionResult).                                                *)
THEOREM SuccessMeansExecuted == Spec => []SucceededActionRan
<1>1. IInv /\ IInv' /\ RanInv /\ [Next]_vars => RanInv'
  <2> SUFFICES ASSUME IInv, IInv', RanInv, [Next]_vars PROVE RanInv'
    OBVIOUS
  <2>1. TypeOK /\ TypeOK' /\ Engines \subseteq Procs /\ \A p \in Procs : CopyOK(p)
    BY DEF IInv, PlanCopies, Procs
  <2>2. ASSUME NEW p \in Engines, Pass(p) PROVE RanInv'
    BY <2>1, <2>2, RanDecide, RanDispatch, RanPersist, RanPromote, RanRead, RanWalk, RanUndo
       DEF Pass
  <2> QED
    BY <2>1, <2>2, RanRead, RanWalk, RanOperator, RanFlag, RanRunner DEF Next
<1>2. RanInv => SucceededActionRan
  <2> SUFFICES ASSUME RanInv, NEW k \in Steps, Kinds[k + 1] = "action", row[Step(k)].state = "succeeded"
               PROVE  ran[k] > 0
    BY DEF SucceededActionRan
  <2>1. Step(k) \in Rows /\ Step(k)[1] = "step" /\ Step(k)[2] = k
    BY RowIds
  <2> QED
    BY <2>1 DEF RanInv, RowRan, Kind
<1> QED
  BY <1>1, <1>2, RanInit, PlanInvariant, PTL DEF Spec

-----------------------------------------------------------------------------
(* A rollback rollout has a reason.                                        *)
(*                                                                         *)
(* A step that failed stays failed: only the finalisation may still write  *)
(* it.  So the failure that sent an engine on its walks is still there     *)
(* when it creates a rollback, and so is the success of the step that is   *)
(* undone.                                                                 *)

Failing == {"cancel_read", "cancel_write", "list_followers", "followers", "list_predecessors"}

Undoable(k) == row[Step(k)].state = "succeeded" /\ \E j \in Steps : j > k /\ Failed(j)

(* What a process p with the local state s counts on. *)
Fit(p, s) ==
    /\ s.pc = "listed" /\ s.id[1] = "step" /\ s.r.version = row[s.id].version =>
          s.r.state = row[s.id].state
    /\ s.pc = "persist" /\ s.id[1] = "step" /\ s.r.version = row[s.id].version =>
          (row[s.id].state = "aborted" => s.r.state = "rolled_back")
    /\ s.pc \in {"listed", "persist", "link", "group"} => row[s.id].state # "absent" /\ s.r.state # "absent"
    /\ p # Api /\ s.pc \in Failing =>
          /\ s.id[1] = "step" => s.r.index = s.id[2] /\ Failed(s.id[2])
          /\ s.id[1] = "undo" => s.r.index < 0
    /\ s.pc \in {"predecessors", "link", "group"} =>
          \A t \in s.todo : t[1][1] = "step" /\ Undoable(t[1][2])

FailInv == UndoOnlyAfterFailure /\ \A p \in Procs : Fit(p, proc[p])

(* What a step of the system may do to the table. *)
FailStep ==
    /\ \A k \in Steps :
          \/ row'[Step(k)] = row[Step(k)]
          \/ /\ row'[Step(k)].version = row[Step(k)].version + 1
             /\ row[Step(k)].state = "succeeded" => row'[Step(k)].state = "succeeded"
             /\ Failed(k) => Failed(k)'
    /\ \A i \in Rows : row[i].state # "absent" => row'[i].state # "absent"
    /\ \A k \in Steps : row'[Undo(k)].state # "absent" => row[Undo(k)].state # "absent" \/ Undoable(k)

LEMMA UndoableStable ==
    ASSUME FailStep, NEW k \in Steps, Undoable(k) PROVE Undoable(k)'
<1>1. PICK j \in Steps : j > k /\ Failed(j)
  BY DEF Undoable
<1>2. Failed(j)'
  BY <1>1 DEF FailStep, Failed
<1>3. row'[Step(k)].state = "succeeded"
  BY DEF FailStep, Undoable
<1> QED
  BY <1>1, <1>2, <1>3 DEF Undoable

LEMMA FitStable ==
    ASSUME TypeOK, TypeOK', FailStep, NEW p, NEW s \in ProcRec, Fit(p, s),
           s.pc \in {"listed", "persist"} /\ s.id[1] = "step" => s.r.version <= row[s.id].version
    PROVE  Fit(p, s)'
<1>1. s.id \in Rows /\ s.id[2] \in Steps /\ (s.id[1] = "step" => s.id = Step(s.id[2]))
      /\ s.r.version \in Nat
  BY RowIds DEF ProcRec, RowRec
<1>2. row[s.id].version \in Nat /\ row'[s.id].version \in Nat
  BY <1>1 DEF TypeOK, RowRec
<1>3. s.id[1] = "step" => row'[s.id] = row[s.id] \/ row'[s.id].version = row[s.id].version + 1
  BY <1>1 DEF FailStep
<1>4. Failed(s.id[2]) => Failed(s.id[2])'
  BY <1>1 DEF FailStep, Failed
<1>5. row[s.id].state # "absent" => row'[s.id].state # "absent"
  BY <1>1 DEF FailStep
<1>6. ASSUME NEW t \in s.todo, Undoable(t[1][2]) PROVE Undoable(t[1][2])'
  <2>1. t[1] \in Rows
    BY DEF ProcRec
  <2>2. PICK k \in Steps : k = t[1][2]
    BY <2>1, RowIds
  <2> QED
    BY <1>6, <2>2, UndoableStable
<1>7. /\ s.pc = "listed" /\ s.id[1] = "step" /\ s.r.version = row'[s.id].version =>
            s.r.state = row'[s.id].state
      /\ s.pc = "persist" /\ s.id[1] = "step" /\ s.r.version = row'[s.id].version =>
            (row'[s.id].state = "aborted" => s.r.state = "rolled_back")
  BY <1>1, <1>2, <1>3 DEF Fit
<1> QED
  BY <1>4, <1>5, <1>6, <1>7 DEF Fit

(* One process moves and, perhaps, the table. *)
LEMMA FailAssemble ==
    ASSUME IInv, TypeOK', FailInv, FailStep, NEW p \in Procs, NEW s,
           proc' = [proc EXCEPT ![p] = s], Fit(p, s)'
    PROVE  FailInv'
<1>1. TypeOK /\ \A u \in Procs : proc[u] \in ProcRec /\ CopyOK(u) /\ Fit(u, proc[u])
  BY DEF IInv, TypeOK, PlanCopies, FailInv
<1>2. ASSUME NEW u \in Procs PROVE Fit(u, proc[u])'
  <2>1. CASE u = p
    <3>1. proc'[p] = s
      BY <1>1 DEF TypeOK
    <3> QED
      BY <2>1, <3>1 DEF Fit
  <2>2. CASE u # p
    <3>1. PICK x \in ProcRec : x = proc[u]
      BY <1>1
    <3>2. proc'[u] = x
      BY <1>1, <2>2, <3>1 DEF TypeOK
    <3>3. Fit(u, x)'
      BY <1>1, <3>1, FitStable DEF CopyOK, WorkOK
    <3> QED
      BY <3>2, <3>3 DEF Fit
  <2> QED
    BY <2>1, <2>2
<1>3. UndoOnlyAfterFailure'
  <2>1. ASSUME NEW k \in Steps, row'[Undo(k)].state # "absent" PROVE Undoable(k)'
    <3>1. Undoable(k)
      BY <2>1 DEF FailStep, FailInv, UndoOnlyAfterFailure, Undoable
    <3> QED
      BY <3>1, UndoableStable
  <2> QED
    BY <2>1 DEF UndoOnlyAfterFailure, Undoable
<1> QED
  BY <1>2, <1>3 DEF FailInv

LEMMA FailSame == ASSUME UNCHANGED row PROVE FailStep
BY DEF FailStep, Failed

(* The write of a row that exists. *)
LEMMA FailWrite ==
    ASSUME TypeOK, NEW i \in Rows, NEW n, row' = [row EXCEPT ![i] = n],
           row[i].state # "absent", n.state # "absent",
           i[1] = "step" =>
               /\ n.version = row[i].version + 1
               /\ row[i].state = "succeeded" => n.state = "succeeded"
               /\ row[i].state \in {"aborted", "rolled_back"} => n.state \in {"aborted", "rolled_back"}
    PROVE  FailStep
<1>1. row'[i] = n /\ \A j \in Rows : j # i => row'[j] = row[j]
  BY DEF TypeOK
<1>2. \A k \in Steps : Step(k) \in Rows /\ Undo(k) \in Rows /\ Step(k)[1] = "step"
  BY RowIds
<1> QED
  BY <1>1, <1>2 DEF FailStep, Failed

LEMMA FailReturn ==
    ASSUME IInv, TypeOK', FailInv, FailStep, NEW p \in Procs, Return(p) PROVE FailInv'
<1>1. PICK s : s = Idle
  OBVIOUS
<1>2. s.pc = "idle"
  BY <1>1 DEF Idle, Local
<1>3. Fit(p, s)'
  BY <1>2 DEF Fit, Failing
<1> QED
  BY <1>1, <1>3, FailAssemble DEF Return

(* A process that leaves the table alone and goes on with what it has. *)
LEMMA FailMove ==
    ASSUME IInv, TypeOK', FailInv, UNCHANGED row, NEW p \in Procs, NEW s,
           proc' = [proc EXCEPT ![p] = s], Fit(p, s)
    PROVE  FailInv'
<1>1. FailStep
  BY FailSame
<1>2. Fit(p, s)'
  BY DEF Fit, Failed, Undoable
<1> QED
  BY <1>1, <1>2, FailAssemble

(* On with the walks of a failed step. *)
LEMMA FailGoto ==
    ASSUME IInv, TypeOK', FailInv, FailStep, NEW p \in Procs, proc[p].pc \in Failing,
           NEW pc \in Failing, NEW S,
           proc' = [proc EXCEPT ![p] = Local(pc, proc[p].id, proc[p].r, S, 0)]
    PROVE  FailInv'
<1>1. PICK s : s = Local(pc, proc[p].id, proc[p].r, S, 0)
  OBVIOUS
<1>2. s.pc = pc /\ s.id = proc[p].id /\ s.r = proc[p].r
  BY <1>1 DEF Local
<1>3. PICK k \in Steps : k = s.id[2]
  BY <1>2, RowIds DEF IInv, TypeOK, ProcRec
<1>4. Fit(p, proc[p])
  BY DEF FailInv
<1>5. Failed(k) => Failed(k)'
  BY DEF FailStep, Failed
<1>6. Fit(p, s)'
  BY <1>2, <1>3, <1>4, <1>5 DEF Fit, Failing
<1> QED
  BY <1>1, <1>6, FailAssemble

(* The decisions: an aborted row is finalised and nothing else. *)
LEMMA FailDecide ==
    ASSUME IInv, TypeOK', FailInv, NEW p \in Procs,
           \/ Start(p) \/ Finish(p) \/ TriggerAbort(p) \/ Finalize(p)
           \/ DispatchFails(p) \/ PollActionStep(p) \/ DispatchActionStep(p)
    PROVE  FailInv'
<1> DEFINE s == proc[p]
<1>1. s.r \in RowRec /\ s.id \in Rows /\ Fit(p, s)
  BY DEF IInv, TypeOK, ProcRec, FailInv
<1>2. ASSUME NEW r, Goto(p, "persist", s.id, r), r.version = s.r.version, UNCHANGED row, s.pc = "listed",
             s.r.state = "aborted" => r.state = "rolled_back", r.state # "absent"
      PROVE  FailInv'
  <2>1. PICK n : n = Local("persist", s.id, r, {}, 0)
    OBVIOUS
  <2>2. n.pc = "persist" /\ n.id = s.id /\ n.r = r /\ n.todo = {}
    BY <2>1 DEF Local
  <2>3. Fit(p, n)
    BY <1>1, <1>2, <2>2 DEF Fit, Failing
  <2> QED
    BY <1>2, <2>1, <2>3, FailMove DEF Goto
<1>3. ASSUME NEW st, Decide(p, st), s.pc = "listed", s.r.state = "aborted" => st = "rolled_back", st # "absent"
      PROVE  FailInv'
  <2>1. PICK r : r = [s.r EXCEPT !.state = st]
    OBVIOUS
  <2>2. r.version = s.r.version /\ r.state = st
    BY <1>1, <2>1 DEF RowRec
  <2> QED
    BY <1>2, <1>3, <2>1, <2>2 DEF Decide
<1>4. CASE DispatchActionStep(p)
  <2>1. PICK r : r = [s.r EXCEPT !.state = "in_progress", !.request = Len(req) + 1]
    OBVIOUS
  <2>2. r.version = s.r.version /\ r.state = "in_progress"
    BY <1>1, <2>1 DEF RowRec
  <2> QED
    BY <1>2, <1>4, <2>1, <2>2 DEF DispatchActionStep, Listed, At
<1>5. CASE PollActionStep(p)
  BY <1>3, <1>5 DEF PollActionStep, Verdict, Listed, At
<1> QED
  BY <1>3, <1>4, <1>5 DEF Start, Finish, TriggerAbort, Finalize, DispatchFails, Listed, At

(* The write of a pass: what was aborted goes on to be rolled back, and a  *)
(* step that is written as aborted is what the walks start from.           *)
LEMMA FailPersist ==
    ASSUME IInv, TypeOK', FailInv, NEW p \in Procs, Persist(p) PROVE FailInv'
<1> DEFINE s == proc[p]
<1>1. /\ TypeOK /\ s.r \in RowRec /\ s.id \in Rows /\ s.r.version \in Nat /\ s.pc = "persist"
      /\ Fit(p, s) /\ WorkOK(p) /\ CopyIndexOK(p)
  BY DEF IInv, TypeOK, ProcRec, RowRec, Persist, At, FailInv, PlanCopies, CopyOK
<1>2. CASE UNCHANGED row /\ Return(p)
  BY <1>2, FailSame, FailReturn
<1>3. CASE UpdateRollout(s.id, s.r) /\ AfterPersist(p, s.r)
  <2>1. PICK n : n = [s.r EXCEPT !.version = @ + 1]
    OBVIOUS
  <2>2. n.state = s.r.state /\ n.version = row[s.id].version + 1 /\ s.r.version = row[s.id].version
    BY <1>1, <1>3, <2>1 DEF RowRec, UpdateRollout
  <2>3. PICK i \in Rows : i = s.id
    BY <1>1
  <2>4. row' = [row EXCEPT ![i] = n]
    BY <1>3, <2>1, <2>3 DEF UpdateRollout
  <2>5. row[i].state # "absent"
    BY <1>1, <2>3 DEF Fit
  <2>6. n.state # "absent"
    BY <1>1, <2>2 DEF Fit
  <2>7. FailStep
    <3>1. CASE i[1] = "step"
      <4>1. row[i].state \in Active
        BY <1>1, <2>2, <2>3, <3>1 DEF WorkOK
      <4>2. row[i].state = "aborted" => n.state = "rolled_back"
        BY <1>1, <2>2, <2>3, <3>1 DEF Fit
      <4> QED
        BY <1>1, <2>2, <2>3, <2>4, <2>5, <2>6, <4>1, <4>2, FailWrite DEF Active
    <3>2. CASE i[1] # "step"
      BY <1>1, <2>4, <2>5, <2>6, <3>2, FailWrite
    <3> QED
      BY <3>1, <3>2
  <2>8. ASSUME NEW pc \in {"cancel_read", "list_followers"}, s.r.plan, s.r.state = "aborted",
               Goto(p, pc, s.id, s.r)
        PROVE  FailInv'
    <3>1. PICK x : x = Local(pc, s.id, s.r, {}, 0)
      OBVIOUS
    <3>2. x.pc = pc /\ x.id = i /\ x.r = s.r /\ x.todo = {}
      BY <2>3, <3>1 DEF Local
    <3>3. row'[i] = n
      BY <1>1, <2>4 DEF TypeOK
    <3>4. ASSUME i[1] = "step" PROVE s.r.index = i[2] /\ Failed(i[2])'
      <4>1. s.r.index = i[2] /\ i = Step(i[2])
        BY <1>1, <2>3, <3>4, RowIds DEF CopyIndexOK
      <4> QED
        BY <2>2, <2>8, <3>3, <4>1 DEF Failed
    <3>5. i[1] = "undo" => s.r.index < 0
      BY <1>1, <2>3, <2>8 DEF CopyIndexOK
    <3>6. Fit(p, x)'
      BY <3>2, <3>4, <3>5 DEF Fit
    <3> QED
      BY <2>7, <2>8, <3>1, <3>6, FailAssemble DEF Goto
  <2>9. ASSUME Goto(p, "next", s.id, s.r) PROVE FailInv'
    <3>1. PICK x : x = Local("next", s.id, s.r, {}, 0)
      OBVIOUS
    <3>2. x.pc = "next"
      BY <3>1 DEF Local
    <3>3. Fit(p, x)'
      BY <3>2 DEF Fit, Failing
    <3> QED
      BY <2>7, <2>9, <3>1, <3>3, FailAssemble DEF Goto
  <2> QED
    BY <1>3, <2>7, <2>8, <2>9, FailReturn DEF AfterPersist
<1> QED
  BY <1>2, <1>3 DEF Persist

LEMMA FailPromote ==
    ASSUME IInv, TypeOK', FailInv, NEW p \in Procs, Promote(p) PROVE FailInv'
<1> DEFINE s == proc[p]
<1>1. /\ TypeOK /\ s.r \in RowRec /\ s.id \in Rows /\ s.r.version \in Nat /\ s.pc = "promote"
      /\ PromoteOK(p) /\ Return(p)
  BY DEF IInv, TypeOK, ProcRec, RowRec, Promote, At, PlanCopies, CopyOK
<1>2. CASE UNCHANGED row
  BY <1>1, <1>2, FailSame, FailReturn
<1>3. CASE UpdateRollout(s.id, s.r)
  <2>1. PICK n : n = [s.r EXCEPT !.version = @ + 1]
    OBVIOUS
  <2>2. n.state = "pending" /\ n.version = row[s.id].version + 1 /\ row[s.id].state = "queued"
    BY <1>1, <1>3, <2>1 DEF RowRec, UpdateRollout, PromoteOK
  <2>3. row' = [row EXCEPT ![s.id] = n]
    BY <1>3, <2>1 DEF UpdateRollout
  <2>4. FailStep
    BY <1>1, <2>2, <2>3, FailWrite
  <2> QED
    BY <1>1, <2>4, FailReturn
<1> QED
  BY <1>2, <1>3 DEF Promote

(* The reads of a pass, and its end. *)
LEMMA FailRead ==
    ASSUME IInv, TypeOK', FailInv, NEW p \in Procs,
           \/ \E i \in Rows : ListRollouts(p, i)
           \/ NextPlanStep(p) \/ PollAgain(p) \/ CancelRead(p) \/ CancelWrite(p)
           \/ PredecessorsDone(p) \/ Crash(p)
    PROVE  FailInv'
<1> DEFINE s == proc[p]
<1>1. UNCHANGED row /\ FailStep
  BY FailSame DEF ListRollouts, NextPlanStep, PollAgain, CancelRead, CancelWrite, PredecessorsDone, Crash
<1>2. ASSUME NEW i \in Rows, ListRollouts(p, i) PROVE FailInv'
  <2>1. PICK n : n = Local("listed", i, row[i], {}, 0)
    OBVIOUS
  <2>2. n.pc = "listed" /\ n.id = i /\ n.r = row[i] /\ n.todo = {}
    BY <2>1 DEF Local
  <2>3. Fit(p, n)
    BY <1>2, <2>2 DEF Fit, Failing, ListRollouts
  <2> QED
    BY <1>1, <1>2, <2>1, <2>3, FailMove DEF ListRollouts, Goto
<1>3. ASSUME NEW i, NEW r, Goto(p, "promote", i, r) PROVE FailInv'
  <2>1. PICK n : n = Local("promote", i, r, {}, 0)
    OBVIOUS
  <2>2. n.pc = "promote"
    BY <2>1 DEF Local
  <2>3. Fit(p, n)
    BY <2>2 DEF Fit, Failing
  <2> QED
    BY <1>1, <1>3, <2>1, <2>3, FailMove DEF Goto
<1>4. CASE CancelRead(p) \/ CancelWrite(p)
  <2>1. s.pc \in {"cancel_read", "cancel_write"} /\ \E pc \in {"cancel_write", "list_followers"} :
           Goto(p, pc, s.id, s.r)
    BY <1>4 DEF CancelRead, CancelWrite, At
  <2> QED
    BY <1>1, <2>1, FailGoto DEF Goto, Failing
<1>5. CASE Return(p)
  BY <1>1, <1>5, FailReturn
<1> QED
  BY <1>2, <1>3, <1>4, <1>5 DEF NextPlanStep, PollAgain, PredecessorsDone, Crash

(* The cancellation walk: only queued rows are written. *)
LEMMA FailWalk ==
    ASSUME IInv, TypeOK', FailInv, NEW p \in Procs, CancelWalk(p) PROVE FailInv'
<1> DEFINE s == proc[p]
<1>1. TypeOK /\ s \in ProcRec /\ s.todo \in SUBSET (Rows \X Nat) /\ WalkOK(p) /\ Fit(p, s)
  BY DEF IInv, TypeOK, ProcRec, PlanCopies, CopyOK, FailInv
<1>2. s.pc \in {"list_followers", "followers"}
  BY DEF CancelWalk, ListFollowers, CancelFollower, FollowersCancelled, At
<1>3. ASSUME FollowersDone(p), UNCHANGED row PROVE FailInv'
  BY <1>2, <1>3, FailSame, FailReturn, FailGoto DEF FollowersDone, Goto, Failing
<1>4. CASE ListFollowers(p)
  <2>1. UNCHANGED row /\ (FollowersDone(p) \/ \E S : Walk(p, "followers", S))
    BY <1>4 DEF ListFollowers
  <2>2. ASSUME NEW S, Walk(p, "followers", S) PROVE FailInv'
    BY <1>2, <2>1, <2>2, FailSame, FailGoto DEF Walk, Failing
  <2> QED
    BY <1>3, <2>1, <2>2
<1>5. CASE FollowersCancelled(p)
  BY <1>3, <1>5 DEF FollowersCancelled
<1>6. ASSUME NEW t \in s.todo, s.pc = "followers",
             UpdateRollout(t[1], [row[t[1]] EXCEPT !.state = "cancelled", !.version = t[2]]),
             proc' = [proc EXCEPT ![p].todo = @ \ {t}]
      PROVE  FailInv'
  <2>1. PICK i \in Rows : i = t[1]
    BY <1>1
  <2>2. PICK n : n = [[row[i] EXCEPT !.state = "cancelled", !.version = t[2]] EXCEPT !.version = @ + 1]
    OBVIOUS
  <2>3. n.state = "cancelled" /\ n.version = row[i].version + 1 /\ t[2] = row[i].version
    BY <1>1, <1>6, <2>1, <2>2, RowType DEF RowRec, UpdateRollout
  <2>4. row[i].state = "queued"
    BY <1>1, <1>6, <2>1, <2>3 DEF WalkOK
  <2>5. row' = [row EXCEPT ![i] = n]
    BY <1>6, <2>1, <2>2 DEF UpdateRollout
  <2>6. FailStep
    BY <1>1, <2>3, <2>4, <2>5, FailWrite
  <2>7. PICK x \in ProcRec : x = [s EXCEPT !.todo = @ \ {t}]
    BY <1>1 DEF ProcRec
  <2>8. x.id = s.id /\ x.r = s.r /\ x.pc = s.pc
    BY <1>1, <2>7 DEF ProcRec
  <2>9. proc' = [proc EXCEPT ![p] = x]
    BY <1>1, <1>6, <2>7 DEF TypeOK
  <2>10. Fit(p, x)
    BY <1>1, <1>6, <2>8 DEF Fit
  <2>11. Fit(p, x)'
    BY <1>1, <1>6, <2>6, <2>8, <2>10, FitStable
  <2> QED
    BY <2>6, <2>9, <2>11, FailAssemble
<1>7. CASE CancelFollower(p)
  BY <1>3, <1>6, <1>7 DEF CancelFollower, At
<1> QED
  BY <1>4, <1>5, <1>7 DEF CancelWalk

(* The predecessors that the walk takes up have succeeded before the step  *)
(* it started from failed.                                                 *)
LEMMA FailPredecessors ==
    ASSUME IInv, TypeOK', FailInv, NEW p \in Engines, ListPredecessors(p) PROVE FailInv'
<1> DEFINE s == proc[p]
           S == {i \in Rows : InPlan(i) /\ row[i].index \in 0..(s.r.index - 1)
                              /\ row[i].state = "succeeded" /\ Kind(i) = "rollout"}
<1>0. p \in Procs /\ p # Api
  BY ProcsAssumption DEF Procs
<1>1. TypeOK /\ s \in ProcRec /\ s.id \in Rows /\ s.r.index \in Int /\ Fit(p, s) /\ RowsOK
  BY <1>0 DEF IInv, TypeOK, ProcRec, RowRec, PlanCopies, CopyOK, FailInv
<1>2. UNCHANGED row /\ s.pc = "list_predecessors"
  BY DEF ListPredecessors, At
<1>3. ASSUME NEW i \in S PROVE i[1] = "step" /\ Undoable(i[2])
  <2>1. /\ i \in Rows /\ i[2] \in Steps /\ (i = Step(i[2]) \/ i = Undo(i[2]))
        /\ row[i].index \in 0..(s.r.index - 1) /\ row[i].plan /\ row[i].state = "succeeded"
    BY RowIds DEF InPlan
  <2>2. i = Step(i[2])
    BY <1>1, <2>1 DEF RowsOK
  <2>3. row[i].index = i[2]
    BY <1>1, <2>1, <2>2 DEF RowsOK
  <2>4. s.id[1] # "undo"
    BY <1>0, <1>1, <1>2, <2>1 DEF Fit, Failing
  <2>5. s.id[1] = "step" /\ s.id[2] \in Steps
    BY <1>1, <2>4, RowIds
  <2>6. s.r.index = s.id[2] /\ Failed(s.id[2])
    BY <1>0, <1>1, <1>2, <2>5 DEF Fit, Failing
  <2>7. s.id[2] > i[2]
    BY <1>1, <2>1, <2>3, <2>6
  <2> QED
    BY <2>1, <2>2, <2>5, <2>6, <2>7, RowIds DEF Undoable
<1>4. CASE Walk(p, "predecessors", S)
  <2> HIDE DEF S
  <2>1. PICK x : x = Local("predecessors", s.id, s.r, {<<i, row[i].version>> : i \in S}, 0)
    OBVIOUS
  <2>2. x.pc = "predecessors" /\ x.todo = {<<i, row[i].version>> : i \in S}
    BY <2>1 DEF Local
  <2>3. \A t \in x.todo : t[1] \in S
    BY <2>2
  <2>4. Fit(p, x)
    BY <1>3, <2>2, <2>3 DEF Fit, Failing
  <2> QED
    BY <1>0, <1>2, <1>4, <2>1, <2>4, FailMove DEF Walk
<1>5. CASE Return(p)
  BY <1>0, <1>2, <1>5, FailSame, FailReturn
<1> QED
  BY <1>4, <1>5 DEF ListPredecessors

LEMMA FailUndo ==
    ASSUME IInv, TypeOK', FailInv, NEW p \in Procs, CreateUndo(p) \/ LinkUndo(p) \/ GroupUndo(p)
    PROVE  FailInv'
<1> DEFINE s == proc[p]
<1>1. /\ TypeOK /\ s \in ProcRec /\ s.r \in RowRec /\ s.id \in Rows /\ s.todo \in SUBSET (Rows \X Nat)
      /\ Fit(p, s) /\ WalkOK(p)
  BY DEF IInv, TypeOK, ProcRec, PlanCopies, CopyOK, FailInv
<1>2. s.pc \in {"predecessors", "link", "group"}
  BY DEF CreateUndo, LinkUndo, GroupUndo, At
<1>3. ASSUME FailStep, NEW x \in ProcRec, x.todo \subseteq s.todo, x.id = s.id, x.r = s.r,
             x.pc \in {"predecessors", "group"}, x.pc = "group" => s.pc = "link",
             proc' = [proc EXCEPT ![p] = x]
      PROVE  FailInv'
  <2>1. Fit(p, x)
    BY <1>1, <1>2, <1>3 DEF Fit, Failing
  <2>2. Fit(p, x)'
    BY <1>1, <1>3, <2>1, FitStable
  <2> QED
    BY <1>3, <2>2, FailAssemble
<1>4. CASE LinkUndo(p) \/ GroupUndo(p)
  <2>1. s.pc \in {"link", "group"} /\ s.id[1] = "undo" /\ row[s.id].state # "absent" /\ s.r.state # "absent"
    BY <1>1, <1>4 DEF LinkUndo, GroupUndo, At, WalkOK, Fit
  <2>2. ASSUME NEW r \in RowRec, Overwrite(s.id, r), r.state = s.r.state PROVE FailStep
    <3>1. PICK n : n = [r EXCEPT !.version = row[s.id].version + 1]
      OBVIOUS
    <3>2. n.state = s.r.state
      BY <2>2, <3>1 DEF RowRec
    <3>3. row' = [row EXCEPT ![s.id] = n]
      BY <2>2, <3>1 DEF Overwrite
    <3> QED
      BY <1>1, <2>1, <3>2, <3>3, FailWrite
  <2>3. -s.walked \in Int
    BY <1>1 DEF ProcRec
  <2>4. PICK g \in RowRec : g = [s.r EXCEPT !.plan = TRUE, !.index = -s.walked]
    BY <1>1, <2>3, CopyType DEF States
  <2>5. g.state = s.r.state
    BY <1>1, <2>4 DEF RowRec
  <2>6. FailStep
    BY <1>1, <1>4, <2>2, <2>4, <2>5, FailSame DEF LinkUndo, GroupUndo
  <2>7. PICK pc \in {"predecessors", "group"} :
           proc' = [proc EXCEPT ![p].pc = pc] /\ (pc = "group" => s.pc = "link")
    BY <1>4 DEF LinkUndo, GroupUndo, NextUndo, At
  <2>8. PICK x \in ProcRec : x = [s EXCEPT !.pc = pc]
    BY <1>1 DEF ProcRec, PCs
  <2>9. x.todo = s.todo /\ x.id = s.id /\ x.r = s.r /\ x.pc = pc
    BY <1>1, <2>8 DEF ProcRec
  <2>10. proc' = [proc EXCEPT ![p] = x]
    BY <1>1, <2>7, <2>8 DEF TypeOK
  <2> QED
    BY <1>3, <2>6, <2>7, <2>9, <2>10
<1>5. ASSUME NEW t \in s.todo, SkipUndo(p, t), UNCHANGED row, s.pc = "predecessors" PROVE FailInv'
  <2>1. PICK x : x = [s EXCEPT !.todo = @ \ {t}, !.walked = @ + 1]
    OBVIOUS
  <2>2. s.walked + 1 \in Nat
    BY <1>1 DEF ProcRec
  <2>3. x \in ProcRec
    BY <1>1, <2>1, <2>2 DEF ProcRec
  <2>4. x.todo \subseteq s.todo /\ x.id = s.id /\ x.r = s.r /\ x.pc = "predecessors"
    BY <1>1, <1>5, <2>1 DEF ProcRec
  <2>5. proc' = [proc EXCEPT ![p] = x]
    BY <1>1, <1>5, <2>1 DEF SkipUndo, TypeOK
  <2> QED
    BY <1>3, <1>5, <2>3, <2>4, <2>5, FailSame
<1>6. CASE CreateUndo(p)
  <2>1. s.pc = "predecessors"
    BY <1>6 DEF CreateUndo, At
  <2>2. PICK t \in s.todo :
           \/ \E gate \in BOOLEAN :
                 LET r == NewRow(IF gate THEN "pending_approval" ELSE "pending",
                                 1, FALSE, 0, gate, TRUE)
                 IN
                 /\ row' = [row EXCEPT ![Undo(t[1][2])] = r]
                 /\ proc' = [proc EXCEPT ![p] = Local("link", Undo(t[1][2]), r, s.todo \ {t}, s.walked + 1)]
           \/ SkipUndo(p, t) /\ UNCHANGED row
    BY <1>6 DEF CreateUndo
  <2>3. PICK k \in Steps : k = t[1][2]
    BY <1>1, <2>2, RowIds
  <2>4. ASSUME NEW gate \in BOOLEAN, NEW r,
               r = NewRow(IF gate THEN "pending_approval" ELSE "pending", 1, FALSE, 0, gate, TRUE),
               row' = [row EXCEPT ![Undo(t[1][2])] = r],
               proc' = [proc EXCEPT ![p] = Local("link", Undo(t[1][2]), r, s.todo \ {t}, s.walked + 1)]
        PROVE  FailInv'
    <3>1. r.state # "absent"
      BY <2>4 DEF NewRow
    <3>2. Undoable(k)
      BY <1>1, <2>1, <2>2, <2>3 DEF Fit
    <3>3. Undo(k) \in Rows /\ row'[Undo(k)] = r /\ \A j \in Rows : j # Undo(k) => row'[j] = row[j]
      BY <1>1, <2>3, <2>4, RowIds DEF TypeOK
    <3>4. \A j \in Steps : Step(j) \in Rows /\ Step(j) # Undo(k) /\ Undo(j) \in Rows
                           /\ (Undo(j) = Undo(k) => j = k)
      BY RowIds
    <3>5. FailStep
      BY <3>1, <3>2, <3>3, <3>4 DEF FailStep, Failed
    <3>6. PICK x : x = Local("link", Undo(k), r, s.todo \ {t}, s.walked + 1)
      OBVIOUS
    <3>7. x.pc = "link" /\ x.id = Undo(k) /\ x.r = r /\ x.todo \subseteq s.todo
      BY <3>6 DEF Local
    <3>8. ASSUME NEW u \in x.todo PROVE u[1][1] = "step" /\ Undoable(u[1][2])'
      <4>1. PICK j \in Steps : j = u[1][2]
        BY <1>1, <3>7, RowIds
      <4>2. u[1][1] = "step" /\ Undoable(j)
        BY <1>1, <2>1, <3>7, <4>1 DEF Fit
      <4>3. Undoable(j)'
        BY <3>5, <4>2, UndoableStable
      <4> QED
        BY <4>1, <4>2, <4>3
    <3>9. Fit(p, x)'
      BY <3>1, <3>3, <3>7, <3>8 DEF Fit, Failing
    <3> QED
      BY <2>3, <2>4, <3>5, <3>6, <3>9, FailAssemble
  <2>5. CASE SkipUndo(p, t) /\ UNCHANGED row
    BY <1>5, <2>1, <2>2, <2>5
  <2> QED
    BY <2>2, <2>4, <2>5
<1> QED
  BY <1>4, <1>6

(* No command brings a failed step back. *)
LEMMA FailOperator ==
    ASSUME IInv, TypeOK', FailInv, NEW i \in Rows,
           Pause(i) \/ Resume(i) \/ Abort(i) \/ Approve(i) \/ Reject(i)
    PROVE  FailInv'
<1>0. Api \in Procs /\ TypeOK
  BY DEF Procs, IInv
<1>1. PICK st \in {"paused", "in_progress", "aborted", "pending", "rejected"} :
          /\ UpdateRollout(i, [row[i] EXCEPT !.state = st])
          /\ row[i].state \notin {"absent", "succeeded", "rolled_back"}
          /\ row[i].state = "aborted" => st = "aborted"
  BY DEF Pause, Resume, Abort, Approve, Reject, Command
<1>2. PICK n : n = [[row[i] EXCEPT !.state = st] EXCEPT !.version = @ + 1]
  OBVIOUS
<1>3. n.state = st /\ n.version = row[i].version + 1
  BY <1>0, <1>2, RowType DEF RowRec
<1>4. row' = [row EXCEPT ![i] = n]
  BY <1>1, <1>2 DEF UpdateRollout
<1>5. FailStep
  BY <1>0, <1>1, <1>3, <1>4, FailWrite
<1>6. CASE UNCHANGED proc
  <2>1. PICK x \in ProcRec : x = proc[Api]
    BY <1>0 DEF TypeOK
  <2>2. proc' = [proc EXCEPT ![Api] = x]
    BY <1>0, <1>6, <2>1 DEF TypeOK
  <2>3. Fit(Api, x) /\ CopyOK(Api)
    BY <1>0, <2>1 DEF FailInv, IInv, PlanCopies
  <2>4. Fit(Api, x)'
    BY <1>0, <1>5, <2>1, <2>3, FitStable DEF CopyOK, WorkOK
  <2> QED
    BY <1>0, <1>5, <2>2, <2>4, FailAssemble
<1>7. CASE Goto(Api, "list_followers", i, row[i])
  <2>1. PICK x : x = Local("list_followers", i, row[i], {}, 0)
    OBVIOUS
  <2>2. x.pc = "list_followers"
    BY <2>1 DEF Local
  <2>3. Fit(Api, x)'
    BY <2>2 DEF Fit
  <2> QED
    BY <1>0, <1>5, <1>7, <2>1, <2>3, FailAssemble DEF Goto
<1> QED
  BY <1>6, <1>7 DEF Pause, Resume, Abort, Approve, Reject

LEMMA FailFlag ==
    ASSUME IInv, TypeOK', FailInv, NEW i \in Rows, SetExcludeFromLearning(i) PROVE FailInv'
<1>0. Api \in Procs /\ TypeOK
  BY DEF Procs, IInv
<1>1. UNCHANGED proc /\ row[i].state # "absent"
  BY DEF SetExcludeFromLearning
<1>2. PICK n : n = [row[i] EXCEPT !.version = @ + 1]
  OBVIOUS
<1>3. n.state = row[i].state /\ n.version = row[i].version + 1
  BY <1>0, <1>2, RowType DEF RowRec
<1>4. row' = [row EXCEPT ![i] = n]
  BY <1>2 DEF SetExcludeFromLearning, UpdateRollout
<1>5. FailStep
  BY <1>0, <1>1, <1>3, <1>4, FailWrite
<1>6. PICK x \in ProcRec : x = proc[Api]
  BY <1>0 DEF TypeOK
<1>7. proc' = [proc EXCEPT ![Api] = x]
  BY <1>0, <1>1, <1>6 DEF TypeOK
<1>8. Fit(Api, x) /\ CopyOK(Api)
  BY <1>0, <1>6 DEF FailInv, IInv, PlanCopies
<1>9. Fit(Api, x)'
  BY <1>0, <1>5, <1>6, <1>8, FitStable DEF CopyOK, WorkOK
<1> QED
  BY <1>0, <1>5, <1>7, <1>9, FailAssemble

LEMMA FailInit == Init => FailInv
<1> SUFFICES ASSUME Init PROVE FailInv
  OBVIOUS
<1>1. PICK m \in 1..Len(Kinds), cleaned \in SUBSET Steps, gate \in BOOLEAN, first \in 0..Len(Kinds) :
         row = CreatePlan(m, cleaned, gate, first)
  BY DEF Init
<1>2. \A k \in Steps : Undo(k) \in Rows /\ Undo(k)[1] = "undo"
  BY RowIds
<1>3. \A k \in Steps : row[Undo(k)].state = "absent"
  BY <1>1, <1>2 DEF CreatePlan, Absent, NewRow
<1>4. \A p \in Procs : proc[p].pc = "idle"
  BY DEF Init, Idle, Local
<1> QED
  BY <1>3, <1>4 DEF FailInv, UndoOnlyAfterFailure, Fit, Failing

LEMMA FailInvariant == Spec => []FailInv
<1>1. IInv /\ IInv' /\ FailInv /\ [Next]_vars => FailInv'
  <2> SUFFICES ASSUME IInv, IInv', FailInv, [Next]_vars PROVE FailInv'
    OBVIOUS
  <2>1. TypeOK' /\ Engines \subseteq Procs
    BY DEF IInv, Procs
  <2>2. ASSUME NEW p \in Engines, Pass(p) PROVE FailInv'
    BY <2>1, <2>2, FailDecide, FailPersist, FailPromote, FailRead, FailPredecessors, FailUndo
       DEF Pass
  <2>3. ASSUME UNCHANGED <<row, proc>> PROVE FailInv'
    BY <2>3 DEF FailInv, UndoOnlyAfterFailure, Fit, Failed, Undoable
  <2>4. CASE \/ FetchPending \/ PostResult \/ RunnerRestart
             \/ \E q \in DOMAIN req : HandleOne(q) \/ Expire(q)
             \/ UNCHANGED vars
    BY <2>3, <2>4 DEF FetchPending, PostResult, RunnerRestart, HandleOne, Expire, vars
  <2> QED
    BY <2>1, <2>2, <2>4, FailRead, FailWalk, FailOperator, FailFlag DEF Next
<1> QED
  BY <1>1, FailInit, PlanInvariant, PTL DEF Spec

(* For every plan and every schedule: a rollback rollout exists only for a *)
(* step that has succeeded and before a step that has failed, although the *)
(* walk acts on a list it read earlier and operators, other engines and    *)
(* crashes come in between (RollBackPlanPredecessors).                     *)
THEOREM UndoesHaveAReason == Spec => []UndoOnlyAfterFailure
<1>1. FailInv => UndoOnlyAfterFailure
  BY DEF FailInv
<1> QED
  BY <1>1, FailInvariant, PTL

-----------------------------------------------------------------------------
(* An action is executed once, and once more for every flag.               *)
(*                                                                         *)
(* With one engine and no fault the requests of an action step are one, or *)
(* one more for every time its pending row was flagged.  A request is      *)
(* stored before the row records it, but while the row still says pending  *)
(* either the engine that stored it is on its way to write it, or a flag   *)
(* has got in between and has paid for the next request; every other write *)
(* leaves a row that is not pending any more.  The runner does the rest:   *)
(* it executes only what it has not seen.                                  *)

OneEngine == \A a, b \in Engines : a = b

RequestsOf(k) == {q \in DOMAIN req : req[q].step = k}
SeenOf(k) == {q \in RequestsOf(k) : q \in runner.seen}
Count(k) == Cardinality(RequestsOf(k))

RunnerOnce ==
    /\ runner.batch \cap runner.seen = {}
    /\ \A k \in Steps : ran[k] <= Cardinality(SeenOf(k))

Writer(p, k) ==
    proc[p].pc = "persist" /\ proc[p].id = Step(k) /\ proc[p].r.version = row[Step(k)].version

(* A pending row that may be dispatched again has been flagged. *)
DispatchKnown ==
    \A k \in Steps :
        /\ Count(k) <= 1 + flips[k]
        /\ row[Step(k)].state = "pending" => Count(k) <= flips[k] \/ \E p \in Engines : Writer(p, k)

DispatchDue(p) ==
    LET s == proc[p] IN
    /\ s.pc = "listed" /\ s.id[1] = "step" /\ s.r.state = "pending" =>
          /\ Count(s.id[2]) <= flips[s.id[2]]
          /\ row[s.id].state = "pending" /\ s.r.version # row[s.id].version =>
                Count(s.id[2]) + 1 <= flips[s.id[2]]
    /\ s.pc = "persist" => s.r.state # "pending"

Once == RunnerOnce /\ DispatchKnown /\ \A p \in Engines : DispatchDue(p)

OnceInv == faults = MaxFaults => Once

(* No step becomes pending that has been dispatched. *)
PendingStep ==
    \A k \in Steps : row'[Step(k)].state = "pending" =>
        \/ row'[Step(k)] = row[Step(k)]
        \/ row[Step(k)].state \in {"queued", "pending_approval"}

(* The requests keep their number and their steps. *)
RequestsKept ==
    DOMAIN req' = DOMAIN req /\ \A q \in DOMAIN req : req'[q].step = req[q].step

LEMMA NoFaultYet ==
    ASSUME TypeOK, NEW kind, Fault(kind) PROVE faults' # MaxFaults
BY PlanBounds DEF TypeOK, Fault

LEMMA CountType ==
    ASSUME TypeOK, NEW k \in Steps
    PROVE  /\ IsFiniteSet(RequestsOf(k)) /\ Count(k) \in Nat /\ flips[k] \in Nat /\ ran[k] \in Nat
           /\ IsFiniteSet(SeenOf(k)) /\ Cardinality(SeenOf(k)) \in Nat
           /\ Cardinality(SeenOf(k)) <= Count(k)
           /\ ~Open(k) => Count(k) = 0
<1>1. flips[k] \in Nat /\ ran[k] \in Nat
  BY DEF TypeOK
<1>2. IsFiniteSet(1..Len(req)) /\ DOMAIN req = 1..Len(req)
  BY FS_Interval DEF TypeOK
<1>3. IsFiniteSet(RequestsOf(k))
  BY <1>2, FS_Subset DEF RequestsOf
<1>4. IsFiniteSet(SeenOf(k)) /\ Cardinality(SeenOf(k)) <= Cardinality(RequestsOf(k))
  BY <1>3, FS_Subset DEF SeenOf
<1>5. Cardinality(SeenOf(k)) \in Nat /\ Cardinality(RequestsOf(k)) \in Nat
  BY <1>3, <1>4, FS_CardinalityType
<1>6. ~Open(k) => Cardinality(RequestsOf(k)) = 0
  <2>1. ~Open(k) => RequestsOf(k) = {}
    BY DEF Open, RequestsOf
  <2> QED
    BY <2>1, FS_EmptySet
<1> QED
  BY <1>1, <1>3, <1>4, <1>5, <1>6 DEF Count

LEMMA CountKept == ASSUME RequestsKept PROVE \A k : Count(k)' = Count(k)
<1>1. ASSUME NEW k PROVE RequestsOf(k)' = RequestsOf(k)
  BY DEF RequestsKept, RequestsOf
<1> QED
  BY <1>1 DEF Count

LEMMA RunnerKept ==
    ASSUME RequestsKept, RunnerOnce, UNCHANGED <<runner, ran>> PROVE RunnerOnce'
<1>1. ASSUME NEW k PROVE SeenOf(k)' = SeenOf(k)
  BY DEF RequestsKept, RequestsOf, SeenOf
<1> QED
  BY <1>1 DEF RunnerOnce

(* A step that was not dispatched has no requests. *)
LEMMA WaitingCount ==
    ASSUME IInv, NEW k \in Steps, row[Step(k)].state \in {"queued", "pending_approval"}
    PROVE  Count(k) <= flips[k]
<1>1. ~Open(k)
  BY DEF IInv, ActionsInOrder
<1> QED
  BY <1>1, CountType DEF IInv

(* The engines stand still. *)
LEMMA OnceAround ==
    ASSUME IInv, RunnerOnce', DispatchKnown, \A p \in Engines : DispatchDue(p), UNCHANGED flips,
           RequestsKept, PendingStep, \A p \in Engines : proc'[p] = proc[p]
    PROVE  Once'
<1>1. DispatchKnown'
  <2>1. ASSUME NEW k \in Steps
        PROVE  Count(k)' <= 1 + flips'[k]
    BY CountKept DEF DispatchKnown
  <2>2. ASSUME NEW k \in Steps, row'[Step(k)].state = "pending"
        PROVE  Count(k)' <= flips'[k] \/ \E p \in Engines : Writer(p, k)'
    <3>1. CASE row'[Step(k)] = row[Step(k)]
      BY <2>2, <3>1, CountKept DEF DispatchKnown, Writer
    <3>2. CASE row[Step(k)].state \in {"queued", "pending_approval"}
      BY <3>2, CountKept, WaitingCount
    <3> QED
      BY <2>2, <3>1, <3>2 DEF PendingStep
  <2> QED
    BY <2>1, <2>2 DEF DispatchKnown
<1>2. ASSUME NEW p \in Engines PROVE DispatchDue(p)'
  <2> DEFINE s == proc[p]
  <2>1. DispatchDue(p) /\ WorkOK(p) /\ s.id \in Rows
    BY DEF IInv, PlanCopies, CopyOK, Procs, TypeOK, ProcRec
  <2>2. PICK k \in Steps : k = s.id[2]
    BY <2>1, RowIds
  <2>3. s.id[1] = "step" => s.id = Step(k)
    BY <2>1, <2>2, RowIds
  <2>4. Count(k)' = Count(k) /\ flips'[k] = flips[k]
    BY CountKept
  <2>5. s.pc = "listed" /\ s.id[1] = "step" => row[s.id].state \notin {"queued", "pending_approval"}
    BY <2>1 DEF WorkOK, Past
  <2>6. s.pc = "listed" /\ s.id[1] = "step" /\ row'[s.id].state = "pending" => row'[s.id] = row[s.id]
    BY <2>3, <2>5 DEF PendingStep
  <2> QED
    BY <2>1, <2>2, <2>4, <2>6 DEF DispatchDue
<1> QED
  BY <1>1, <1>2 DEF Once

(* The flag: a pending row that is flagged pays for one more request. *)
LEMMA OnceFlag ==
    ASSUME IInv, Once, NEW i \in Rows, SetExcludeFromLearning(i) PROVE Once'
<1>0. TypeOK /\ row[i] \in RowRec /\ i[2] \in Steps
  BY RowType, RowIds DEF IInv
<1>1. UNCHANGED <<proc, req, runner, ran>>
  BY DEF SetExcludeFromLearning
<1>2. RequestsKept
  BY <1>1 DEF RequestsKept
<1>3. /\ row'[i].state = row[i].state
      /\ \A j \in Rows : j # i => row'[j] = row[j]
  <2>1. row' = [row EXCEPT ![i] = [row[i] EXCEPT !.version = @ + 1]]
    BY DEF SetExcludeFromLearning, UpdateRollout
  <2>2. row'[i] = [row[i] EXCEPT !.version = @ + 1] /\ \A j \in Rows : j # i => row'[j] = row[j]
    BY <1>0, <2>1 DEF TypeOK
  <2> QED
    BY <1>0, <2>2 DEF RowRec
<1>4. ASSUME NEW k \in Steps
      PROVE  /\ flips'[k] \in {flips[k], flips[k] + 1}
             /\ i = Step(k) /\ row[i].state = "pending" => flips'[k] = flips[k] + 1
  <2>1. i = Step(k) => i[1] = "step" /\ i[2] = k
    BY RowIds
  <2> QED
    BY <1>0, <2>1 DEF SetExcludeFromLearning, TypeOK
<1>5. ASSUME NEW k \in Steps
      PROVE  /\ Count(k)' = Count(k) /\ Count(k) \in Nat /\ flips[k] \in Nat
             /\ Step(k) # i => row'[Step(k)] = row[Step(k)]
             /\ row'[Step(k)].state = row[Step(k)].state
  BY <1>0, <1>2, <1>3, CountType, CountKept, RowIds
<1>6. DispatchKnown'
  <2>1. ASSUME NEW k \in Steps PROVE Count(k)' <= 1 + flips'[k]
    BY <1>4, <1>5 DEF Once, DispatchKnown
  <2>2. ASSUME NEW k \in Steps, row'[Step(k)].state = "pending"
        PROVE  Count(k)' <= flips'[k] \/ \E p \in Engines : Writer(p, k)'
    <3>1. Count(k) <= 1 + flips[k] /\ (Count(k) <= flips[k] \/ \E p \in Engines : Writer(p, k))
      BY <1>5, <2>2 DEF Once, DispatchKnown
    <3>2. CASE i = Step(k)
      BY <1>4, <1>5, <2>2, <3>1, <3>2
    <3>3. CASE i # Step(k)
      <4>1. ASSUME NEW p \in Engines, Writer(p, k) PROVE Writer(p, k)'
        BY <1>1, <1>5, <3>3, <4>1 DEF Writer
      <4>2. Count(k) <= flips[k] => Count(k)' <= flips'[k]
        BY <1>4, <1>5
      <4> QED
        BY <3>1, <4>1, <4>2
    <3> QED
      BY <3>2, <3>3
  <2> QED
    BY <2>1, <2>2 DEF DispatchKnown
<1>7. ASSUME NEW p \in Engines PROVE DispatchDue(p)'
  <2> DEFINE s == proc[p]
  <2>1. DispatchDue(p) /\ s.id \in Rows
    BY DEF Once, IInv, Procs, TypeOK, ProcRec
  <2>2. PICK k \in Steps : k = s.id[2] /\ (s.id[1] = "step" => s.id = Step(k))
    BY <2>1, RowIds
  <2>3. ASSUME s.pc = "listed", s.id[1] = "step", s.r.state = "pending"
        PROVE  /\ Count(k)' <= flips'[k]
               /\ row'[s.id].state = "pending" /\ s.r.version # row'[s.id].version =>
                     Count(k)' + 1 <= flips'[k]
    <3>1. /\ Count(k) <= flips[k]
          /\ row[s.id].state = "pending" /\ s.r.version # row[s.id].version =>
                Count(k) + 1 <= flips[k]
      BY <2>1, <2>2, <2>3 DEF DispatchDue
    <3>2. Count(k)' <= flips'[k]
      BY <1>4, <1>5, <3>1
    <3>3. ASSUME row'[s.id].state = "pending", s.r.version # row'[s.id].version
          PROVE  Count(k)' + 1 <= flips'[k]
      <4>1. row[s.id].state = "pending"
        BY <1>5, <2>2, <2>3, <3>3
      <4>2. CASE i = Step(k)
        BY <1>4, <1>5, <2>2, <2>3, <3>1, <4>1, <4>2
      <4>3. CASE i # Step(k)
        <5>1. Count(k) + 1 <= flips[k]
          BY <1>5, <2>2, <2>3, <3>1, <3>3, <4>1, <4>3
        <5> QED
          BY <1>4, <1>5, <5>1
      <4> QED
        BY <4>2, <4>3
    <3> QED
      BY <3>2, <3>3
  <2> QED
    BY <1>1, <2>1, <2>2, <2>3 DEF DispatchDue
<1> QED
  BY <1>1, <1>2, <1>6, <1>7, RunnerKept DEF Once

(* The engine moves, but not from a write. *)
LEMMA OnceMove ==
    ASSUME IInv, Once, OneEngine, RequestsKept, UNCHANGED <<runner, ran, flips>>, PendingStep,
           NEW p \in Engines, proc[p].pc # "persist", DispatchDue(p)'
    PROVE  Once'
<1>1. ASSUME NEW k \in Steps, row'[Step(k)].state = "pending" PROVE Count(k) <= flips[k]
  <2>1. CASE row'[Step(k)] = row[Step(k)]
    <3>1. \A u \in Engines : ~Writer(u, k)
      BY DEF Writer, OneEngine
    <3> QED
      BY <1>1, <2>1, <3>1 DEF Once, DispatchKnown
  <2>2. CASE row[Step(k)].state \in {"queued", "pending_approval"}
    BY <2>2, WaitingCount
  <2> QED
    BY <1>1, <2>1, <2>2 DEF PendingStep
<1>2. DispatchKnown'
  BY <1>1, CountKept DEF Once, DispatchKnown
<1>3. \A u \in Engines : DispatchDue(u)'
  BY DEF OneEngine
<1> QED
  BY <1>2, <1>3, RunnerKept DEF Once

LEMMA PendingSame == ASSUME UNCHANGED row PROVE PendingStep
BY DEF PendingStep

LEMMA PendingWrite ==
    ASSUME TypeOK, NEW i \in Rows, NEW n, row' = [row EXCEPT ![i] = n],
           \/ n.state # "pending"
           \/ i[1] = "undo"
           \/ row[i].state \in {"queued", "pending_approval"}
    PROVE  PendingStep
<1>1. row'[i] = n /\ \A j \in Rows : j # i => row'[j] = row[j]
  BY DEF TypeOK
<1>2. \A k \in Steps : Step(k) \in Rows /\ Step(k)[1] = "step"
  BY RowIds
<1> QED
  BY <1>1, <1>2 DEF PendingStep

(* A process that is neither at a listed row nor about to write one. *)
LEMMA DueFree ==
    ASSUME NEW p, proc'[p].pc \notin {"listed", "persist"} PROVE DispatchDue(p)'
BY DEF DispatchDue

LEMMA OnceReturn ==
    ASSUME TypeOK, NEW p \in Procs, Return(p) PROVE proc'[p].pc = "idle"
BY DEF TypeOK, Return, Idle, Local

(* The pass lists a row: nobody is on the way to write it, so if it has    *)
(* been dispatched, it has been flagged since.                             *)
LEMMA OnceList ==
    ASSUME IInv, Once, OneEngine, NEW p \in Engines, NEW i \in Rows, ListRollouts(p, i)
    PROVE  Once'
<1>1. p \in Procs /\ TypeOK
  BY DEF Procs, IInv
<1>2. UNCHANGED <<row, req, runner, ran, flips>> /\ proc[p].pc = "idle"
  BY DEF ListRollouts, agentside, At
<1>3. proc'[p].pc = "listed" /\ proc'[p].id = i /\ proc'[p].r = row[i]
  BY <1>1 DEF ListRollouts, Goto, Local, TypeOK
<1>4. PICK k \in Steps : k = i[2] /\ (i[1] = "step" => i = Step(k))
  BY RowIds
<1>5. ASSUME i[1] = "step", row[i].state = "pending" PROVE Count(k) <= flips[k]
  <2>1. \A u \in Engines : ~Writer(u, k)
    BY <1>2 DEF Writer, OneEngine
  <2> QED
    BY <1>4, <1>5, <2>1 DEF Once, DispatchKnown
<1>6. RequestsKept
  BY <1>2 DEF RequestsKept
<1>7. DispatchDue(p)'
  BY <1>2, <1>3, <1>4, <1>5, <1>6, CountKept DEF DispatchDue
<1> QED
  BY <1>2, <1>6, <1>7, PendingSame, OnceMove

LEMMA OnceDecide ==
    ASSUME IInv, Once, OneEngine, NEW p \in Engines,
           \/ Start(p) \/ Finish(p) \/ TriggerAbort(p) \/ Finalize(p)
           \/ DispatchFails(p) \/ PollActionStep(p)
    PROVE  Once'
<1>1. p \in Procs /\ TypeOK /\ proc[p].r \in RowRec
  BY DEF Procs, IInv, TypeOK, ProcRec
<1>2. ASSUME NEW st, st # "pending", Decide(p, st), At(p, "listed") PROVE Once'
  <2>1. UNCHANGED <<row, req, runner, ran, flips>> /\ proc[p].pc = "listed"
    BY <1>2 DEF Decide, agentside, At
  <2>2. proc'[p].pc = "persist" /\ proc'[p].r = [proc[p].r EXCEPT !.state = st]
    BY <1>1, <1>2 DEF Decide, Goto, Local, TypeOK
  <2>3. proc'[p].r.state = st
    BY <1>1, <2>2 DEF RowRec
  <2>4. DispatchDue(p)'
    BY <1>2, <2>2, <2>3 DEF DispatchDue
  <2> QED
    BY <2>1, <2>4, PendingSame, OnceMove DEF RequestsKept
<1>3. CASE PollActionStep(p)
  BY <1>2, <1>3 DEF PollActionStep, Listed, Verdict
<1> QED
  BY <1>2, <1>3 DEF Start, Finish, TriggerAbort, Finalize, DispatchFails, Listed

(* The one action that adds a request. *)
LEMMA OnceDispatch ==
    ASSUME IInv, Once, OneEngine, NEW p \in Engines, DispatchActionStep(p) PROVE Once'
<1> DEFINE s == proc[p]
<1>1. p \in Procs /\ TypeOK /\ s.r \in RowRec /\ s.id \in Rows /\ req \in Seq(ReqRec)
  BY DEF Procs, IInv, TypeOK, ProcRec
<1>2. s.pc = "listed" /\ s.r.state = "pending" /\ s.id[1] # "undo"
  BY DEF DispatchActionStep, Listed, At, Kind
<1>3. PICK k \in Steps : k = s.id[2] /\ s.id = Step(k) /\ s.id[1] = "step"
  BY <1>1, <1>2, RowIds
<1>4. /\ Count(k) <= flips[k]
      /\ row[Step(k)].state = "pending" /\ s.r.version # row[Step(k)].version =>
            Count(k) + 1 <= flips[k]
  BY <1>2, <1>3 DEF Once, DispatchDue
<1>5. UNCHANGED <<row, runner, ran, flips>>
  BY DEF DispatchActionStep, agentside
<1>6. req' = Append(req, [step |-> k, status |-> "pending", expired |-> FALSE])
  BY <1>3 DEF DispatchActionStep
<1>7. /\ \A q \in DOMAIN req : q \in DOMAIN req' /\ req'[q] = req[q]
      /\ \A q \in DOMAIN req' : q \in DOMAIN req \/ q = Len(req) + 1
      /\ Len(req) + 1 \in DOMAIN req' /\ Len(req) + 1 \notin DOMAIN req
      /\ req'[Len(req) + 1].step = k
  BY <1>1, <1>6
<1>8. ASSUME NEW j \in Steps
      PROVE  /\ j # k => Count(j)' = Count(j)
             /\ j = k => Count(j)' = Count(j) + 1
             /\ Count(j) \in Nat /\ flips[j] \in Nat
             /\ Cardinality(SeenOf(j)) <= Cardinality(SeenOf(j)')
             /\ ran[j] \in Nat /\ Cardinality(SeenOf(j)) \in Nat /\ Cardinality(SeenOf(j)') \in Nat
  <2>1. j # k => RequestsOf(j)' = RequestsOf(j)
    BY <1>7 DEF RequestsOf
  <2>2. j = k => RequestsOf(j)' = RequestsOf(j) \cup {Len(req) + 1} /\ Len(req) + 1 \notin RequestsOf(j)
    BY <1>7 DEF RequestsOf
  <2>3. /\ IsFiniteSet(RequestsOf(j)) /\ Count(j) \in Nat /\ flips[j] \in Nat /\ ran[j] \in Nat
        /\ IsFiniteSet(SeenOf(j)) /\ Cardinality(SeenOf(j)) \in Nat
    BY <1>1, CountType
  <2>4. j = k => Cardinality(RequestsOf(j)') = Cardinality(RequestsOf(j)) + 1 /\ IsFiniteSet(RequestsOf(j)')
    BY <2>2, <2>3, FS_AddElement
  <2>5. IsFiniteSet(RequestsOf(j)')
    BY <2>1, <2>3, <2>4
  <2>6. SeenOf(j) \subseteq SeenOf(j)' /\ SeenOf(j)' \subseteq RequestsOf(j)'
    BY <1>5, <1>7 DEF SeenOf, RequestsOf
  <2>7. IsFiniteSet(SeenOf(j)')
    BY <2>5, <2>6, FS_Subset
  <2>8. Cardinality(SeenOf(j)) <= Cardinality(SeenOf(j)') /\ Cardinality(SeenOf(j)') \in Nat
    BY <2>6, <2>7, FS_Subset, FS_CardinalityType
  <2> QED
    BY <2>1, <2>3, <2>4, <2>8 DEF Count
<1>9. RunnerOnce'
  <2>1. ASSUME NEW j \in Steps PROVE ran'[j] <= Cardinality(SeenOf(j)')
    <3>1. ran[j] <= Cardinality(SeenOf(j)) /\ ran'[j] = ran[j]
      BY <1>5 DEF Once, RunnerOnce
    <3> QED
      BY <1>8, <3>1
  <2> QED
    BY <1>5, <2>1 DEF Once, RunnerOnce
<1>10. /\ proc'[p].pc = "persist" /\ proc'[p].id = Step(k)
       /\ proc'[p].r = [s.r EXCEPT !.state = "in_progress", !.request = Len(req) + 1]
  BY <1>1, <1>3 DEF DispatchActionStep, Goto, Local, TypeOK
<1>11. proc'[p].r.state = "in_progress" /\ proc'[p].r.version = s.r.version
  BY <1>1, <1>10 DEF RowRec
<1>12. ASSUME NEW j \in Steps PROVE Count(j)' <= 1 + flips'[j]
  BY <1>4, <1>5, <1>8 DEF Once, DispatchKnown
<1>13. ASSUME NEW j \in Steps, row'[Step(j)].state = "pending"
       PROVE  Count(j)' <= flips'[j] \/ \E u \in Engines : Writer(u, j)'
  <2>1. CASE j = k /\ s.r.version = row[Step(k)].version
    BY <1>5, <1>10, <1>11, <2>1 DEF Writer
  <2>2. CASE j = k /\ s.r.version # row[Step(k)].version
    <3>1. Count(k) + 1 <= flips[k]
      BY <1>4, <1>5, <1>13, <2>2
    <3> QED
      BY <1>5, <1>8, <2>2, <3>1
  <2>3. CASE j # k
    <3>1. \A u \in Engines : ~Writer(u, j)
      BY <1>2 DEF Writer, OneEngine
    <3>2. Count(j) <= flips[j]
      BY <1>5, <1>13, <3>1 DEF Once, DispatchKnown
    <3> QED
      BY <1>5, <1>8, <2>3, <3>2
  <2> QED
    BY <2>1, <2>2, <2>3
<1>14. DispatchKnown'
  BY <1>12, <1>13 DEF DispatchKnown
<1>15. DispatchDue(p)'
  BY <1>10, <1>11 DEF DispatchDue
<1> QED
  BY <1>9, <1>14, <1>15 DEF Once, OneEngine

(* The write that ends the window: if it goes through, the row is not      *)
(* pending afterwards; if it does not, nobody was on the way to write it.  *)
LEMMA OncePersist ==
    ASSUME IInv, Once, OneEngine, NEW p \in Engines, Persist(p), faults' = MaxFaults PROVE Once'
<1> DEFINE s == proc[p]
<1>1. p \in Procs /\ TypeOK /\ s.r \in RowRec /\ s.id \in Rows
  BY DEF Procs, IInv, TypeOK, ProcRec
<1>2. UNCHANGED <<req, runner, ran, flips>> /\ s.pc = "persist"
  BY DEF Persist, agentside, At
<1>3. RequestsKept
  BY <1>2 DEF RequestsKept
<1>4. s.r.state # "pending"
  BY <1>2 DEF Once, DispatchDue
<1>5. ASSUME NEW k \in Steps, row[Step(k)].state = "pending",
             s.id # Step(k) \/ s.r.version # row[Step(k)].version
      PROVE  Count(k) <= flips[k]
  <2>1. \A u \in Engines : ~Writer(u, k)
    BY <1>5 DEF Writer, OneEngine
  <2> QED
    BY <1>5, <2>1 DEF Once, DispatchKnown
<1>6. ASSUME \A k \in Steps : row'[Step(k)].state = "pending" => Count(k) <= flips[k],
             proc'[p].pc \notin {"listed", "persist"}
      PROVE  Once'
  <2>1. DispatchKnown'
    BY <1>2, <1>3, <1>6, CountKept DEF Once, DispatchKnown
  <2>2. \A u \in Engines : DispatchDue(u)'
    BY <1>6, DueFree DEF OneEngine
  <2> QED
    BY <1>2, <1>3, <2>1, <2>2, RunnerKept DEF Once
<1>7. CASE s.r.version # row[s.id].version /\ Return(p) /\ UNCHANGED row
  <2>1. \A k \in Steps : row'[Step(k)].state = "pending" => Count(k) <= flips[k]
    BY <1>5, <1>7
  <2> QED
    BY <1>1, <1>6, <1>7, <2>1, OnceReturn
<1>8. CASE UpdateRollout(s.id, s.r) /\ AfterPersist(p, s.r)
  <2>1. row'[s.id] = [s.r EXCEPT !.version = @ + 1] /\ \A j \in Rows : j # s.id => row'[j] = row[j]
    BY <1>1, <1>8 DEF UpdateRollout, TypeOK
  <2>2. row'[s.id].state # "pending"
    BY <1>1, <1>4, <2>1 DEF RowRec
  <2>3. \A k \in Steps : Step(k) \in Rows
    BY RowIds
  <2>4. \A k \in Steps : row'[Step(k)].state = "pending" => Count(k) <= flips[k]
    BY <1>5, <2>1, <2>2, <2>3
  <2>5. ASSUME NEW pc, Goto(p, pc, s.id, s.r) PROVE proc'[p].pc = pc
    BY <1>1, <2>5 DEF Goto, Local, TypeOK
  <2>6. proc'[p].pc \notin {"listed", "persist"}
    BY <1>1, <1>8, <2>5, OnceReturn DEF AfterPersist
  <2> QED
    BY <1>6, <2>4, <2>6
<1> QED
  BY <1>1, <1>7, <1>8, NoFaultYet DEF Persist

(* The other moves of the engine end at a place where it holds no listed   *)
(* row.                                                                    *)
LEMMA OnceRest ==
    ASSUME IInv, Once, OneEngine, NEW p \in Engines,
           \/ PollAgain(p) \/ NextPlanStep(p) \/ Promote(p) \/ CancelRead(p) \/ CancelWrite(p)
           \/ ListPredecessors(p) \/ CreateUndo(p) \/ LinkUndo(p) \/ GroupUndo(p)
           \/ PredecessorsDone(p) \/ CancelWalk(p)
    PROVE  Once'
<1> DEFINE s == proc[p]
<1>1. /\ p \in Procs /\ TypeOK /\ s \in ProcRec /\ s.r \in RowRec /\ s.id \in Rows
      /\ s.todo \in SUBSET (Rows \X Nat) /\ CopyOK(p)
  BY DEF Procs, IInv, TypeOK, ProcRec, PlanCopies
<1>2. s.pc # "persist" /\ UNCHANGED <<runner, ran, flips>>
  BY DEF PollAgain, NextPlanStep, Promote, CancelRead, CancelWrite, ListPredecessors, CreateUndo,
         LinkUndo, GroupUndo, PredecessorsDone, CancelWalk, ListFollowers, CancelFollower,
         FollowersCancelled, Listed, At, agentside
<1>3. RequestsKept
  <2>1. ASSUME NEW q, NEW st, req' = [req EXCEPT ![q].status = st] PROVE RequestsKept
    <3>1. \A x \in DOMAIN req : req[x] \in ReqRec
      BY <1>1, RequestStep
    <3> QED
      BY <2>1, <3>1 DEF RequestsKept, ReqRec
  <2> QED
    BY <2>1 DEF PollAgain, NextPlanStep, Promote, CancelRead, CancelWrite, ListPredecessors, CreateUndo,
         LinkUndo, GroupUndo, PredecessorsDone, CancelWalk, ListFollowers, CancelFollower,
         FollowersCancelled, RequestsKept
<1>ret. ASSUME Return(p) PROVE proc'[p].pc = "idle"
  BY <1>1, <1>ret, OnceReturn
<1>goto. ASSUME NEW pc, NEW i, NEW r, Goto(p, pc, i, r) PROVE proc'[p].pc = pc
  BY <1>1, <1>goto DEF Goto, Local, TypeOK
<1>walk. ASSUME NEW pc, NEW S, Walk(p, pc, S) PROVE proc'[p].pc = pc
  BY <1>1, <1>walk DEF Walk, Local, TypeOK
<1>done. ASSUME FollowersDone(p) PROVE proc'[p].pc \in {"idle", "list_predecessors"}
  BY <1>ret, <1>goto, <1>done DEF FollowersDone
<1>4. ASSUME PendingStep, proc'[p].pc \notin {"listed", "persist"} PROVE Once'
  BY <1>2, <1>3, <1>4, DueFree, OnceMove
<1>5. CASE PollAgain(p) \/ PredecessorsDone(p)
  BY <1>4, <1>5, <1>ret, PendingSame DEF PollAgain, PredecessorsDone
<1>6. CASE NextPlanStep(p)
  BY <1>4, <1>6, <1>ret, <1>goto, PendingSame DEF NextPlanStep
<1>7. CASE Promote(p)
  <2>1. s.r.version = row[s.id].version => row[s.id].state = "queued"
    BY <1>1, <1>7 DEF CopyOK, PromoteOK, Promote, At
  <2>2. PICK n : n = [s.r EXCEPT !.version = @ + 1]
    OBVIOUS
  <2>3. PendingStep
    BY <1>1, <1>7, <2>1, <2>2, PendingSame, PendingWrite DEF Promote, UpdateRollout
  <2> QED
    BY <1>4, <1>7, <2>3, <1>ret DEF Promote
<1>8. CASE CancelRead(p) \/ CancelWrite(p)
  <2>1. UNCHANGED row /\ \E pc \in {"cancel_write", "list_followers"} : Goto(p, pc, s.id, s.r)
    BY <1>8 DEF CancelRead, CancelWrite
  <2> QED
    BY <1>4, <2>1, <1>goto, PendingSame
<1>9. CASE ListPredecessors(p)
  BY <1>4, <1>9, <1>ret, <1>walk, PendingSame DEF ListPredecessors
<1>10. CASE LinkUndo(p) \/ GroupUndo(p)
  <2>1. s.id[1] = "undo"
    BY <1>1, <1>10 DEF CopyOK, WalkOK, LinkUndo, GroupUndo, At
  <2>2. UNCHANGED row \/ \E r : Overwrite(s.id, r)
    BY <1>10 DEF LinkUndo, GroupUndo
  <2>3. PendingStep
    BY <1>1, <2>1, <2>2, PendingSame, PendingWrite DEF Overwrite
  <2>4. proc'[p].pc \in {"group", "predecessors"}
    BY <1>1, <1>10 DEF LinkUndo, GroupUndo, NextUndo, TypeOK, ProcRec
  <2> QED
    BY <1>4, <2>3, <2>4
<1>11. CASE CreateUndo(p)
  <2>0. s.pc = "predecessors"
    BY <1>11 DEF CreateUndo, At
  <2>1. ASSUME NEW t \in s.todo, SkipUndo(p, t), UNCHANGED row PROVE Once'
    <3>1. proc'[p].pc = s.pc
      BY <1>1, <2>1 DEF SkipUndo, TypeOK, ProcRec
    <3> QED
      BY <1>4, <2>0, <2>1, <3>1, PendingSame
  <2>2. PICK t \in s.todo :
           \/ \E gate \in BOOLEAN :
                 LET r == NewRow(IF gate THEN "pending_approval" ELSE "pending",
                                 1, FALSE, 0, gate, TRUE)
                 IN
                 /\ row' = [row EXCEPT ![Undo(t[1][2])] = r]
                 /\ proc' = [proc EXCEPT ![p] = Local("link", Undo(t[1][2]), r, s.todo \ {t}, s.walked + 1)]
           \/ SkipUndo(p, t) /\ UNCHANGED row
    BY <1>11 DEF CreateUndo
  <2>3. PICK i \in Rows : i = Undo(t[1][2]) /\ i[1] = "undo"
    BY <1>1, <2>2, RowIds
  <2>4. ASSUME NEW r, row' = [row EXCEPT ![Undo(t[1][2])] = r],
               proc' = [proc EXCEPT ![p] = Local("link", Undo(t[1][2]), r, s.todo \ {t}, s.walked + 1)]
        PROVE  Once'
    <3>1. PendingStep
      BY <1>1, <2>3, <2>4, PendingWrite
    <3>2. proc'[p].pc = "link"
      BY <1>1, <2>4 DEF Local, TypeOK
    <3> QED
      BY <1>4, <3>1, <3>2
  <2> QED
    BY <2>1, <2>2, <2>4
<1>12. CASE CancelWalk(p)
  <2>1. CASE ListFollowers(p)
    BY <1>4, <2>1, <1>walk, <1>done, PendingSame DEF ListFollowers
  <2>2. CASE FollowersCancelled(p)
    BY <1>4, <2>2, <1>done, PendingSame DEF FollowersCancelled
  <2>3. CASE CancelFollower(p)
    <3>0. s.pc = "followers"
      BY <2>3 DEF CancelFollower, At
    <3>1. CASE UNCHANGED row /\ FollowersDone(p)
      BY <1>4, <3>1, <1>done, PendingSame
    <3>2. ASSUME NEW t \in s.todo,
                 UpdateRollout(t[1], [row[t[1]] EXCEPT !.state = "cancelled", !.version = t[2]]),
                 proc' = [proc EXCEPT ![p].todo = @ \ {t}]
          PROVE  Once'
      <4>1. PICK i \in Rows : i = t[1]
        BY <1>1
      <4>2. PICK n : n = [[row[i] EXCEPT !.state = "cancelled", !.version = t[2]] EXCEPT !.version = @ + 1]
        OBVIOUS
      <4>3. n.state = "cancelled"
        BY <1>1, <4>2, RowType DEF RowRec
      <4>4. row' = [row EXCEPT ![i] = n]
        BY <3>2, <4>1, <4>2 DEF UpdateRollout
      <4>5. PendingStep
        BY <1>1, <4>3, <4>4, PendingWrite
      <4>6. proc'[p].pc = s.pc
        BY <1>1, <3>2 DEF TypeOK, ProcRec
      <4> QED
        BY <1>4, <3>0, <4>5, <4>6
    <3> QED
      BY <2>3, <3>1, <3>2 DEF CancelFollower
  <2> QED
    BY <1>12, <2>1, <2>2, <2>3 DEF CancelWalk
<1> QED
  BY <1>5, <1>6, <1>7, <1>8, <1>9, <1>10, <1>11, <1>12

(* Operators, and the walk that a rejection starts. *)
LEMMA OnceApi ==
    ASSUME IInv, Once, 
           \/ \E i \in Rows : Pause(i) \/ Resume(i) \/ Abort(i) \/ Approve(i) \/ Reject(i)
           \/ CancelWalk(Api)
    PROVE  Once'
<1>1. TypeOK /\ Api \in Procs /\ Engines \subseteq Procs /\ Api \notin Engines
  BY ProcsAssumption DEF IInv, Procs
<1>2. UNCHANGED <<req, runner, ran, flips>>
  BY DEF Pause, Resume, Abort, Approve, Reject, Command, CancelWalk, ListFollowers, CancelFollower,
         FollowersCancelled, agentside
<1>3. \A p \in Engines : proc'[p] = proc[p]
  BY <1>1 DEF Pause, Resume, Abort, Approve, Reject, CancelWalk, ListFollowers, CancelFollower,
         FollowersCancelled, FollowersDone, Walk, Goto, Return, TypeOK
<1>4. PendingStep
  <2>1. ASSUME NEW i \in Rows, NEW r \in RowRec, UpdateRollout(i, r),
               r.state # "pending" \/ row[i].state = "pending_approval"
        PROVE  PendingStep
    <3>1. PICK n : n = [r EXCEPT !.version = @ + 1]
      OBVIOUS
    <3>2. n.state = r.state
      BY <3>1 DEF RowRec
    <3> QED
      BY <1>1, <2>1, <3>1, <3>2, PendingWrite DEF UpdateRollout
  <2>2. ASSUME NEW i \in Rows, Pause(i) \/ Resume(i) \/ Abort(i) \/ Approve(i) \/ Reject(i)
        PROVE  PendingStep
    <3>1. PICK st \in {"paused", "in_progress", "aborted", "pending", "rejected"} :
              /\ UpdateRollout(i, [row[i] EXCEPT !.state = st])
              /\ st = "pending" => row[i].state = "pending_approval"
      BY <2>2 DEF Pause, Resume, Abort, Approve, Reject, Command
    <3>2. PICK r \in RowRec : r = [row[i] EXCEPT !.state = st]
      BY <1>1, RowType, CopyType DEF States
    <3>3. r.state = st
      BY <1>1, <3>2, RowType DEF RowRec
    <3> QED
      BY <2>1, <3>1, <3>2, <3>3
  <2>3. CASE CancelFollower(Api)
    <3>1. CASE UNCHANGED row
      BY <3>1, PendingSame
    <3>2. ASSUME NEW t \in proc[Api].todo,
                 UpdateRollout(t[1], [row[t[1]] EXCEPT !.state = "cancelled", !.version = t[2]])
          PROVE  PendingStep
      <4>1. PICK i \in Rows : i = t[1] /\ t[2] \in Nat
        BY <1>1 DEF TypeOK, ProcRec
      <4>2. PICK r \in RowRec : r = [row[i] EXCEPT !.state = "cancelled", !.version = t[2]]
        BY <1>1, <4>1, RowType, CopyType DEF States
      <4>3. r.state = "cancelled"
        BY <1>1, <4>2, RowType DEF RowRec
      <4> QED
        BY <2>1, <3>2, <4>1, <4>2, <4>3
    <3> QED
      BY <2>3, <3>1, <3>2 DEF CancelFollower
  <2> QED
    BY <2>2, <2>3, PendingSame DEF CancelWalk, ListFollowers, FollowersCancelled
<1>5. RequestsKept
  BY <1>2 DEF RequestsKept
<1> QED
  BY <1>2, <1>3, <1>4, <1>5, OnceAround, RunnerKept DEF Once

(* The runner executes a request it has not seen, and it is seen then. *)
LEMMA OnceRunner ==
    ASSUME IInv, Once, faults' = MaxFaults,
           \/ FetchPending \/ PostResult \/ RunnerRestart
           \/ \E q \in DOMAIN req : HandleOne(q) \/ Expire(q)
           \/ UNCHANGED vars
    PROVE  Once'
<1>0. TypeOK /\ runner \in [batch: SUBSET Nat, at: Nat, result: Results, seen: SUBSET Nat]
      /\ ran \in [Steps -> Nat]
  BY DEF IInv, TypeOK
<1>1. UNCHANGED <<row, proc, flips>>
  BY DEF FetchPending, PostResult, RunnerRestart, HandleOne, Expire, vars, agentside
<1>2. RequestsKept
  <2>1. \A x \in DOMAIN req : req[x] \in ReqRec
    BY <1>0, RequestStep
  <2>2. ASSUME NEW q, NEW st, req' = [req EXCEPT ![q].status = st] \/ req' = [req EXCEPT ![q].expired = st]
        PROVE  RequestsKept
    BY <2>1, <2>2 DEF RequestsKept, ReqRec
  <2> QED
    BY <2>2 DEF FetchPending, PostResult, RunnerRestart, HandleOne, Expire, vars, RequestsKept
<1>3. RunnerOnce'
  <2>1. ASSUME UNCHANGED ran, runner'.seen = runner.seen, runner'.batch \cap runner.seen = {}
        PROVE  RunnerOnce'
    <3>1. ASSUME NEW k PROVE SeenOf(k)' = SeenOf(k)
      BY <1>2, <2>1 DEF RequestsKept, RequestsOf, SeenOf
    <3> QED
      BY <2>1, <3>1 DEF Once, RunnerOnce
  <2>2. CASE FetchPending
    BY <1>0, <2>1, <2>2 DEF FetchPending
  <2>3. CASE PostResult
    <3>1. UNCHANGED ran /\ runner'.seen = runner.seen /\ runner'.batch = runner.batch
      BY <1>0, <2>3 DEF PostResult
    <3> QED
      BY <2>1, <3>1 DEF Once, RunnerOnce
  <2>4. CASE RunnerRestart
    BY <1>0, <2>4, NoFaultYet DEF RunnerRestart
  <2>5. ASSUME NEW q \in DOMAIN req, HandleOne(q) PROVE RunnerOnce'
    <3>1. q \in runner.batch /\ UNCHANGED req
      BY <2>5 DEF HandleOne
    <3>2. q \notin runner.seen
      BY <3>1 DEF Once, RunnerOnce
    <3>3. PICK k \in Steps : k = req[q].step
      BY <1>0, RequestStep
    <3>4. PICK result \in Results :
             /\ runner'.batch = runner.batch \ {q} /\ runner'.seen = runner.seen \cup {q}
             /\ ran' = IF result = "denied" THEN ran ELSE [ran EXCEPT ![k] = @ + 1]
      BY <1>0, <2>5, <3>3 DEF HandleOne
    <3>5. runner'.batch \cap runner'.seen = {}
      BY <3>4 DEF Once, RunnerOnce
    <3>6. ASSUME NEW j \in Steps PROVE ran'[j] <= Cardinality(SeenOf(j)')
      <4>1. /\ ran[j] \in Nat /\ IsFiniteSet(SeenOf(j)) /\ Cardinality(SeenOf(j)) \in Nat
            /\ ran[j] <= Cardinality(SeenOf(j))
        BY <1>0, CountType DEF Once, RunnerOnce
      <4>2. CASE j # k
        <5>1. SeenOf(j)' = SeenOf(j)
          BY <3>1, <3>3, <3>4, <4>2 DEF SeenOf, RequestsOf
        <5>2. ran'[j] = ran[j]
          BY <1>0, <3>4, <4>2
        <5> QED
          BY <4>1, <5>1, <5>2
      <4>3. CASE j = k
        <5>1. SeenOf(j)' = SeenOf(j) \cup {q} /\ q \notin SeenOf(j)
          BY <3>1, <3>2, <3>3, <3>4, <4>3 DEF SeenOf, RequestsOf
        <5>2. Cardinality(SeenOf(j)') = Cardinality(SeenOf(j)) + 1
          BY <4>1, <5>1, FS_AddElement
        <5>3. ran'[j] \in {ran[j], ran[j] + 1}
          BY <1>0, <3>4, <4>3
        <5> QED
          BY <4>1, <5>2, <5>3
      <4> QED
        BY <4>2, <4>3
    <3> QED
      BY <3>5, <3>6 DEF RunnerOnce
  <2>6. CASE (\E q \in DOMAIN req : Expire(q)) \/ UNCHANGED vars
    <3>1. UNCHANGED <<runner, ran>>
      BY <2>6 DEF Expire, vars, agentside
    <3> QED
      BY <1>2, <3>1, RunnerKept DEF Once
  <2> QED
    BY <2>2, <2>3, <2>4, <2>5, <2>6
<1> QED
  BY <1>1, <1>2, <1>3, PendingSame, OnceAround DEF Once

LEMMA FaultsOnlyFall == ASSUME TypeOK, [Next]_vars PROVE faults' = MaxFaults => faults = MaxFaults
<1>1. ASSUME NEW kind, Fault(kind) PROVE faults' # MaxFaults
  BY <1>1, NoFaultYet
<1>2. ASSUME NEW p, Pass(p) PROVE faults' = MaxFaults => faults = MaxFaults
  BY <1>1, <1>2 DEF Pass, Start, Finish, TriggerAbort, Finalize, DispatchActionStep, DispatchFails,
     PollActionStep, PollAgain, Persist, NextPlanStep, Promote, CancelRead, CancelWrite,
     ListPredecessors, CreateUndo, LinkUndo, GroupUndo, PredecessorsDone
<1>3. ASSUME NEW p, CancelWalk(p) \/ Crash(p) PROVE faults' = MaxFaults => faults = MaxFaults
  BY <1>1, <1>3 DEF CancelWalk, ListFollowers, CancelFollower, FollowersCancelled, Crash
<1>4. ASSUME NEW i, \/ Pause(i) \/ Resume(i) \/ Abort(i) \/ Approve(i) \/ Reject(i)
                    \/ SetExcludeFromLearning(i)
      PROVE  faults' = faults
  BY <1>4 DEF Pause, Resume, Abort, Approve, Reject, Command, SetExcludeFromLearning
<1>5. ASSUME NEW q, HandleOne(q) \/ Expire(q) PROVE faults' = faults
  BY <1>5 DEF HandleOne, Expire
<1>6. ASSUME NEW p, NEW i, ListRollouts(p, i) PROVE faults' = faults
  BY <1>6 DEF ListRollouts
<1>7. CASE FetchPending \/ PostResult \/ RunnerRestart \/ UNCHANGED vars
  BY <1>1, <1>7 DEF FetchPending, PostResult, RunnerRestart, vars
<1> QED
  BY <1>2, <1>3, <1>4, <1>5, <1>6, <1>7 DEF Next

LEMMA OnceInit == Init => OnceInv
<1> SUFFICES ASSUME Init PROVE Once
  BY DEF OnceInv
<1>1. TypeOK /\ DOMAIN req = {} /\ runner.batch = {}
  BY InitType DEF Init
<1>2. ASSUME NEW k \in Steps PROVE ran[k] = 0 /\ flips[k] = 0 /\ Count(k) = 0
  <2>1. ~Open(k)
    BY <1>1 DEF Open
  <2> QED
    BY <1>1, <2>1, CountType DEF Init
<1>3. \A p \in Engines : proc[p].pc = "idle"
  BY DEF Init, Idle, Local, Procs
<1>4. RunnerOnce
  BY <1>1, <1>2, CountType DEF RunnerOnce
<1> QED
  BY <1>2, <1>3, <1>4 DEF Once, DispatchKnown, DispatchDue

(* With a single engine (the leader) and as long as no fault has happened, *)
(* an action of any plan is executed at most once, and once more for every *)
(* time the learning flag of its row was set while the row was pending:    *)
(* the one write that can make the engine dispatch it again.  Pause,       *)
(* Resume, Abort, Approve and Reject never repeat an action, whenever they *)
(* come between its dispatch and the write of the step                     *)
(* (dispatchActionStep, SetExcludeFromLearning, the runner's handleOne).   *)
THEOREM ExecutedAtMostOnce == OneEngine => (Spec => []RunsOnce)
<1> SUFFICES ASSUME OneEngine PROVE Spec => []RunsOnce
  OBVIOUS
<1>1. IInv /\ IInv' /\ OnceInv /\ [Next]_vars => OnceInv'
  <2> SUFFICES ASSUME IInv, OnceInv, [Next]_vars, faults' = MaxFaults PROVE Once'
    BY DEF OnceInv
  <2>1. Once
    BY FaultsOnlyFall DEF OnceInv, IInv
  <2>2. ASSUME NEW p \in Engines, Pass(p) PROVE Once'
    BY <2>1, <2>2, OnceDecide, OnceDispatch, OncePersist, OnceRest DEF Pass
  <2>3. ASSUME NEW p \in Procs, CancelWalk(p) PROVE Once'
    BY <2>1, <2>3, OnceRest, OnceApi DEF Procs
  <2>4. ASSUME NEW p, Crash(p) PROVE FALSE
    BY <2>4, NoFaultYet DEF Crash, IInv
  <2> QED
    BY <2>1, <2>2, <2>3, <2>4, OnceList, OnceApi, OnceFlag, OnceRunner DEF Next
<1>2. IInv /\ OnceInv => RunsOnce
  <2> SUFFICES ASSUME IInv, Once, NEW k \in Steps PROVE ran[k] <= 1 + flips[k]
    BY DEF OnceInv, RunsOnce
  <2>1. ran[k] <= Cardinality(SeenOf(k)) /\ Count(k) <= 1 + flips[k]
    BY DEF Once, RunnerOnce, DispatchKnown
  <2> QED
    BY <2>1, CountType DEF IInv
<1> QED
  BY <1>1, <1>2, OnceInit, PlanInvariant, PTL DEF Spec

-----------------------------------------------------------------------------
(* What becomes of a plan whose step has failed.                           *)
(*                                                                         *)
(* As long as nobody interferes, the failed step is unique, and so is the  *)
(* engine that walks the plan for it: the one whose write failed the step. *)
(* Until it comes to the predecessors there is no rollback rollout at all; *)
(* then it works downwards, and whatever is above the point it has reached *)
(* has been dealt with.                                                    *)

Rollouts(a, b) == {i \in a..(b - 1) : Kinds[i + 1] = "rollout"}

NoneQueued == \A j \in Steps : ~Queued(j)

Versioned(S) == {<<Step(i), row[Step(i)].version>> : i \in S}

(* The rollback of step j has its place in a plan that failed at k. *)
Stamped(j, k) == row[Undo(j)].plan /\ row[Undo(j)].index = -Cardinality(Rollouts(j, k))

Absents(k) == \A j \in Steps : j < k => row[Undo(j)].state = "absent"

(* A local state on the walks of a failed step: before the predecessors,   *)
(* and among them.                                                         *)
EarlyAt(s) == s.pc \in Failing /\ s.id[1] = "step"
LateAt(s) == s.pc \in {"link", "group"} \/ (s.pc = "predecessors" /\ s.todo # {})
WalkerAt(s) == EarlyAt(s) \/ LateAt(s)

EarlyOK(s, k) ==
    /\ s.id = Step(k)
    /\ \A j \in Steps : row[Undo(j)].state = "absent"
    /\ s.pc = "followers" => s.todo = Versioned({j \in Steps : Queued(j)})
    /\ s.pc = "list_predecessors" => NoneQueued

(* Rollout steps below c are to be undone, those from c on have been.      *)
Reached(s, k, c) ==
    /\ s.todo = Versioned(Rollouts(0, c))
    /\ s.walked = Cardinality(Rollouts(c, k))
    /\ Absents(c)
    /\ \A j \in Rollouts(c, k) :
          row[Step(j)].previous => Stamped(j, k) \/ (s.pc # "predecessors" /\ j = c)
    /\ s.pc # "predecessors" => s.id = Undo(c) /\ c \in Rollouts(c, k)

LateOK(s, k) == NoneQueued /\ \E c \in 0..k : Reached(s, k, c)

Cares(s, k) == (EarlyAt(s) => EarlyOK(s, k)) /\ (LateAt(s) => LateOK(s, k))

Handled(k) ==
    NoneQueued /\ \A j \in Rollouts(0, k) : row[Step(j)].previous => Stamped(j, k)

(* A copy of a rollback rollout knows its place in the plan; only an       *)
(* aborted step is finalised; the walk of a rollback rollout has one.      *)
FreshAt(s) ==
    /\ s.pc \in {"listed", "persist"} /\ s.id[1] = "undo" =>
          /\ s.r.version <= row[s.id].version
          /\ s.r.version = row[s.id].version =>
                s.r.plan = row[s.id].plan /\ s.r.index = row[s.id].index
    /\ s.pc = "persist" /\ s.id[1] = "step" /\ s.r.version = row[s.id].version =>
          (s.r.state = "rolled_back" => row[s.id].state = "aborted")
    /\ s.pc \in Failing /\ s.id[1] = "undo" => row[s.id].state # "absent"

Handling ==
    /\ proc[Api].pc = "idle"
    /\ \A k \in Steps : Failed(k) => DoneBefore(k)
    /\ \A p \in Procs : FreshAt(proc[p])
    /\ \A p, q \in Procs : WalkerAt(proc[p]) /\ WalkerAt(proc[q]) => p = q
    /\ \A p \in Procs : LateAt(proc[p]) => \E k \in Steps : Failed(k)
    /\ \A k \in Steps : Failed(k) =>
          /\ \A p \in Procs : WalkerAt(proc[p]) => Cares(proc[p], k)
          /\ (\E p \in Procs : WalkerAt(proc[p])) \/ Handled(k)

HandlingInv == Undisturbed => Handling

(* Rollout steps, counted. *)
LEMMA RolloutFacts ==
    ASSUME NEW a \in Int, NEW b \in Int
    PROVE  /\ IsFiniteSet(Rollouts(a, b)) /\ Cardinality(Rollouts(a, b)) \in Nat
           /\ a >= b => Rollouts(a, b) = {} /\ Cardinality(Rollouts(a, b)) = 0
<1>1. IsFiniteSet(a..(b - 1))
  BY FS_Interval
<1>2. Rollouts(a, b) \in SUBSET (a..(b - 1))
  BY DEF Rollouts
<1>3. IsFiniteSet(Rollouts(a, b))
  BY <1>1, <1>2, FS_Subset
<1>4. a >= b => Rollouts(a, b) = {}
  BY DEF Rollouts
<1> QED
  BY <1>3, <1>4, FS_CardinalityType, FS_EmptySet

(* The last rollout step below c is the next one to be undone. *)
LEMMA CountDown ==
    ASSUME NEW c \in Nat, NEW k \in Nat, c <= k, NEW d \in Rollouts(0, c),
           \A i \in Rollouts(0, c) : i <= d
    PROVE  /\ d \in Nat /\ d < c /\ d \in Rollouts(d, k)
           /\ Rollouts(d, k) = Rollouts(c, k) \cup {d}
           /\ Cardinality(Rollouts(d, k)) = Cardinality(Rollouts(c, k)) + 1
           /\ Rollouts(0, c) \ {d} = Rollouts(0, d)
<1>1. d \in Nat /\ d < c /\ Kinds[d + 1] = "rollout"
  BY DEF Rollouts
<1>2. \A i \in Nat : i < c /\ Kinds[i + 1] = "rollout" => i <= d
  BY DEF Rollouts
<1>3. ASSUME NEW i PROVE i \in Rollouts(d, k) <=> i \in Rollouts(c, k) \cup {d}
  BY <1>1, <1>2 DEF Rollouts
<1>4. Rollouts(d, k) = Rollouts(c, k) \cup {d}
  BY <1>3
<1>5. d \notin Rollouts(c, k)
  BY <1>1 DEF Rollouts
<1>6. Cardinality(Rollouts(d, k)) = Cardinality(Rollouts(c, k)) + 1
  <2>1. IsFiniteSet(Rollouts(c, k))
    BY RolloutFacts
  <2>2. Cardinality(Rollouts(c, k) \cup {d}) = Cardinality(Rollouts(c, k)) + 1
    BY <1>5, <2>1, FS_AddElement
  <2> QED
    BY <1>4, <2>2
<1>7. ASSUME NEW i PROVE i \in Rollouts(0, c) \ {d} <=> i \in Rollouts(0, d)
  BY <1>1, <1>2 DEF Rollouts
<1> QED
  BY <1>1, <1>4, <1>6, <1>7

LEMMA StepSets ==
    ASSUME NEW k \in Steps, NEW c \in 0..k
    PROVE  /\ Rollouts(0, c) \subseteq Steps /\ Rollouts(c, k) \subseteq Steps
           /\ \A j \in Rollouts(0, c) : j # k
           /\ \A j \in Rollouts(c, k) : j # k
           /\ \A j \in Rollouts(0, k) : j \in Steps /\ j < k
BY KindsAssumption DEF Rollouts, Steps

(* A step of the system that does not concern the failure at k. *)
Steady(k) ==
    /\ \A j \in Steps : j # k => row'[Step(j)] = row[Step(j)]
    /\ \A j \in Steps :
          /\ row'[Undo(j)].plan = row[Undo(j)].plan /\ row'[Undo(j)].index = row[Undo(j)].index
          /\ row'[Undo(j)].state = "absent" <=> row[Undo(j)].state = "absent"

LEMMA SteadyKeeps ==
    ASSUME NEW k \in Steps, Failed(k), Failed(k)', Steady(k), NEW s
    PROVE  (Cares(s, k) => Cares(s, k)') /\ (Handled(k) => Handled(k)')
<1>1. \A j \in Steps : Queued(j)' <=> Queued(j)
  BY DEF Steady, Queued, Failed
<1>2. NoneQueued' <=> NoneQueued
  BY <1>1 DEF NoneQueued
<1>3. ASSUME NEW S \in SUBSET Steps, k \notin S PROVE Versioned(S)' = Versioned(S)
  <2>1. \A i \in S : row'[Step(i)] = row[Step(i)]
    BY <1>3 DEF Steady
  <2> QED
    BY <2>1 DEF Versioned
<1>4. \A j \in Steps : Stamped(j, k) => Stamped(j, k)'
  BY DEF Stamped, Steady
<1>5. Handled(k) => Handled(k)'
  <2>1. \A j \in Rollouts(0, k) : j \in Steps /\ j # k
    BY StepSets, RowIds
  <2>2. \A j \in Rollouts(0, k) : row'[Step(j)] = row[Step(j)]
    BY <2>1 DEF Steady
  <2>3. Handled(k) => \A j \in Rollouts(0, k) : row'[Step(j)].previous => Stamped(j, k)'
    BY <1>4, <2>1, <2>2 DEF Handled
  <2> QED
    BY <1>2, <2>3 DEF Handled, Rollouts
<1>6. EarlyOK(s, k) => EarlyOK(s, k)'
  <2> SUFFICES ASSUME EarlyOK(s, k) PROVE EarlyOK(s, k)'
    OBVIOUS
  <2>1. PICK S \in SUBSET Steps : S = {j \in Steps : Queued(j)}
    OBVIOUS
  <2>2. S = {j \in Steps : Queued(j)'}
    BY <1>1, <2>1
  <2>3. k \notin S
    BY <2>1 DEF Queued, Failed
  <2>4. s.pc = "followers" => s.todo = Versioned(S)
    BY <2>1 DEF EarlyOK
  <2>5. s.pc = "followers" => s.todo = {<<Step(i), row'[Step(i)].version>> : i \in {j \in Steps : Queued(j)'}}
    BY <1>3, <2>2, <2>3, <2>4 DEF Versioned
  <2> QED
    BY <1>2, <2>5 DEF EarlyOK, Steady, Versioned
<1>7. ASSUME NEW c \in 0..k, Reached(s, k, c) PROVE Reached(s, k, c)'
  <2>1. /\ Rollouts(0, c) \in SUBSET Steps /\ k \notin Rollouts(0, c)
        /\ Rollouts(c, k) \subseteq Steps /\ \A j \in Rollouts(c, k) : j # k
    BY StepSets
  <2>2. s.todo = Versioned(Rollouts(0, c))'
    BY <1>3, <1>7, <2>1 DEF Reached
  <2>3. Absents(c)'
    BY <1>7 DEF Reached, Absents, Steady
  <2>4. ASSUME NEW j \in Rollouts(c, k), row'[Step(j)].previous
        PROVE  Stamped(j, k)' \/ (s.pc # "predecessors" /\ j = c)
    <3>1. row[Step(j)].previous
      BY <2>1, <2>4 DEF Steady
    <3> QED
      BY <1>4, <1>7, <2>1, <3>1 DEF Reached
  <2> QED
    BY <1>7, <2>2, <2>3, <2>4 DEF Reached, Rollouts
<1> QED
  BY <1>2, <1>5, <1>6, <1>7 DEF Cares, LateOK

(* What a step of the system may do to a rollback rollout. *)
UndoMoves ==
    \A j \in Steps :
        \/ row'[Undo(j)] = row[Undo(j)]
        \/ row'[Undo(j)].version = row[Undo(j)].version + 1
        \/ row[Undo(j)].state = "absent"

LEMMA FreshStable ==
    ASSUME TypeOK, TypeOK', FailStep, UndoMoves, NEW s \in ProcRec, FreshAt(s),
           s.pc \in {"listed", "persist"} => row[s.id].state # "absent",
           s.pc \in {"listed", "persist"} /\ s.id[1] = "step" => s.r.version <= row[s.id].version
    PROVE  FreshAt(s)'
<1>1. /\ s.id \in Rows /\ s.id[2] \in Steps /\ s.r.version \in Nat
      /\ s.id[1] = "step" => s.id = Step(s.id[2])
      /\ s.id[1] = "undo" => s.id = Undo(s.id[2])
  BY RowIds DEF ProcRec, RowRec
<1>2. row[s.id].version \in Nat /\ row'[s.id].version \in Nat
  BY <1>1 DEF TypeOK, RowRec
<1>3. s.id[1] = "step" => row'[s.id] = row[s.id] \/ row'[s.id].version = row[s.id].version + 1
  BY <1>1 DEF FailStep
<1>4. s.id[1] = "undo" => \/ row'[s.id] = row[s.id] \/ row'[s.id].version = row[s.id].version + 1
                          \/ row[s.id].state = "absent"
  BY <1>1 DEF UndoMoves
<1>5. row[s.id].state # "absent" => row'[s.id].state # "absent"
  BY <1>1 DEF FailStep
<1>6. s.pc \in {"listed", "persist"} /\ s.id[1] = "undo" =>
         /\ s.r.version <= row'[s.id].version
         /\ s.r.version = row'[s.id].version =>
               s.r.plan = row'[s.id].plan /\ s.r.index = row'[s.id].index
  BY <1>1, <1>2, <1>4 DEF FreshAt
<1>7. s.pc = "persist" /\ s.id[1] = "step" /\ s.r.version = row'[s.id].version =>
         (s.r.state = "rolled_back" => row'[s.id].state = "aborted")
  BY <1>1, <1>2, <1>3 DEF FreshAt
<1> QED
  BY <1>5, <1>6, <1>7 DEF FreshAt

(* A local state, read before or after the step. *)
LEMMA ReadLocal ==
    ASSUME NEW u, NEW x, proc'[u] = x, NEW k
    PROVE  (FreshAt(proc[u])' <=> FreshAt(x)') /\ (Cares(proc[u], k)' <=> Cares(x, k)')
BY DEF FreshAt, Cares, EarlyAt, LateAt, EarlyOK, LateOK, Reached

(* One engine moves and, perhaps, the table. *)
LEMMA HandAssemble ==
    ASSUME IInv, TypeOK', FailInv, Handling, FailStep, UndoMoves,
           NEW p \in Engines, NEW s, proc' = [proc EXCEPT ![p] = s], FreshAt(s)',
           \A k \in Steps : Failed(k)' => DoneBefore(k),
           WalkerAt(s) => \A u \in Procs \ {p} : ~WalkerAt(proc[u]),
           LateAt(s) => \E k \in Steps : Failed(k)',
           \A k \in Steps : Failed(k)' =>
               /\ \A u \in Procs \ {p} : WalkerAt(proc[u]) => Cares(proc[u], k)'
               /\ WalkerAt(s) => Cares(s, k)'
               /\ WalkerAt(s) \/ (\E u \in Procs \ {p} : WalkerAt(proc[u])) \/ Handled(k)'
    PROVE  Handling'
<1>1. p \in Procs /\ TypeOK /\ proc'[p] = s /\ \A u \in Procs \ {p} : proc'[u] = proc[u]
  BY DEF IInv, TypeOK, Procs
<1>2. proc'[Api].pc = "idle"
  BY <1>1, ProcsAssumption DEF Handling, Procs
<1>3. \A k \in Steps : Failed(k)' => DoneBefore(k)'
  BY DEF FailStep, DoneBefore
<1>4. ASSUME NEW u \in Procs PROVE FreshAt(proc[u])'
  <2>1. CASE u = p
    BY <1>1, <2>1, ReadLocal
  <2>2. CASE u # p
    <3>1. PICK x \in ProcRec : x = proc[u]
      BY <1>1 DEF TypeOK
    <3>2. FreshAt(x) /\ Fit(u, x) /\ CopyOK(u)
      BY <3>1 DEF Handling, FailInv, IInv, PlanCopies
    <3>3. /\ x.pc \in {"listed", "persist"} => row[x.id].state # "absent"
          /\ x.pc \in {"listed", "persist"} /\ x.id[1] = "step" => x.r.version <= row[x.id].version
      BY <3>1, <3>2 DEF Fit, CopyOK, WorkOK
    <3>4. FreshAt(x)'
      BY <1>1, <3>2, <3>3, FreshStable
    <3> QED
      BY <1>1, <2>2, <3>1, <3>4, ReadLocal
  <2> QED
    BY <2>1, <2>2
<1>5. ASSUME NEW u \in Procs
      PROVE  /\ u = p => (WalkerAt(proc[u])' <=> WalkerAt(s))
             /\ u = p => (LateAt(proc[u])' <=> LateAt(s))
             /\ u # p => (WalkerAt(proc[u])' <=> WalkerAt(proc[u]))
             /\ u # p => (LateAt(proc[u])' <=> LateAt(proc[u]))
  BY <1>1 DEF WalkerAt, EarlyAt, LateAt
<1>6. \A u, v \in Procs : WalkerAt(proc[u])' /\ WalkerAt(proc[v])' => u = v
  BY <1>5 DEF Handling
<1>7. ASSUME NEW u \in Procs, LateAt(proc[u])' PROVE \E k \in Steps : Failed(k)'
  <2>1. CASE u = p
    BY <1>5, <1>7, <2>1
  <2>2. CASE u # p
    <3>1. PICK k \in Steps : Failed(k)
      BY <1>5, <1>7, <2>2 DEF Handling
    <3> QED
      BY <3>1 DEF FailStep, Failed
  <2> QED
    BY <2>1, <2>2
<1>8. ASSUME NEW k \in Steps, Failed(k)', NEW u \in Procs, WalkerAt(proc[u])' PROVE Cares(proc[u], k)'
  <2>1. CASE u = p
    BY <1>1, <1>5, <1>8, <2>1, ReadLocal
  <2>2. CASE u # p
    BY <1>5, <1>8, <2>2
  <2> QED
    BY <2>1, <2>2
<1>9. ASSUME NEW k \in Steps, Failed(k)' PROVE (\E u \in Procs : WalkerAt(proc[u])') \/ Handled(k)'
  BY <1>1, <1>5, <1>9
<1> QED
  BY <1>2, <1>3, <1>4, <1>6, <1>7, <1>8, <1>9 DEF Handling

(* Of the failures there is one. *)
LEMMA OneFailure ==
    ASSUME Handling, NEW j \in Steps, NEW k \in Steps, Failed(j), Failed(k) PROVE j = k
BY RowIds DEF Handling, Failed, DoneBefore

(* A step that is on its way: nothing has failed. *)
LEMMA NothingFailed ==
    ASSUME TypeOK, Handling, FailInv, NEW j \in Steps, ~Failed(j), DoneBefore(j), row[Step(j)].state # "succeeded"
    PROVE  /\ \A k \in Steps : ~Failed(k)
           /\ \A k \in Steps : row[Undo(k)].state = "absent"
           /\ \A u \in Procs : ~WalkerAt(proc[u])
<1>1. \A k \in Steps : ~Failed(k)
  BY RowIds DEF Handling, Failed, DoneBefore
<1>2. \A k \in Steps : row[Undo(k)].state = "absent"
  BY <1>1 DEF FailInv, UndoOnlyAfterFailure
<1>3. ASSUME NEW u \in Procs, EarlyAt(proc[u]) PROVE FALSE
  <2>1. u # Api
    BY <1>3 DEF Handling, EarlyAt, Failing
  <2>2. PICK k \in Steps : k = proc[u].id[2]
    BY <2>1, RowIds DEF TypeOK, ProcRec
  <2> QED
    BY <1>1, <1>3, <2>1, <2>2 DEF FailInv, Fit, EarlyAt
<1> QED
  BY <1>1, <1>2, <1>3 DEF Handling, WalkerAt

(* An engine that does not walk, before and after. *)
LEMMA HandOther ==
    ASSUME IInv, TypeOK', FailInv, Handling, FailStep, UndoMoves,
           NEW p \in Engines, NEW s, proc' = [proc EXCEPT ![p] = s], FreshAt(s)',
           ~WalkerAt(proc[p]), ~WalkerAt(s),
           \A k \in Steps : Failed(k)' => Failed(k) /\ Steady(k)
    PROVE  Handling'
<1>1. p \in Procs /\ TypeOK /\ proc'[p] = s /\ \A u \in Procs \ {p} : proc'[u] = proc[u]
  BY DEF IInv, TypeOK, Procs
<1>2. \A k \in Steps : Failed(k)' => DoneBefore(k)
  BY DEF Handling
<1>3. ASSUME NEW k \in Steps, Failed(k)', NEW u \in Procs \ {p}, WalkerAt(proc[u])
      PROVE  Cares(proc[u], k)'
  <2>1. PICK x : x = proc[u]
    OBVIOUS
  <2>2. Cares(x, k) /\ Failed(k) /\ Steady(k)
    BY <1>3, <2>1 DEF Handling
  <2>3. Cares(x, k)'
    BY <1>3, <2>2, SteadyKeeps
  <2> QED
    BY <1>1, <2>1, <2>3, ReadLocal
<1>4. ASSUME NEW k \in Steps, Failed(k)'
      PROVE  (\E u \in Procs \ {p} : WalkerAt(proc[u])) \/ Handled(k)'
  <2>1. Failed(k) /\ Steady(k)
    BY <1>4
  <2>2. (\E u \in Procs \ {p} : WalkerAt(proc[u])) \/ Handled(k)
    BY <2>1 DEF Handling
  <2> QED
    BY <1>4, <2>1, <2>2, SteadyKeeps
<1> QED
  BY <1>2, <1>3, <1>4, HandAssemble DEF WalkerAt

(* The engine that walks. *)
LEMMA HandWalk ==
    ASSUME IInv, TypeOK', FailInv, Handling, FailStep, UndoMoves,
           NEW p \in Engines, NEW s, proc' = [proc EXCEPT ![p] = s], FreshAt(s)',
           WalkerAt(proc[p]), NEW k \in Steps, Failed(k),
           \A j \in Steps : Failed(j)' => Failed(j),
           WalkerAt(s) => Cares(s, k)',
           WalkerAt(s) \/ Handled(k)'
    PROVE  Handling'
<1>1. p \in Procs /\ \A u \in Procs \ {p} : ~WalkerAt(proc[u])
  BY DEF Handling, Procs
<1>2. \A j \in Steps : Failed(j)' => j = k
  BY OneFailure
<1>3. \A j \in Steps : Failed(j)' => DoneBefore(j)
  BY DEF Handling
<1>4. Failed(k)'
  BY DEF FailStep, Failed
<1> QED
  BY <1>1, <1>2, <1>3, <1>4, HandAssemble

(* Nothing is written and the engine does not walk. *)
LEMMA HandSame ==
    ASSUME IInv, TypeOK', FailInv, Handling, UNCHANGED row,
           NEW p \in Engines, NEW s, proc' = [proc EXCEPT ![p] = s], FreshAt(s),
           ~WalkerAt(proc[p]), ~WalkerAt(s)
    PROVE  Handling'
<1>1. FailStep /\ UndoMoves
  BY FailSame DEF UndoMoves
<1>2. FreshAt(s)'
  BY DEF FreshAt
<1>3. \A k \in Steps : Failed(k)' => Failed(k) /\ Steady(k)
  BY DEF Failed, Steady
<1> QED
  BY <1>1, <1>2, <1>3, HandOther

(* A process at rest, or with nothing to lose. *)
LEMMA FreshFree ==
    ASSUME NEW s, s.pc \notin {"listed", "persist"}, s.pc \in Failing => s.id[1] # "undo"
    PROVE  FreshAt(s) /\ FreshAt(s)'
BY DEF FreshAt

LEMMA HandReturn ==
    ASSUME IInv, TypeOK', FailInv, Handling, UNCHANGED row, NEW p \in Engines, Return(p),
           ~WalkerAt(proc[p])
    PROVE  Handling'
<1>1. PICK s : s = Idle
  OBVIOUS
<1>2. s.pc = "idle"
  BY <1>1 DEF Idle, Local
<1>3. FreshAt(s) /\ ~WalkerAt(s)
  BY <1>2, FreshFree DEF WalkerAt, EarlyAt, LateAt, Failing
<1> QED
  BY <1>1, <1>3, HandSame DEF Return

(* The listing of a row, and what a pass makes of it. *)
LEMMA HandDecide ==
    ASSUME IInv, TypeOK', FailInv, Handling, NEW p \in Engines,
           \/ Start(p) \/ Finish(p) \/ TriggerAbort(p) \/ Finalize(p)
           \/ DispatchFails(p) \/ PollActionStep(p) \/ DispatchActionStep(p)
           \/ \E i \in Rows : ListRollouts(p, i)
    PROVE  Handling'
<1> DEFINE s == proc[p]
<1>0. p \in Procs
  BY DEF Procs
<1>1. s.r \in RowRec /\ s.id \in Rows /\ Fit(p, s) /\ FreshAt(s)
  BY <1>0 DEF IInv, TypeOK, ProcRec, FailInv, Handling
<1>2. ASSUME NEW r, Goto(p, "persist", s.id, r), UNCHANGED row, s.pc = "listed",
             r.version = s.r.version, r.plan = s.r.plan, r.index = s.r.index,
             r.state = "rolled_back" => s.r.state = "aborted"
      PROVE  Handling'
  <2>1. PICK n : n = Local("persist", s.id, r, {}, 0)
    OBVIOUS
  <2>2. n.pc = "persist" /\ n.id = s.id /\ n.r = r
    BY <2>1 DEF Local
  <2>3. FreshAt(n)
    BY <1>1, <1>2, <2>2 DEF FreshAt, Fit, Failing
  <2>4. ~WalkerAt(s) /\ ~WalkerAt(n)
    BY <1>2, <2>2 DEF WalkerAt, EarlyAt, LateAt, Failing
  <2> QED
    BY <1>2, <2>1, <2>3, <2>4, HandSame DEF Goto
<1>3. ASSUME NEW st, Decide(p, st), s.pc = "listed", st = "rolled_back" => s.r.state = "aborted"
      PROVE  Handling'
  <2>1. PICK r : r = [s.r EXCEPT !.state = st]
    OBVIOUS
  <2>2. r.version = s.r.version /\ r.plan = s.r.plan /\ r.index = s.r.index /\ r.state = st
    BY <1>1, <2>1 DEF RowRec
  <2> QED
    BY <1>2, <1>3, <2>1, <2>2 DEF Decide
<1>4. CASE DispatchActionStep(p)
  <2>1. PICK r : r = [s.r EXCEPT !.state = "in_progress", !.request = Len(req) + 1]
    OBVIOUS
  <2>2. r.version = s.r.version /\ r.plan = s.r.plan /\ r.index = s.r.index /\ r.state = "in_progress"
    BY <1>1, <2>1 DEF RowRec
  <2> QED
    BY <1>2, <1>4, <2>1, <2>2 DEF DispatchActionStep, Listed, At
<1>5. CASE PollActionStep(p)
  BY <1>3, <1>5 DEF PollActionStep, Verdict, Listed, At
<1>6. ASSUME NEW i \in Rows, ListRollouts(p, i) PROVE Handling'
  <2>1. PICK n : n = Local("listed", i, row[i], {}, 0)
    OBVIOUS
  <2>2. n.pc = "listed" /\ n.id = i /\ n.r = row[i]
    BY <2>1 DEF Local
  <2>3. FreshAt(n)
    BY <2>2, RowType DEF FreshAt, Failing, IInv
  <2>4. ~WalkerAt(s) /\ ~WalkerAt(n)
    BY <1>6, <2>2 DEF WalkerAt, EarlyAt, LateAt, Failing, ListRollouts, At
  <2> QED
    BY <1>6, <2>1, <2>3, <2>4, HandSame DEF ListRollouts, Goto
<1> QED
  BY <1>3, <1>4, <1>5, <1>6 DEF Start, Finish, TriggerAbort, Finalize, DispatchFails, Listed, At

(* The other reads of a pass, and its end. *)
LEMMA HandRead ==
    ASSUME IInv, TypeOK', FailInv, Handling, NEW p \in Engines,
           NextPlanStep(p) \/ PollAgain(p) \/ PredecessorsDone(p)
    PROVE  Handling'
<1>1. UNCHANGED row /\ ~WalkerAt(proc[p])
  BY DEF NextPlanStep, PollAgain, PredecessorsDone, Listed, At, WalkerAt, EarlyAt, LateAt, Failing
<1>2. ASSUME NEW i, NEW r, Goto(p, "promote", i, r) PROVE Handling'
  <2>1. PICK n : n = Local("promote", i, r, {}, 0)
    OBVIOUS
  <2>2. n.pc = "promote"
    BY <2>1 DEF Local
  <2>3. FreshAt(n) /\ ~WalkerAt(n)
    BY <2>2, FreshFree DEF WalkerAt, EarlyAt, LateAt, Failing
  <2> QED
    BY <1>1, <1>2, <2>1, <2>3, HandSame DEF Goto
<1>3. CASE Return(p)
  BY <1>1, <1>3, HandReturn
<1> QED
  BY <1>2, <1>3 DEF NextPlanStep, PollAgain, PredecessorsDone

(* A single row is written. *)
LEMMA UndoSame ==
    ASSUME TypeOK, NEW k \in Steps, NEW n, row' = [row EXCEPT ![Step(k)] = n]
    PROVE  /\ row'[Step(k)] = n
           /\ \A j \in Steps : j # k => row'[Step(j)] = row[Step(j)]
           /\ \A j \in Steps : row'[Undo(j)] = row[Undo(j)]
           /\ UndoMoves
BY RowIds DEF TypeOK, UndoMoves

LEMMA StepSame ==
    ASSUME TypeOK, NEW k \in Steps, NEW n, row' = [row EXCEPT ![Undo(k)] = n]
    PROVE  /\ row'[Undo(k)] = n
           /\ \A j \in Steps : row'[Step(j)] = row[Step(j)]
           /\ \A j \in Steps : j # k => row'[Undo(j)] = row[Undo(j)]
<1>1. \A j \in Steps : Undo(j) = Undo(k) => j = k
  BY RowIds
<1> QED
  BY <1>1, RowIds DEF TypeOK

(* A step is promoted only while nothing has failed. *)
LEMMA HandPromote ==
    ASSUME IInv, TypeOK', FailInv, Handling, NEW p \in Engines, Promote(p) PROVE Handling'
<1> DEFINE s == proc[p]
<1>0. p \in Procs
  BY DEF Procs
<1>1. /\ TypeOK /\ s.r \in RowRec /\ s.id \in Rows /\ s.r.version \in Nat /\ s.pc = "promote"
      /\ PromoteOK(p) /\ Return(p) /\ ~WalkerAt(s)
  BY <1>0 DEF IInv, TypeOK, ProcRec, RowRec, Promote, At, PlanCopies, CopyOK,
     WalkerAt, EarlyAt, LateAt, Failing
<1>2. CASE UNCHANGED row
  BY <1>1, <1>2, HandReturn
<1>3. CASE UpdateRollout(s.id, s.r)
  <2>1. PICK n : n = [s.r EXCEPT !.version = @ + 1]
    OBVIOUS
  <2>2. n.state = "pending" /\ n.version = row[s.id].version + 1 /\ row[s.id].state = "queued"
    BY <1>1, <1>3, <2>1 DEF RowRec, UpdateRollout, PromoteOK
  <2>3. PICK k \in Steps : s.id = Step(k) /\ DoneBefore(k)
    BY <1>1, RowIds DEF PromoteOK
  <2>4. row' = [row EXCEPT ![Step(k)] = n]
    BY <1>3, <2>1, <2>3 DEF UpdateRollout
  <2>5. FailStep
    BY <1>1, <2>2, <2>3, <2>4, FailWrite
  <2>6. \A j \in Steps : ~Failed(j)
    BY <1>1, <2>2, <2>3, NothingFailed DEF Failed
  <2>7. row'[Step(k)] = n /\ (\A j \in Steps : j # k => row'[Step(j)] = row[Step(j)]) /\ UndoMoves
    BY <1>1, <2>4, UndoSame
  <2>8. \A j \in Steps : ~Failed(j)'
    BY <2>2, <2>6, <2>7 DEF Failed
  <2>9. PICK x : x = Idle
    OBVIOUS
  <2>10. x.pc = "idle"
    BY <2>9 DEF Idle, Local
  <2>11. FreshAt(x)' /\ ~WalkerAt(x)
    BY <2>10, FreshFree DEF WalkerAt, EarlyAt, LateAt, Failing
  <2> QED
    BY <1>1, <2>5, <2>7, <2>8, <2>9, <2>11, HandOther DEF Return
<1> QED
  BY <1>2, <1>3 DEF Promote

(* The write of a rollback rollout leaves its place in the plan alone. *)
LEMMA HandPersistUndo ==
    ASSUME IInv, TypeOK', FailInv, Handling, NEW p \in Engines, proc[p].pc = "persist",
           UpdateRollout(proc[p].id, proc[p].r), AfterPersist(p, proc[p].r), proc[p].id[1] = "undo"
    PROVE  Handling'
<1> DEFINE s == proc[p]
<1>0. p \in Procs
  BY DEF Procs
<1>1. /\ TypeOK /\ s.r \in RowRec /\ s.id \in Rows /\ s.r.version \in Nat
      /\ Fit(p, s) /\ FreshAt(s) /\ ~WalkerAt(s)
  BY <1>0 DEF IInv, TypeOK, ProcRec, RowRec, FailInv, Handling, WalkerAt, EarlyAt, LateAt, Failing
<1>2. PICK k \in Steps : s.id = Undo(k)
  BY <1>1, RowIds
<1>3. PICK n : n = [s.r EXCEPT !.version = @ + 1]
  OBVIOUS
<1>4. /\ n.state = s.r.state /\ n.version = row[s.id].version + 1 /\ s.r.version = row[s.id].version
      /\ n.plan = s.r.plan /\ n.index = s.r.index
  BY <1>1, <1>3 DEF RowRec, UpdateRollout
<1>5. row' = [row EXCEPT ![Undo(k)] = n]
  BY <1>2, <1>3 DEF UpdateRollout
<1>6. row[Undo(k)].state # "absent" /\ n.state # "absent"
  BY <1>1, <1>2, <1>4 DEF Fit
<1>7. n.plan = row[Undo(k)].plan /\ n.index = row[Undo(k)].index
  BY <1>1, <1>2, <1>4 DEF FreshAt
<1>8. /\ row'[Undo(k)] = n
      /\ \A j \in Steps : row'[Step(j)] = row[Step(j)]
      /\ \A j \in Steps : j # k => row'[Undo(j)] = row[Undo(j)]
  BY <1>1, <1>5, StepSame
<1>9. FailStep
  <2>1. Undo(k)[1] # "step" /\ Undo(k) \in Rows
    BY RowIds
  <2> QED
    BY <1>1, <1>5, <1>6, <2>1, FailWrite
<1>10. UndoMoves
  BY <1>2, <1>4, <1>8 DEF UndoMoves
<1>11. \A j \in Steps : Failed(j)' => Failed(j) /\ Steady(j)
  <2>1. \A j \in Steps : Failed(j)' => Failed(j)
    BY <1>8 DEF Failed
  <2>2. \A j \in Steps :
           /\ row'[Undo(j)].plan = row[Undo(j)].plan /\ row'[Undo(j)].index = row[Undo(j)].index
           /\ row'[Undo(j)].state = "absent" <=> row[Undo(j)].state = "absent"
    BY <1>6, <1>7, <1>8
  <2> QED
    BY <1>8, <2>1, <2>2 DEF Steady
<1>12. ASSUME NEW x, proc' = [proc EXCEPT ![p] = x],
              x.pc \in {"idle", "next", "cancel_read", "list_followers"}, x.pc # "idle" => x.id = s.id
       PROVE  Handling'
  <2>1. FreshAt(x)'
    BY <1>2, <1>6, <1>8, <1>12 DEF FreshAt, Failing
  <2>2. ~WalkerAt(x)
    BY <1>12 DEF WalkerAt, EarlyAt, LateAt, Failing
  <2> QED
    BY <1>1, <1>9, <1>10, <1>11, <1>12, <2>1, <2>2, HandOther
<1>13. PICK x : /\ proc' = [proc EXCEPT ![p] = x]
                /\ x = Idle \/ \E pc \in {"next", "cancel_read", "list_followers"} :
                                  x = Local(pc, s.id, s.r, {}, 0)
  BY DEF AfterPersist, Goto, Return
<1>14. x.pc \in {"idle", "next", "cancel_read", "list_followers"} /\ (x.pc # "idle" => x.id = s.id)
  BY <1>13 DEF Idle, Local
<1> QED
  BY <1>12, <1>13, <1>14

(* The write of a step: the first failure, with the engine that takes care *)
(* of it; the end of a rollback; or progress, while nothing has failed.    *)
LEMMA HandPersistStep ==
    ASSUME IInv, TypeOK', FailInv, Handling, NEW p \in Engines, proc[p].pc = "persist",
           UpdateRollout(proc[p].id, proc[p].r), AfterPersist(p, proc[p].r), proc[p].id[1] = "step"
    PROVE  Handling'
<1> DEFINE s == proc[p]
<1>0. p \in Procs
  BY DEF Procs
<1>1. /\ TypeOK /\ s.r \in RowRec /\ s.id \in Rows /\ s.r.version \in Nat
      /\ Fit(p, s) /\ FreshAt(s) /\ ~WalkerAt(s) /\ WorkOK(p) /\ CopyIndexOK(p) /\ PlanOrder
  BY <1>0 DEF IInv, TypeOK, ProcRec, RowRec, FailInv, Handling, WalkerAt, EarlyAt, LateAt, Failing,
     PlanCopies, CopyOK
<1>2. PICK k \in Steps : s.id = Step(k)
  BY <1>1, RowIds
<1>3. PICK n : n = [s.r EXCEPT !.version = @ + 1]
  OBVIOUS
<1>4. n.state = s.r.state /\ n.version = row[s.id].version + 1 /\ s.r.version = row[s.id].version
  BY <1>1, <1>3 DEF RowRec, UpdateRollout
<1>5. row' = [row EXCEPT ![Step(k)] = n]
  BY <1>2, <1>3 DEF UpdateRollout
<1>6. /\ row[Step(k)].state \in Active
      /\ row[Step(k)].state = "aborted" => s.r.state = "rolled_back"
      /\ s.r.state = "rolled_back" => row[Step(k)].state = "aborted"
      /\ row[Step(k)].state # "absent" /\ s.r.state # "absent"
  BY <1>1, <1>2, <1>4 DEF WorkOK, Fit, FreshAt
<1>7. /\ row'[Step(k)] = n
      /\ \A j \in Steps : j # k => row'[Step(j)] = row[Step(j)]
      /\ \A j \in Steps : row'[Undo(j)] = row[Undo(j)]
      /\ UndoMoves
  BY <1>1, <1>5, UndoSame
<1>8. FailStep
  <2>1. Step(k) \in Rows
    BY RowIds
  <2> QED
    BY <1>1, <1>2, <1>4, <1>5, <1>6, <2>1, FailWrite DEF Active
<1>9. s.r.plan /\ s.r.index = k
  BY <1>1, <1>2, RowIds DEF CopyIndexOK
<1>10. CASE s.r.state = "rolled_back"
  <2>1. Return(p)
    BY <1>10 DEF AfterPersist
  <2>2. Failed(k)
    BY <1>6, <1>10 DEF Failed
  <2>3. \A j \in Steps : Failed(j)' => Failed(j)
    BY <1>7, <2>2 DEF Failed
  <2>4. \A j \in Steps : Failed(j)' => Failed(j) /\ Steady(j)
    BY <1>7, <2>2, <2>3, OneFailure DEF Steady
  <2>5. PICK x : x = Idle
    OBVIOUS
  <2>6. x.pc = "idle"
    BY <2>5 DEF Idle, Local
  <2>7. FreshAt(x)' /\ ~WalkerAt(x)
    BY <2>6, FreshFree DEF WalkerAt, EarlyAt, LateAt, Failing
  <2> QED
    BY <1>1, <1>7, <1>8, <2>1, <2>4, <2>5, <2>7, HandOther DEF Return
<1>11. CASE s.r.state # "rolled_back"
  <2>1. row[Step(k)].state \in {"pending", "in_progress"}
    BY <1>6, <1>11 DEF Active
  <2>2. DoneBefore(k) /\ ~Failed(k) /\ row[Step(k)].state # "succeeded"
    BY <1>1, <2>1 DEF PlanOrder, Started, Failed
  <2>3. /\ \A j \in Steps : ~Failed(j)
        /\ \A j \in Steps : row[Undo(j)].state = "absent"
        /\ \A u \in Procs : ~WalkerAt(proc[u])
    BY <1>1, <2>2, NothingFailed
  <2>4. \A j \in Steps : Failed(j)' => j = k
    BY <1>7, <2>3 DEF Failed
  <2>5. CASE s.r.state = "aborted"
    <3>1. PICK pc \in {"cancel_read", "list_followers"} : Goto(p, pc, s.id, s.r)
      BY <1>1, <1>9, <2>5 DEF AfterPersist, RowRec
    <3>2. PICK x : x = Local(pc, s.id, s.r, {}, 0)
      OBVIOUS
    <3>3. x.pc = pc /\ x.id = Step(k)
      BY <1>2, <3>2 DEF Local
    <3>4. x.id[1] = "step"
      BY <3>3, RowIds
    <3>5. FreshAt(x)'
      BY <3>3, <3>4, FreshFree
    <3>6. ~LateAt(x)
      BY <3>3 DEF LateAt
    <3>7. EarlyOK(x, k)'
      BY <1>7, <2>3, <3>3 DEF EarlyOK
    <3>8. WalkerAt(x)
      BY <3>3, <3>4 DEF WalkerAt, EarlyAt, Failing
    <3>9. Cares(x, k)'
      BY <3>6, <3>7 DEF Cares, LateAt
    <3> QED
      BY <1>7, <1>8, <2>2, <2>3, <2>4, <3>1, <3>2, <3>5, <3>6, <3>8, <3>9, HandAssemble DEF Goto
  <2>6. CASE s.r.state # "aborted"
    <3>1. \A j \in Steps : ~Failed(j)'
      BY <1>4, <1>7, <1>11, <2>4, <2>6 DEF Failed
    <3>2. PICK x : /\ proc' = [proc EXCEPT ![p] = x]
                   /\ x = Idle \/ x = Local("next", s.id, s.r, {}, 0)
      BY <2>6 DEF AfterPersist, Goto, Return
    <3>3. x.pc \in {"idle", "next"}
      BY <3>2 DEF Idle, Local
    <3>4. FreshAt(x)' /\ ~WalkerAt(x)
      BY <3>3, FreshFree DEF WalkerAt, EarlyAt, LateAt, Failing
    <3> QED
      BY <1>1, <1>7, <1>8, <3>1, <3>2, <3>4, HandOther
  <2> QED
    BY <2>5, <2>6
<1> QED
  BY <1>10, <1>11

LEMMA HandPersist ==
    ASSUME IInv, TypeOK', FailInv, Handling, NEW p \in Engines, Persist(p) PROVE Handling'
<1>1. proc[p].pc = "persist" /\ proc[p].id \in Rows /\ ~WalkerAt(proc[p])
  BY DEF Persist, At, IInv, TypeOK, ProcRec, Procs, WalkerAt, EarlyAt, LateAt, Failing
<1>2. proc[p].id[1] \in {"step", "undo"}
  BY <1>1 DEF Rows
<1>3. CASE UNCHANGED row /\ Return(p)
  BY <1>1, <1>3, HandReturn
<1> QED
  BY <1>1, <1>2, <1>3, HandPersistUndo, HandPersistStep DEF Persist

(* Once something is undone the followers have been dealt with. *)
LEMMA UndoneMeansCancelled ==
    ASSUME Handling, FailInv, NEW k \in Steps, row[Undo(k)].state # "absent" PROVE NoneQueued
<1>1. PICK j \in Steps : Failed(j)
  BY DEF FailInv, UndoOnlyAfterFailure
<1>2. CASE Handled(j)
  BY <1>2 DEF Handled
<1>3. ASSUME NEW u \in Procs, WalkerAt(proc[u]) PROVE NoneQueued
  <2>1. Cares(proc[u], j)
    BY <1>1, <1>3 DEF Handling
  <2> QED
    BY <1>3, <2>1 DEF WalkerAt, Cares, EarlyOK, LateOK
<1> QED
  BY <1>1, <1>2, <1>3 DEF Handling

(* The walks of a rollback rollout that failed find nothing to do. *)
LEMMA HandUndoWalk ==
    ASSUME IInv, TypeOK', FailInv, Handling, NEW p \in Engines, proc[p].id[1] = "undo",
           CancelRead(p) \/ CancelWrite(p) \/ CancelWalk(p) \/ ListPredecessors(p)
    PROVE  Handling'
<1> DEFINE s == proc[p]
<1>0. p \in Procs /\ p # Api
  BY ProcsAssumption DEF Procs
<1>1. /\ TypeOK /\ s \in ProcRec /\ s.id \in Rows /\ s.todo \in SUBSET (Rows \X Nat) /\ s.r.index \in Int
      /\ WalkOK(p) /\ Fit(p, s) /\ FreshAt(s) /\ RowsOK
  BY <1>0 DEF IInv, TypeOK, ProcRec, RowRec, PlanCopies, CopyOK, FailInv, Handling
<1>2. s.pc \in Failing
  BY DEF CancelRead, CancelWrite, CancelWalk, ListFollowers, CancelFollower, FollowersCancelled,
     ListPredecessors, At, Failing
<1>3. row[s.id].state # "absent" /\ s.r.index < 0 /\ ~WalkerAt(s)
  BY <1>0, <1>1, <1>2 DEF FreshAt, Fit, WalkerAt, EarlyAt, LateAt, Failing
<1>4. NoneQueued
  BY <1>1, <1>3, RowIds, UndoneMeansCancelled
<1>5. ASSUME NEW pc \in Failing, NEW S, UNCHANGED row,
             proc' = [proc EXCEPT ![p] = Local(pc, s.id, s.r, S, 0)]
      PROVE  Handling'
  <2>1. PICK x : x = Local(pc, s.id, s.r, S, 0)
    OBVIOUS
  <2>2. x.pc = pc /\ x.id = s.id
    BY <2>1 DEF Local
  <2>3. FreshAt(x) /\ ~WalkerAt(x)
    BY <1>3, <2>2 DEF FreshAt, WalkerAt, EarlyAt, LateAt, Failing
  <2> QED
    BY <1>3, <1>5, <2>1, <2>3, HandSame
<1>6. ASSUME FollowersDone(p), UNCHANGED row PROVE Handling'
  BY <1>0, <1>5, <1>6 DEF FollowersDone, Goto, Failing
<1>7. CASE CancelRead(p) \/ CancelWrite(p)
  <2>1. UNCHANGED row /\ \E pc \in {"cancel_write", "list_followers"} : Goto(p, pc, s.id, s.r)
    BY <1>7 DEF CancelRead, CancelWrite
  <2> QED
    BY <1>5, <2>1 DEF Goto, Failing
<1>8. CASE ListFollowers(p)
  <2>1. UNCHANGED row /\ (FollowersDone(p) \/ \E S : Walk(p, "followers", S))
    BY <1>8 DEF ListFollowers
  <2>2. ASSUME NEW S, Walk(p, "followers", S) PROVE Handling'
    BY <1>5, <2>1, <2>2 DEF Walk, Failing
  <2> QED
    BY <1>6, <2>1, <2>2
<1>9. CASE CancelFollower(p)
  <2>1. ASSUME NEW t \in s.todo, s.pc = "followers",
               UpdateRollout(t[1], [row[t[1]] EXCEPT !.state = "cancelled", !.version = t[2]])
        PROVE  FALSE
    <3>1. PICK i \in Rows : i = t[1]
      BY <1>1, <2>1
    <3>2. row[i] \in RowRec
      BY <1>1, <3>1 DEF TypeOK
    <3>3. t[2] = row[i].version
      BY <2>1, <3>1, <3>2 DEF UpdateRollout, RowRec
    <3>4. row[i].state = "queued" /\ i[1] = "step"
      BY <1>1, <2>1, <3>1, <3>3 DEF WalkOK
    <3> QED
      BY <1>4, <3>1, <3>4, RowIds DEF NoneQueued, Queued
  <2> QED
    BY <1>6, <1>9, <2>1 DEF CancelFollower, At
<1>10. CASE FollowersCancelled(p)
  BY <1>6, <1>10 DEF FollowersCancelled
<1>11. CASE ListPredecessors(p)
  <2> DEFINE S == {i \in Rows : InPlan(i) /\ row[i].index \in 0..(s.r.index - 1)
                                /\ row[i].state = "succeeded" /\ Kind(i) = "rollout"}
  <2>1. UNCHANGED row /\ (Walk(p, "predecessors", S) \/ Return(p))
    BY <1>11 DEF ListPredecessors
  <2>2. S = {}
    <3>1. 0..(s.r.index - 1) = {}
      BY <1>1, <1>3
    <3> QED
      BY <3>1
  <2>3. CASE Walk(p, "predecessors", S)
    <3>1. PICK x : x = Local("predecessors", s.id, s.r, {}, 0)
      OBVIOUS
    <3>2. proc' = [proc EXCEPT ![p] = x]
      BY <2>2, <2>3, <3>1 DEF Walk
    <3>3. x.pc = "predecessors" /\ x.todo = {}
      BY <3>1 DEF Local
    <3>4. FreshAt(x) /\ ~WalkerAt(x)
      BY <3>3, FreshFree DEF WalkerAt, EarlyAt, LateAt, Failing
    <3> QED
      BY <1>3, <2>1, <3>2, <3>4, HandSame
  <2> QED
    BY <1>3, <2>1, <2>3, HandReturn
<1> QED
  BY <1>7, <1>8, <1>9, <1>10, <1>11 DEF CancelWalk

(* The engine that failed a step. *)
LEMMA EarlyFacts ==
    ASSUME IInv, FailInv, Handling, NEW p \in Engines, proc[p].pc \in Failing, proc[p].id[1] = "step"
    PROVE  /\ WalkerAt(proc[p])
           /\ \E k \in Steps : /\ Failed(k) /\ DoneBefore(k) /\ EarlyOK(proc[p], k)
                               /\ proc[p].id = Step(k) /\ proc[p].r.index = k
<1> DEFINE s == proc[p]
<1>0. p \in Procs /\ p # Api
  BY ProcsAssumption DEF Procs
<1>1. EarlyAt(s) /\ WalkerAt(s)
  BY DEF EarlyAt, WalkerAt
<1>2. PICK k \in Steps : s.id = Step(k) /\ s.id[2] = k
  BY <1>0, RowIds DEF IInv, TypeOK, ProcRec
<1>3. s.r.index = k /\ Failed(k)
  BY <1>0, <1>2 DEF FailInv, Fit
<1>4. EarlyOK(s, k) /\ DoneBefore(k)
  BY <1>0, <1>1, <1>3 DEF Handling, Cares
<1> QED
  BY <1>1, <1>2, <1>3, <1>4

(* It goes on, and nothing is written. *)
LEMMA EarlyMove ==
    ASSUME IInv, TypeOK', FailInv, Handling, UNCHANGED row, NEW p \in Engines,
           proc[p].pc \in Failing, proc[p].id[1] = "step",
           NEW k \in Steps, Failed(k), EarlyOK(proc[p], k), NEW x, proc' = [proc EXCEPT ![p] = x],
           x.pc \in Failing, x.id = Step(k),
           x.pc = "followers" => x.todo = Versioned({j \in Steps : Queued(j)}),
           x.pc = "list_predecessors" => NoneQueued
    PROVE  Handling'
<1>1. FailStep /\ UndoMoves /\ WalkerAt(proc[p])
  BY FailSame, EarlyFacts DEF UndoMoves
<1>2. x.id[1] = "step"
  BY RowIds
<1>3. FreshAt(x)'
  BY <1>2, FreshFree DEF Failing
<1>4. EarlyOK(x, k)
  BY DEF EarlyOK
<1>5. EarlyOK(x, k)'
  BY <1>4 DEF EarlyOK, Versioned, Queued, NoneQueued
<1>6. WalkerAt(x) /\ ~LateAt(x)
  BY <1>2 DEF WalkerAt, EarlyAt, LateAt, Failing
<1>7. Cares(x, k)'
  BY <1>5, <1>6 DEF Cares, LateAt
<1>8. \A j \in Steps : Failed(j)' => Failed(j)
  BY DEF Failed
<1> QED
  BY <1>1, <1>3, <1>6, <1>7, <1>8, HandWalk

(* The queued rows of the table are queued steps behind the failure. *)
LEMMA Followers ==
    ASSUME IInv, NEW k \in Steps, Failed(k), DoneBefore(k)
    PROVE  {i \in Rows : InPlan(i) /\ row[i].index > k /\ row[i].state = "queued"}
             = {Step(j) : j \in {j \in Steps : Queued(j)}}
<1>1. RowsOK
  BY DEF IInv, PlanCopies
<1>2. ASSUME NEW i \in Rows, row[i].state = "queued" PROVE \E j \in Steps : i = Step(j) /\ Queued(j)
  BY <1>1, <1>2, RowIds DEF RowsOK, Queued
<1>3. ASSUME NEW j \in Steps, Queued(j)
      PROVE  Step(j) \in Rows /\ InPlan(Step(j)) /\ row[Step(j)].index > k /\ row[Step(j)].state = "queued"
  <2>1. row[Step(j)].plan /\ row[Step(j)].index = j /\ row[Step(j)].state = "queued"
    BY <1>1, <1>3 DEF RowsOK, Queued
  <2>2. j > k
    BY <1>3, <2>1, RowIds DEF DoneBefore, Failed
  <2> QED
    BY <2>1, <2>2, RowIds DEF InPlan
<1> QED
  BY <1>2, <1>3

(* The cancellation of the followers. *)
LEMMA HandCancel ==
    ASSUME IInv, TypeOK', FailInv, Handling, NEW p \in Engines, proc[p].id[1] = "step",
           CancelRead(p) \/ CancelWrite(p) \/ CancelWalk(p), faults' = MaxFaults
    PROVE  Handling'
<1> DEFINE s == proc[p]
<1>0. p \in Procs /\ p # Api
  BY ProcsAssumption DEF Procs
<1>1. TypeOK /\ s \in ProcRec /\ s.todo \in SUBSET (Rows \X Nat) /\ WalkOK(p)
  BY <1>0 DEF IInv, TypeOK, ProcRec, PlanCopies, CopyOK
<1>2. s.pc \in Failing
  BY DEF CancelRead, CancelWrite, CancelWalk, ListFollowers, CancelFollower, FollowersCancelled,
     At, Failing
<1>3. PICK k \in Steps : /\ Failed(k) /\ DoneBefore(k) /\ EarlyOK(s, k)
                         /\ s.id = Step(k) /\ s.r.index = k
  BY <1>2, EarlyFacts
<1>4. WalkerAt(s)
  BY <1>2, EarlyFacts
<1>5. \A kind : ~Fault(kind)
  BY <1>1, NoFaultYet
<1>6. ASSUME NEW pc \in Failing, NEW S, UNCHANGED row,
             proc' = [proc EXCEPT ![p] = Local(pc, s.id, s.r, S, 0)],
             pc = "followers" => S = Versioned({j \in Steps : Queued(j)}),
             pc = "list_predecessors" => NoneQueued
      PROVE  Handling'
  <2>1. PICK x : x = Local(pc, s.id, s.r, S, 0)
    OBVIOUS
  <2>2. x.pc = pc /\ x.id = Step(k) /\ x.todo = S
    BY <1>3, <2>1 DEF Local
  <2> QED
    BY <1>2, <1>3, <1>6, <2>1, <2>2, EarlyMove
<1>7. CASE CancelRead(p) \/ CancelWrite(p)
  <2>1. UNCHANGED row /\ \E pc \in {"cancel_write", "list_followers"} : Goto(p, pc, s.id, s.r)
    BY <1>7 DEF CancelRead, CancelWrite
  <2> QED
    BY <1>6, <2>1 DEF Goto, Failing
<1>8. CASE ListFollowers(p)
  <2>1. PICK S : S = {i \in Rows : InPlan(i) /\ row[i].index > k /\ row[i].state = "queued"}
    OBVIOUS
  <2>2. UNCHANGED row /\ Walk(p, "followers", S)
    BY <1>3, <1>5, <1>8, <2>1 DEF ListFollowers
  <2>3. S = {Step(j) : j \in {j \in Steps : Queued(j)}}
    BY <1>3, <2>1, Followers
  <2>4. {<<i, row[i].version>> : i \in S} = Versioned({j \in Steps : Queued(j)})
    BY <2>3 DEF Versioned
  <2> QED
    BY <1>6, <2>2, <2>4 DEF Walk, Failing
<1>9. CASE FollowersCancelled(p)
  <2>1. s.pc = "followers" /\ s.todo = {} /\ UNCHANGED row /\ FollowersDone(p)
    BY <1>9 DEF FollowersCancelled, At
  <2>2. Versioned({j \in Steps : Queued(j)}) = {}
    BY <1>3, <2>1 DEF EarlyOK
  <2>3. NoneQueued
    BY <2>2 DEF Versioned, NoneQueued
  <2> QED
    BY <1>0, <1>6, <2>1, <2>3 DEF FollowersDone, Goto, Failing
<1>10. CASE CancelFollower(p)
  <2>0. s.pc = "followers" /\ s.todo = Versioned({j \in Steps : Queued(j)})
    BY <1>3, <1>10 DEF EarlyOK, CancelFollower, At
  <2>1. PICK t \in s.todo :
           LET r == [row[t[1]] EXCEPT !.state = "cancelled", !.version = t[2]] IN
           \/ UpdateRollout(t[1], r) /\ proc' = [proc EXCEPT ![p].todo = @ \ {t}]
           \/ r.version # row[t[1]].version
    BY <1>5, <1>10 DEF CancelFollower
  <2>2. PICK j \in Steps : Queued(j) /\ t = <<Step(j), row[Step(j)].version>>
    BY <2>0, <2>1 DEF Versioned
  <2>3. PICK i \in Rows : i = Step(j) /\ i = t[1] /\ row[i] \in RowRec /\ t[2] = row[i].version
    BY <1>1, <2>2, RowIds, RowType
  <2>4. PICK n : n = [[row[i] EXCEPT !.state = "cancelled", !.version = t[2]] EXCEPT !.version = @ + 1]
    OBVIOUS
  <2>5. n.state = "cancelled" /\ n.version = row[i].version + 1
    BY <1>1, <2>3, <2>4, RowType DEF RowRec
  <2>6. row' = [row EXCEPT ![Step(j)] = n] /\ proc' = [proc EXCEPT ![p].todo = @ \ {t}]
    <3>1. [row[t[1]] EXCEPT !.state = "cancelled", !.version = t[2]].version = row[t[1]].version
      BY <2>3 DEF RowRec
    <3> QED
      BY <2>1, <2>3, <2>4, <3>1 DEF UpdateRollout
  <2>7. /\ row'[Step(j)] = n
        /\ \A m \in Steps : m # j => row'[Step(m)] = row[Step(m)]
        /\ \A m \in Steps : row'[Undo(m)] = row[Undo(m)]
        /\ UndoMoves
    BY <1>1, <2>6, UndoSame
  <2>8. FailStep
    BY <1>1, <2>2, <2>3, <2>5, <2>6, FailWrite DEF Queued
  <2>9. \A m \in Steps : Failed(m)' => Failed(m)
    BY <2>5, <2>7 DEF Failed
  <2>10. \A m \in Steps : Queued(m)' <=> Queued(m) /\ m # j
    BY <2>5, <2>7 DEF Queued
  <2>11. PICK x \in ProcRec : x = [s EXCEPT !.todo = @ \ {t}]
    BY <1>1 DEF ProcRec
  <2>12. x.id = s.id /\ x.pc = "followers" /\ x.todo = s.todo \ {t}
    BY <1>1, <2>0, <2>11 DEF ProcRec
  <2>13. proc' = [proc EXCEPT ![p] = x]
    BY <1>0, <1>1, <2>6, <2>11 DEF TypeOK
  <2>14. x.todo = Versioned({m \in Steps : Queued(m)})'
    <3>1. x.todo = {<<Step(m), row[Step(m)].version>> : m \in {m \in Steps : Queued(m) /\ m # j}}
      <4>1. \A m \in Steps : <<Step(m), row[Step(m)].version>> = t => m = j
        BY <2>2, RowIds
      <4> QED
        BY <2>0, <2>2, <2>12, <4>1 DEF Versioned
    <3>2. \A m \in {m \in Steps : Queued(m) /\ m # j} : row'[Step(m)] = row[Step(m)]
      BY <2>7
    <3>3. x.todo = {<<Step(m), row'[Step(m)].version>> : m \in {m \in Steps : Queued(m) /\ m # j}}
      BY <3>1, <3>2
    <3>4. {m \in Steps : Queued(m)'} = {m \in Steps : Queued(m) /\ m # j}
      BY <2>10
    <3> QED
      BY <3>3, <3>4 DEF Versioned
  <2>15. EarlyOK(x, k)'
    BY <1>3, <2>7, <2>12, <2>14 DEF EarlyOK
  <2>16. WalkerAt(x) /\ FreshAt(x)'
    BY <2>12, FreshFree DEF WalkerAt, EarlyAt, Failing
  <2>17. Cares(x, k)'
    BY <2>12, <2>15 DEF Cares, LateAt
  <2> QED
    BY <1>3, <1>4, <2>7, <2>8, <2>9, <2>13, <2>16, <2>17, HandWalk
<1> QED
  BY <1>7, <1>8, <1>9, <1>10 DEF CancelWalk

(* When no rollout step is left below c, all are above. *)
LEMMA Beyond ==
    ASSUME NEW k \in Steps, NEW c \in 0..k, Rollouts(0, c) = {}, NEW j \in Rollouts(0, k)
    PROVE  j \in Rollouts(c, k)
<1>1. k \in Nat /\ c \in Nat /\ j \in 0..(k - 1) /\ Kinds[j + 1] = "rollout"
  BY RowIds DEF Rollouts
<1>2. j \notin 0..(c - 1)
  BY <1>1 DEF Rollouts
<1>3. j \in c..(k - 1)
  BY <1>1, <1>2
<1> QED
  BY <1>1, <1>3 DEF Rollouts

(* Nothing is left to be undone. *)
LEMMA ReachedEnd ==
    ASSUME NoneQueued, NEW k \in Steps, NEW c \in 0..k, NEW s, Reached(s, k, c),
           s.pc = "predecessors", s.todo = {}
    PROVE  Handled(k)
<1>1. Rollouts(0, c) = {}
  BY DEF Reached, Versioned
<1>2. \A j \in Rollouts(0, k) : j \in Rollouts(c, k)
  BY <1>1, Beyond
<1> QED
  BY <1>2 DEF Handled, Reached

(* The steps to be undone. *)
LEMMA Predecessors ==
    ASSUME IInv, NEW k \in Steps, DoneBefore(k)
    PROVE  {i \in Rows : InPlan(i) /\ row[i].index \in 0..(k - 1)
                         /\ row[i].state = "succeeded" /\ Kind(i) = "rollout"}
             = {Step(j) : j \in Rollouts(0, k)}
<1>1. RowsOK
  BY DEF IInv, PlanCopies
<1>2. ASSUME NEW i \in Rows, InPlan(i), row[i].index \in 0..(k - 1), row[i].state = "succeeded",
             Kind(i) = "rollout"
      PROVE  \E j \in Rollouts(0, k) : i = Step(j)
  <2>1. PICK j \in Steps : i = Step(j) \/ i = Undo(j)
    BY RowIds
  <2>2. i = Step(j)
    BY <1>1, <1>2, <2>1 DEF RowsOK, InPlan
  <2>3. row[i].index = j
    BY <1>1, <1>2, <2>2 DEF RowsOK
  <2>4. Kinds[j + 1] = "rollout"
    BY <1>2, <2>2, RowIds DEF Kind
  <2> QED
    BY <1>2, <2>2, <2>3, <2>4 DEF Rollouts
<1>3. ASSUME NEW j \in Rollouts(0, k)
      PROVE  /\ Step(j) \in Rows /\ InPlan(Step(j)) /\ row[Step(j)].index \in 0..(k - 1)
             /\ row[Step(j)].state = "succeeded" /\ Kind(Step(j)) = "rollout"
  <2>1. j \in Steps /\ j < k /\ Kinds[j + 1] = "rollout" /\ j \in 0..(k - 1)
    BY StepSets, RowIds DEF Rollouts
  <2>2. row[Step(j)].state = "succeeded"
    BY <2>1 DEF DoneBefore
  <2>3. row[Step(j)].plan /\ row[Step(j)].index = j
    BY <1>1, <2>1, <2>2 DEF RowsOK
  <2> QED
    BY <2>1, <2>2, <2>3, RowIds DEF InPlan, Kind
<1> QED
  BY <1>2, <1>3

(* The walk of the predecessors begins. *)
LEMMA HandPredecessors ==
    ASSUME IInv, TypeOK', FailInv, Handling, NEW p \in Engines, proc[p].id[1] = "step",
           ListPredecessors(p), faults' = MaxFaults
    PROVE  Handling'
<1> DEFINE s == proc[p]
<1>1. s.pc = "list_predecessors" /\ UNCHANGED row /\ TypeOK
  BY DEF ListPredecessors, At, IInv
<1>2. WalkerAt(s)
  BY <1>1, EarlyFacts DEF Failing
<1>3. PICK k \in Steps : /\ Failed(k) /\ DoneBefore(k) /\ EarlyOK(s, k)
                         /\ s.id = Step(k) /\ s.r.index = k
  BY <1>1, EarlyFacts DEF Failing
<1>4. PICK S : S = {i \in Rows : InPlan(i) /\ row[i].index \in 0..(k - 1)
                                 /\ row[i].state = "succeeded" /\ Kind(i) = "rollout"}
  OBVIOUS
<1>5. Walk(p, "predecessors", S)
  BY <1>1, <1>3, <1>4, NoFaultYet DEF ListPredecessors
<1>6. S = {Step(j) : j \in Rollouts(0, k)}
  BY <1>3, <1>4, Predecessors
<1>7. {<<i, row[i].version>> : i \in S} = Versioned(Rollouts(0, k))
  BY <1>6 DEF Versioned
<1>8. PICK x : x = Local("predecessors", s.id, s.r, Versioned(Rollouts(0, k)), 0)
  OBVIOUS
<1>9. proc' = [proc EXCEPT ![p] = x]
  BY <1>5, <1>7, <1>8 DEF Walk
<1>10. x.pc = "predecessors" /\ x.todo = Versioned(Rollouts(0, k)) /\ x.walked = 0
  BY <1>8 DEF Local
<1>11. NoneQueued /\ Absents(k)
  BY <1>1, <1>3 DEF EarlyOK, Absents
<1>12. k \in 0..k /\ Rollouts(k, k) = {} /\ Cardinality(Rollouts(k, k)) = 0
  BY RowIds, RolloutFacts
<1>13. Reached(x, k, k)
  BY <1>10, <1>11, <1>12 DEF Reached
<1>14. Steady(k) /\ Failed(k)' /\ FailStep /\ UndoMoves
  BY <1>1, <1>3, FailSame DEF Steady, Failed, UndoMoves
<1>15. Cares(x, k)'
  <2>1. Cares(x, k)
    BY <1>10, <1>11, <1>12, <1>13 DEF Cares, EarlyAt, LateOK, Failing
  <2> QED
    BY <1>3, <1>14, <2>1, SteadyKeeps
<1>16. x.todo = {} => Handled(k)'
  <2>1. x.todo = {} => Handled(k)
    BY <1>10, <1>11, <1>12, <1>13, ReachedEnd
  <2> QED
    BY <1>3, <1>14, <2>1, SteadyKeeps
<1>17. WalkerAt(x) \/ x.todo = {}
  BY <1>10 DEF WalkerAt, LateAt
<1>18. FreshAt(x)'
  BY <1>10, FreshFree DEF Failing
<1>19. \A j \in Steps : Failed(j)' => Failed(j)
  BY <1>1 DEF Failed
<1> QED
  BY <1>2, <1>3, <1>9, <1>14, <1>15, <1>16, <1>17, <1>18, <1>19, HandWalk

(* The engine that is among the predecessors. *)
LEMMA LateFacts ==
    ASSUME Handling, NEW p \in Engines, LateAt(proc[p])
    PROVE  /\ WalkerAt(proc[p]) /\ NoneQueued
           /\ \E k \in Steps : Failed(k) /\ DoneBefore(k) /\ \E c \in 0..k : Reached(proc[p], k, c)
<1>1. p \in Procs /\ WalkerAt(proc[p])
  BY DEF Procs, WalkerAt
<1>2. PICK k \in Steps : Failed(k)
  BY <1>1 DEF Handling
<1>3. DoneBefore(k) /\ LateOK(proc[p], k)
  BY <1>1, <1>2 DEF Handling, Cares
<1> QED
  BY <1>1, <1>2, <1>3 DEF LateOK

(* It goes on: no step is written, and the rows above the point it has     *)
(* reached have their places.                                              *)
LEMMA LateMove ==
    ASSUME IInv, TypeOK', FailInv, Handling, FailStep, UndoMoves, NEW p \in Engines, LateAt(proc[p]),
           \A j \in Steps : row'[Step(j)] = row[Step(j)],
           NEW k \in Steps, Failed(k), NEW x, proc' = [proc EXCEPT ![p] = x],
           x.pc \in {"predecessors", "link", "group"}, NEW c \in 0..k, Reached(x, k, c)'
    PROVE  Handling'
<1>1. WalkerAt(proc[p]) /\ NoneQueued'
  BY LateFacts DEF NoneQueued, Queued
<1>2. \A j \in Steps : Failed(j)' => Failed(j)
  BY DEF Failed
<1>3. FreshAt(x)'
  BY FreshFree DEF Failing
<1>4. Cares(x, k)'
  <2>1. ~EarlyAt(x)
    BY DEF EarlyAt, Failing
  <2> QED
    BY <1>1, <2>1 DEF Cares, EarlyAt, LateOK
<1>5. WalkerAt(x) \/ Handled(k)'
  <2>1. CASE x.pc = "predecessors" /\ x.todo = {}
    <3>1. \A j \in Rollouts(0, k) : row'[Step(j)].previous => Stamped(j, k)'
      <4>0. x.todo = {<<Step(i), row'[Step(i)].version>> : i \in Rollouts(0, c)}
        BY DEF Reached, Versioned, Rollouts
      <4>1. Rollouts(0, c) = {}
        BY <2>1, <4>0
      <4>2. \A j \in Rollouts(0, k) : j \in Rollouts(c, k)
        BY <4>1, Beyond
      <4> QED
        BY <2>1, <4>2 DEF Reached, Rollouts
    <3> QED
      BY <1>1, <3>1 DEF Handled, Rollouts
  <2>2. CASE ~(x.pc = "predecessors" /\ x.todo = {})
    BY <2>2 DEF WalkerAt, LateAt
  <2> QED
    BY <2>1, <2>2
<1> QED
  BY <1>1, <1>2, <1>3, <1>4, <1>5, HandWalk

(* The last step left gets its rollback rollout, or has nothing to go back *)
(* to.                                                                     *)
LEMMA HandCreate ==
    ASSUME IInv, TypeOK', FailInv, Handling, NEW p \in Engines, CreateUndo(p), faults' = MaxFaults
    PROVE  Handling'
<1> DEFINE s == proc[p]
<1>0. p \in Procs /\ TypeOK
  BY DEF Procs, IInv
<1>1. s \in ProcRec /\ s.todo \in SUBSET (Rows \X Nat) /\ s.walked \in Nat /\ Fit(p, s)
  BY <1>0 DEF TypeOK, ProcRec, FailInv
<1>2. PICK t \in s.todo :
         /\ \A u \in s.todo : u[1][2] <= t[1][2]
         /\ \/ \E gate \in BOOLEAN :
                  LET r == NewRow(IF gate THEN "pending_approval" ELSE "pending",
                                  1, FALSE, 0, gate, TRUE)
                  IN
                  /\ row' = [row EXCEPT ![Undo(t[1][2])] = r]
                  /\ proc' = [proc EXCEPT ![p] = Local("link", Undo(t[1][2]), r, s.todo \ {t}, s.walked + 1)]
            \/ ~row[Step(t[1][2])].previous /\ SkipUndo(p, t) /\ UNCHANGED row
  BY <1>0, NoFaultYet DEF CreateUndo
<1>3. s.pc = "predecessors" /\ LateAt(s)
  BY <1>2 DEF CreateUndo, At, LateAt
<1>4. PICK k \in Steps : Failed(k) /\ DoneBefore(k) /\ \E c \in 0..k : Reached(s, k, c)
  BY <1>3, LateFacts
<1>5. PICK c \in 0..k : Reached(s, k, c)
  BY <1>4
<1>6. k \in Nat /\ c \in Nat /\ c <= k
  BY RowIds
<1>7. PICK d \in Rollouts(0, c) : t = <<Step(d), row[Step(d)].version>>
  BY <1>2, <1>5 DEF Reached, Versioned
<1>8. d \in Steps /\ Rollouts(0, c) \subseteq Steps /\ Rollouts(c, k) \subseteq Steps /\ t[1][2] = d
  BY <1>7, StepSets, RowIds
<1>9. \A i \in Rollouts(0, c) : i <= d
  <2> SUFFICES ASSUME NEW i \in Rollouts(0, c) PROVE i <= d
    OBVIOUS
  <2>1. <<Step(i), row[Step(i)].version>> \in s.todo
    BY <1>5 DEF Reached, Versioned
  <2>2. Step(i)[2] = i
    BY <1>8, RowIds
  <2> QED
    BY <1>2, <1>8, <2>1, <2>2
<1>10. /\ d \in Nat /\ d < c /\ d \in Rollouts(d, k)
       /\ Rollouts(d, k) = Rollouts(c, k) \cup {d}
       /\ Cardinality(Rollouts(d, k)) = Cardinality(Rollouts(c, k)) + 1
       /\ Rollouts(0, c) \ {d} = Rollouts(0, d)
  BY <1>6, <1>9, CountDown
<1>11. d \in 0..k /\ row[Undo(d)].state = "absent"
  BY <1>5, <1>6, <1>8, <1>10 DEF Reached, Absents
<1>12. s.todo \ {t} = Versioned(Rollouts(0, d))
  <2>1. \A i \in Rollouts(0, c) : <<Step(i), row[Step(i)].version>> = t => i = d
    BY <1>7, <1>8, RowIds
  <2>2. s.todo \ {t} = {<<Step(i), row[Step(i)].version>> : i \in Rollouts(0, c) \ {d}}
    BY <1>5, <1>7, <2>1 DEF Reached, Versioned
  <2> QED
    BY <1>10, <2>2 DEF Versioned
<1>13. s.walked + 1 = Cardinality(Rollouts(d, k))
  BY <1>5, <1>10 DEF Reached
<1>14. \A j \in Rollouts(c, k) : row[Step(j)].previous => Stamped(j, k)
  BY <1>3, <1>5 DEF Reached
<1>15. ASSUME NEW r, r.state \notin {"absent", "queued"},
              row' = [row EXCEPT ![Undo(d)] = r],
              proc' = [proc EXCEPT ![p] = Local("link", Undo(d), r, s.todo \ {t}, s.walked + 1)]
       PROVE  Handling'
  <2>1. /\ row'[Undo(d)] = r
        /\ \A j \in Steps : row'[Step(j)] = row[Step(j)]
        /\ \A j \in Steps : j # d => row'[Undo(j)] = row[Undo(j)]
    BY <1>0, <1>8, <1>15, StepSame
  <2>2. UndoMoves
    BY <1>8, <1>11, <2>1 DEF UndoMoves
  <2>3. FailStep
    <3>1. Undoable(d)
      BY <1>1, <1>2, <1>3, <1>8 DEF Fit
    <3>2. \A i \in Rows : row[i].state # "absent" => row'[i].state # "absent"
      BY <1>15, <2>1, RowIds
    <3> QED
      BY <2>1, <3>1, <3>2 DEF FailStep, Failed
  <2>4. PICK x : x = Local("link", Undo(d), r, s.todo \ {t}, s.walked + 1)
    OBVIOUS
  <2>5. x.pc = "link" /\ x.id = Undo(d) /\ x.todo = s.todo \ {t} /\ x.walked = s.walked + 1
    BY <2>4 DEF Local
  <2>6. x.todo = Versioned(Rollouts(0, d))'
    <3>1. \A i \in Rollouts(0, d) : row'[Step(i)] = row[Step(i)]
      BY <1>8, <1>10, <2>1
    <3> QED
      BY <1>12, <2>5, <3>1 DEF Versioned, Rollouts
  <2>7. Absents(d)'
    BY <1>5, <1>6, <1>10, <2>1, RowIds DEF Reached, Absents
  <2>8. ASSUME NEW j \in Rollouts(d, k), row'[Step(j)].previous, j # d PROVE Stamped(j, k)'
    <3>1. j \in Rollouts(c, k) /\ j \in Steps
      BY <1>8, <1>10, <2>8
    <3>2. Stamped(j, k)
      BY <1>14, <2>1, <2>8, <3>1
    <3> QED
      BY <2>1, <2>8, <3>1, <3>2 DEF Stamped, Rollouts
  <2>9. Reached(x, k, d)'
    BY <1>10, <1>13, <2>5, <2>6, <2>7, <2>8 DEF Reached, Rollouts
  <2> QED
    BY <1>3, <1>4, <1>11, <1>15, <2>1, <2>2, <2>3, <2>4, <2>5, <2>9, LateMove
<1>16. CASE ~row[Step(d)].previous /\ SkipUndo(p, t) /\ UNCHANGED row
  <2>1. PICK x : x = [s EXCEPT !.todo = @ \ {t}, !.walked = @ + 1]
    OBVIOUS
  <2>2. x.pc = "predecessors" /\ x.todo = s.todo \ {t} /\ x.walked = s.walked + 1
    BY <1>1, <1>3, <2>1 DEF ProcRec
  <2>3. proc' = [proc EXCEPT ![p] = x]
    BY <1>0, <1>1, <1>16, <2>1 DEF SkipUndo, TypeOK
  <2>4. FailStep /\ UndoMoves
    BY <1>16, FailSame DEF UndoMoves
  <2>5. Absents(d)
    BY <1>5, <1>6, <1>10, RowIds DEF Reached, Absents
  <2>6. Reached(x, k, d)
    BY <1>10, <1>12, <1>13, <1>14, <1>16, <2>2, <2>5 DEF Reached
  <2>7. Reached(x, k, d)'
    BY <1>16, <2>6 DEF Reached, Versioned, Rollouts, Absents, Stamped
  <2> QED
    BY <1>3, <1>4, <1>11, <1>16, <2>2, <2>3, <2>4, <2>7, LateMove
<1>17. ASSUME NEW gate \in BOOLEAN, NEW r,
              r = NewRow(IF gate THEN "pending_approval" ELSE "pending", 1, FALSE, 0, gate, TRUE)
       PROVE  r.state \notin {"absent", "queued"}
  BY <1>17 DEF NewRow
<1> QED
  BY <1>2, <1>8, <1>15, <1>16, <1>17

(* The rollback rollout is linked and takes its place in the plan. *)
LEMMA HandStamp ==
    ASSUME IInv, TypeOK', FailInv, Handling, NEW p \in Engines, LinkUndo(p) \/ GroupUndo(p),
           faults' = MaxFaults
    PROVE  Handling'
<1> DEFINE s == proc[p]
<1>0. p \in Procs /\ TypeOK
  BY DEF Procs, IInv
<1>1. s \in ProcRec /\ s.r \in RowRec /\ s.walked \in Nat /\ Fit(p, s)
  BY <1>0 DEF TypeOK, ProcRec, FailInv
<1>2. s.pc \in {"link", "group"} /\ LateAt(s)
  BY DEF LinkUndo, GroupUndo, At, LateAt
<1>3. PICK k \in Steps : Failed(k) /\ DoneBefore(k) /\ \E c \in 0..k : Reached(s, k, c)
  BY <1>2, LateFacts
<1>4. PICK c \in 0..k : Reached(s, k, c)
  BY <1>3
<1>5. s.id = Undo(c) /\ c \in Rollouts(c, k) /\ c \in Steps
  BY <1>2, <1>4, StepSets DEF Reached
<1>6. row[Undo(c)].state # "absent" /\ s.r.state # "absent"
  BY <1>1, <1>2, <1>5 DEF Fit
<1>7. PICK r \in RowRec, pc \in {"group", "predecessors"} :
         /\ Overwrite(Undo(c), r)
         /\ proc' = [proc EXCEPT ![p].pc = pc]
         /\ r.state = s.r.state
         /\ pc = "predecessors" => r.plan /\ r.index = -s.walked
  <2>1. CASE LinkUndo(p)
    BY <1>0, <1>1, <1>5, <2>1, NoFaultYet DEF LinkUndo
  <2>2. CASE GroupUndo(p)
    <3>1. -s.walked \in Int
      BY <1>1
    <3>2. PICK g \in RowRec : g = [s.r EXCEPT !.plan = TRUE, !.index = -s.walked]
      BY <1>1, <3>1, CopyType DEF States
    <3>3. g.state = s.r.state /\ g.plan /\ g.index = -s.walked
      BY <1>1, <3>2 DEF RowRec
    <3> QED
      BY <1>0, <1>5, <2>2, <3>2, <3>3, NoFaultYet DEF GroupUndo, NextUndo
  <2> QED
    BY <2>1, <2>2
<1>8. PICK n : n = [r EXCEPT !.version = row[Undo(c)].version + 1]
  OBVIOUS
<1>9. /\ n.state = s.r.state /\ n.version = row[Undo(c)].version + 1
      /\ n.plan = r.plan /\ n.index = r.index
  BY <1>7, <1>8 DEF RowRec
<1>10. row' = [row EXCEPT ![Undo(c)] = n]
  BY <1>7, <1>8 DEF Overwrite
<1>11. /\ row'[Undo(c)] = n
       /\ \A j \in Steps : row'[Step(j)] = row[Step(j)]
       /\ \A j \in Steps : j # c => row'[Undo(j)] = row[Undo(j)]
  BY <1>0, <1>5, <1>10, StepSame
<1>12. UndoMoves
  BY <1>9, <1>11 DEF UndoMoves
<1>13. FailStep
  <2>1. Undo(c) \in Rows /\ Undo(c)[1] # "step"
    BY <1>5, RowIds
  <2> QED
    BY <1>0, <1>6, <1>9, <1>10, <2>1, FailWrite
<1>14. PICK x : x = [s EXCEPT !.pc = pc]
  OBVIOUS
<1>15. x.pc = pc /\ x.id = s.id /\ x.todo = s.todo /\ x.walked = s.walked
  BY <1>1, <1>14 DEF ProcRec
<1>16. proc' = [proc EXCEPT ![p] = x]
  BY <1>0, <1>1, <1>7, <1>14 DEF TypeOK
<1>17. x.todo = Versioned(Rollouts(0, c))'
  <2>1. \A i \in Rollouts(0, c) : row'[Step(i)] = row[Step(i)]
    BY <1>11, StepSets
  <2> QED
    BY <1>4, <1>15, <2>1 DEF Reached, Versioned, Rollouts
<1>18. Absents(c)'
  BY <1>4, <1>5, <1>11, RowIds DEF Reached, Absents
<1>19. ASSUME NEW j \in Rollouts(c, k), row'[Step(j)].previous
       PROVE  Stamped(j, k)' \/ (pc # "predecessors" /\ j = c)
  <2>1. j \in Steps /\ row[Step(j)].previous
    BY <1>11, <1>19, StepSets
  <2>2. CASE j # c
    <3>1. Stamped(j, k)
      BY <1>4, <1>19, <2>1, <2>2 DEF Reached
    <3> QED
      BY <1>11, <2>1, <2>2, <3>1 DEF Stamped, Rollouts
  <2>3. CASE j = c /\ pc = "predecessors"
    <3>1. s.walked = Cardinality(Rollouts(c, k))
      BY <1>4 DEF Reached
    <3>2. row'[Undo(c)].plan /\ row'[Undo(c)].index = -Cardinality(Rollouts(c, k))
      BY <1>7, <1>9, <1>11, <2>3, <3>1
    <3> QED
      BY <2>3, <3>2 DEF Stamped, Rollouts
  <2> QED
    BY <2>2, <2>3
<1>20. x.walked = Cardinality(Rollouts(c, k))
  BY <1>4, <1>15 DEF Reached
<1>21. Reached(x, k, c)'
  BY <1>5, <1>15, <1>17, <1>18, <1>19, <1>20 DEF Reached, Rollouts
<1> QED
  BY <1>2, <1>3, <1>7, <1>11, <1>12, <1>13, <1>15, <1>16, <1>21, LateMove

(* A command or a fault that was used is gone. *)
LEMMA BudgetsOnlyFall ==
    ASSUME TypeOK, [Next]_vars, Undisturbed'
    PROVE  Undisturbed /\ UNCHANGED <<cmds, faults>>
<1>1. faults = MaxFaults
  BY FaultsOnlyFall DEF Undisturbed
<1>2. ASSUME NEW i, \/ Pause(i) \/ Resume(i) \/ Abort(i) \/ Approve(i) \/ Reject(i)
                    \/ SetExcludeFromLearning(i)
      PROVE  FALSE
  BY <1>2, PlanBounds DEF Pause, Resume, Abort, Approve, Reject, Command, SetExcludeFromLearning,
     Undisturbed, TypeOK
<1>3. ASSUME NEW p, Pass(p) PROVE UNCHANGED cmds
  BY <1>3 DEF Pass, Start, Finish, TriggerAbort, Finalize, DispatchActionStep, DispatchFails, Decide,
     PollActionStep, PollAgain, Persist, NextPlanStep, Promote, CancelRead, CancelWrite,
     ListPredecessors, CreateUndo, LinkUndo, GroupUndo, PredecessorsDone
<1>4. ASSUME NEW p, CancelWalk(p) \/ Crash(p) PROVE UNCHANGED cmds
  BY <1>4 DEF CancelWalk, ListFollowers, CancelFollower, FollowersCancelled, Crash
<1>5. ASSUME NEW q, HandleOne(q) \/ Expire(q) PROVE UNCHANGED cmds
  BY <1>5 DEF HandleOne, Expire
<1>6. ASSUME NEW p, NEW i, ListRollouts(p, i) PROVE UNCHANGED cmds
  BY <1>6 DEF ListRollouts
<1>7. ASSUME FetchPending \/ PostResult \/ RunnerRestart \/ UNCHANGED vars PROVE UNCHANGED cmds
  BY <1>7 DEF FetchPending, PostResult, RunnerRestart, vars
<1>8. UNCHANGED cmds
  BY <1>2, <1>3, <1>4, <1>5, <1>6, <1>7 DEF Next
<1> QED
  BY <1>1, <1>8 DEF Undisturbed

LEMMA HandlingNext ==
    ASSUME IInv, IInv', FailInv, HandlingInv, [Next]_vars PROVE HandlingInv'
<1> SUFFICES ASSUME Undisturbed' PROVE Handling'
  BY DEF HandlingInv
<1>1. Handling /\ TypeOK /\ TypeOK' /\ faults' = MaxFaults /\ cmds' = cmds /\ cmds \in Nat
  BY BudgetsOnlyFall, PlanBounds DEF HandlingInv, IInv, Undisturbed, TypeOK
<1>2. \A kind : ~Fault(kind)
  BY <1>1, NoFaultYet
<1>3. ASSUME NEW p \in Engines PROVE proc[p].id[1] \in {"step", "undo"}
  BY <1>1 DEF TypeOK, ProcRec, Rows, Procs
<1>4. ASSUME NEW p \in Engines, Pass(p) PROVE Handling'
  <2>1. CASE CancelRead(p) \/ CancelWrite(p)
    BY <1>1, <1>3, <2>1, HandUndoWalk, HandCancel
  <2>2. CASE ListPredecessors(p)
    BY <1>1, <1>3, <2>2, HandUndoWalk, HandPredecessors
  <2> QED
    BY <1>1, <1>4, <2>1, <2>2, HandDecide, HandPersist, HandRead, HandPromote, HandCreate, HandStamp
       DEF Pass
<1>5. ASSUME NEW p \in Procs, CancelWalk(p) PROVE Handling'
  <2>1. p # Api
    BY <1>1, <1>5 DEF Handling, CancelWalk, ListFollowers, CancelFollower, FollowersCancelled, At
  <2>2. p \in Engines
    BY <2>1 DEF Procs
  <2> QED
    BY <1>1, <1>3, <1>5, <2>2, HandUndoWalk, HandCancel
<1>6. ASSUME NEW p, Crash(p) PROVE FALSE
  BY <1>2, <1>6 DEF Crash
<1>7. ASSUME NEW i, \/ Pause(i) \/ Resume(i) \/ Abort(i) \/ Approve(i) \/ Reject(i)
                    \/ SetExcludeFromLearning(i)
      PROVE  FALSE
  BY <1>1, <1>7, PlanBounds DEF Pause, Resume, Abort, Approve, Reject, Command, SetExcludeFromLearning
<1>8. ASSUME NEW p \in Engines, NEW i \in Rows, ListRollouts(p, i) PROVE Handling'
  BY <1>1, <1>8, HandDecide
<1>9. ASSUME UNCHANGED <<row, proc>> PROVE Handling'
  <2>1. \A k \in Steps : (Failed(k)' <=> Failed(k)) /\ (DoneBefore(k)' <=> DoneBefore(k)) /\ Steady(k)
    BY <1>9 DEF Failed, DoneBefore, Steady
  <2>2. \A p \in Procs : (WalkerAt(proc[p])' <=> WalkerAt(proc[p])) /\ (LateAt(proc[p])' <=> LateAt(proc[p]))
    BY <1>9 DEF WalkerAt, EarlyAt, LateAt
  <2>3. \A p \in Procs : FreshAt(proc[p])'
    BY <1>1, <1>9 DEF Handling, FreshAt
  <2>4. ASSUME NEW k \in Steps, Failed(k), NEW p \in Procs, Cares(proc[p], k) PROVE Cares(proc[p], k)'
    <3>1. PICK x : x = proc[p]
      OBVIOUS
    <3>2. Cares(x, k)'
      BY <2>1, <2>4, <3>1, SteadyKeeps
    <3> QED
      BY <1>9, <3>1, <3>2, ReadLocal
  <2>5. ASSUME NEW k \in Steps, Failed(k), Handled(k) PROVE Handled(k)'
    BY <2>1, <2>5, SteadyKeeps
  <2> QED
    BY <1>1, <1>9, <2>1, <2>2, <2>3, <2>4, <2>5 DEF Handling
<1>10. CASE \/ FetchPending \/ PostResult \/ RunnerRestart
            \/ \E q \in DOMAIN req : HandleOne(q) \/ Expire(q)
            \/ UNCHANGED vars
  BY <1>9, <1>10 DEF FetchPending, PostResult, RunnerRestart, HandleOne, Expire, vars
<1> QED
  BY <1>4, <1>5, <1>6, <1>7, <1>8, <1>10 DEF Next

LEMMA HandlingInit == Init => HandlingInv
<1> SUFFICES ASSUME Init PROVE Handling
  BY DEF HandlingInv
<1>1. PICK m \in 1..Len(Kinds), cleaned \in SUBSET Steps, gate \in BOOLEAN, first \in 0..Len(Kinds) :
         row = CreatePlan(m, cleaned, gate, first)
  BY DEF Init
<1>2. \A k \in Steps : Step(k) \in Rows /\ Step(k)[1] # "undo"
  BY RowIds
<1>3. \A k \in Steps : ~Failed(k)
  BY <1>1, <1>2 DEF CreatePlan, Absent, NewRow, Failed
<1>4. \A p \in Procs : proc[p].pc = "idle"
  BY DEF Init, Idle, Local
<1>5. Api \in Procs
  BY DEF Procs
<1> QED
  BY <1>3, <1>4, <1>5 DEF Handling, FreshAt, WalkerAt, EarlyAt, LateAt, Failing

(* With any number of engines: as long as no operator and no fault         *)
(* interferes and once every pass is over, a step that failed has taken    *)
(* the rest of the plan with it.  No follower is left queued, and every    *)
(* rollout before the failure that has something to go back to has its     *)
(* rollback rollout, numbered backwards from the failure                   *)
(* (triggerAbort, CancelPlanFollowers, RollBackPlanPredecessors).          *)
THEOREM FailureIsHandled == Spec => []FailureHandled
<1>1. IInv /\ IInv' /\ FailInv /\ HandlingInv /\ [Next]_vars => HandlingInv'
  BY HandlingNext
<1>2. HandlingInv => FailureHandled
  <2> SUFFICES ASSUME HandlingInv, Undisturbed, Quiet, NEW k \in Steps, Failed(k), NEW j \in Steps
               PROVE  /\ j > k => ~Queued(j)
                      /\ j < k /\ RollsBack(j) =>
                            row[Undo(j)].plan
                            /\ row[Undo(j)].index = -Cardinality({i \in j..(k - 1) : Kinds[i + 1] = "rollout"})
    BY DEF FailureHandled
  <2>1. \A p \in Procs : ~WalkerAt(proc[p])
    BY DEF Quiet, At, WalkerAt, EarlyAt, LateAt, Failing
  <2>2. Handled(k)
    BY <2>1 DEF HandlingInv, Handling
  <2>3. ASSUME j < k, RollsBack(j) PROVE j \in Rollouts(0, k)
    BY <2>3, RowIds DEF RollsBack, Rollouts
  <2> QED
    BY <2>2, <2>3 DEF Handled, NoneQueued, RollsBack, Stamped, Rollouts
<1> QED
  BY <1>1, <1>2, HandlingInit, PlanInvariant, FailInvariant, PTL DEF Spec

=============================================================================
