------------------------ MODULE RolloutApprovalProofs ------------------------
(* The approval gate, for every set of names, calls, roles and every N.     *)
EXTENDS RolloutApproval, FiniteSetTheorems, TLAPS

(* What a call may rely on when it acts. *)
CallOK(s) ==
    /\ s.pc \in {"record", "count", "roles"} => s.kind = "approve"
    /\ s.pc # "idle" /\ s.kind \in {"approve", "reject"} => MayDecide(s.name)
    /\ s.pc = "roles" => Cardinality(approvals) >= Required
    /\ s.pc = "write" /\ s.kind = "approve" => Enough
    /\ s.pc # "idle" => s.version <= row.version
    /\ s.pc # "idle" /\ s.version = row.version =>
          /\ s.kind = "abort" => row.state \notin {"succeeded", "rolled_back"}
          /\ s.kind \in {"approve", "reject"} => row.state = "pending_approval"

GateInv ==
    /\ \A c \in Calls : CallOK(call[c])
    /\ \A n \in approvals : MayDecide(n)
    /\ row.state \in Released => Enough

-----------------------------------------------------------------------------
(* Types. *)

LEMMA RequiredType == Required \in Nat
BY PolicyAssumption DEF Required

LEMMA CallType == ASSUME TypeOK, NEW c \in Calls PROVE call[c] \in CallRec
BY DEF TypeOK

LEMMA NoCallType == NoCall \in CallRec
BY NamesAssumption DEF NoCall, CallRec, AllKinds

LEMMA RecordUpdate ==
    ASSUME NEW s \in CallRec, NEW pc \in {"idle", "record", "count", "roles", "write"}
    PROVE  /\ [s EXCEPT !.pc = pc] \in CallRec
           /\ [s EXCEPT !.pc = pc].pc = pc
           /\ [s EXCEPT !.pc = pc].kind = s.kind
           /\ [s EXCEPT !.pc = pc].name = s.name
           /\ [s EXCEPT !.pc = pc].version = s.version
BY DEF CallRec

(* A step of one call changes that call and no other. *)
LEMMA OneCall ==
    ASSUME TypeOK, NEW c \in Calls, NEW pc \in {"idle", "record", "count", "roles", "write"},
           Goto(c, pc)
    PROVE  /\ call' \in [Calls -> CallRec]
           /\ \A x \in Calls \ {c} : call'[x] = call[x]
           /\ call'[c].pc = pc /\ call'[c].kind = call[c].kind
           /\ call'[c].name = call[c].name /\ call'[c].version = call[c].version
<1>1. call' = [call EXCEPT ![c] = [call[c] EXCEPT !.pc = pc]]
  BY DEF Goto
<1>2. [call[c] EXCEPT !.pc = pc] \in CallRec
  BY CallType, RecordUpdate
<1>3. call'[c] = [call[c] EXCEPT !.pc = pc]
  BY <1>1 DEF TypeOK
<1>4. call' \in [Calls -> CallRec] /\ \A x \in Calls \ {c} : call'[x] = call[x]
  BY <1>1, <1>2 DEF TypeOK
<1> QED
  BY <1>3, <1>4, CallType, RecordUpdate

LEMMA OneReturn ==
    ASSUME TypeOK, NEW c \in Calls, Return(c)
    PROVE  /\ call' \in [Calls -> CallRec]
           /\ \A x \in Calls \ {c} : call'[x] = call[x]
           /\ call'[c] = NoCall /\ call'[c].pc = "idle"
BY NoCallType DEF TypeOK, Return, NoCall

LEMMA DecisionType == ASSUME TypeOK, NEW k \in AllKinds PROVE Decision(k) \in States
BY DEF Decision, AllKinds, States, TypeOK, Row

LEMMA UpdateType ==
    ASSUME TypeOK, NEW v, NEW st \in States, UpdateRollout(v, st)
    PROVE  row' \in Row /\ row'.state = st /\ row'.version = row.version + 1 /\ v = row.version
BY DEF TypeOK, UpdateRollout, Row

LEMMA EngineUpdate ==
    ASSUME TypeOK, EngineWrites
    PROVE  /\ row' \in Row /\ row'.version = row.version + 1
           /\ UNCHANGED <<approvals, call, refused, left, faults>>
           /\ \/ row.state = "pending" /\ row'.state = "in_progress"
              \/ row.state = "in_progress" /\ row'.state \in {"succeeded", "aborted"}
              \/ row.state = "aborted" /\ row'.state = "rolled_back"
BY UpdateType DEF EngineWrites, States

LEMMA TypeStep == ASSUME TypeOK, [Next]_vars PROVE TypeOK'
<1>1. ASSUME NEW c \in Calls, NEW k \in AllKinds, NEW n \in Names, Begin(c, k, n)
      PROVE  TypeOK'
  <2> DEFINE new == [pc |-> IF k = "approve" THEN "record" ELSE "write",
                     kind |-> k, name |-> n, version |-> row.version]
  <2>1. new \in CallRec
    BY DEF CallRec, TypeOK, Row
  <2>2. call' \in [Calls -> CallRec]
    BY <1>1, <2>1 DEF Begin, TypeOK
  <2> QED
    BY <1>1, <2>2, CallsAssumption DEF Begin, TypeOK
<1>2. ASSUME NEW c \in Calls, RecordApproval(c) PROVE TypeOK'
  <2>1. call' \in [Calls -> CallRec] /\ call[c].name \in Names
    BY <1>2, OneCall, CallType DEF RecordApproval, CallRec
  <2> QED
    BY <1>2, <2>1 DEF RecordApproval, TypeOK
<1>3. ASSUME NEW c \in Calls, CountApprovers(c) PROVE TypeOK'
  <2>1. call' \in [Calls -> CallRec]
    BY <1>3, OneCall, OneReturn DEF CountApprovers
  <2> QED
    BY <1>3, <2>1 DEF CountApprovers, TypeOK
<1>4. ASSUME NEW c \in Calls, CheckRoles(c) PROVE TypeOK'
  <2>1. call' \in [Calls -> CallRec]
    BY <1>4, OneCall, OneReturn DEF CheckRoles
  <2>2. faults' \in 0..MaxFaults
    BY <1>4, CallsAssumption DEF CheckRoles, Fault, TypeOK
  <2> QED
    BY <1>4, <2>1, <2>2 DEF CheckRoles, TypeOK
<1>5. ASSUME NEW c \in Calls, Write(c) PROVE TypeOK'
  <2>1. call' \in [Calls -> CallRec] /\ call[c].kind \in AllKinds
    BY <1>5, OneReturn, CallType DEF Write, CallRec
  <2>2. row' \in Row
    BY <1>5, <2>1, UpdateType, DecisionType DEF Write, TypeOK
  <2> QED
    BY <1>5, <2>1, <2>2 DEF Write, TypeOK
<1>6. ASSUME NEW c \in Calls, Crash(c) PROVE TypeOK'
  <2>1. call' \in [Calls -> CallRec] /\ faults' \in 0..MaxFaults
    BY <1>6, OneReturn, CallsAssumption DEF Crash, Fault, TypeOK
  <2> QED
    BY <1>6, <2>1 DEF Crash, TypeOK
<1>7. CASE EngineWrites
  BY <1>7, EngineUpdate DEF TypeOK
<1>8. CASE UNCHANGED vars
  BY <1>8 DEF vars, TypeOK
<1> QED
  BY <1>1, <1>2, <1>3, <1>4, <1>5, <1>6, <1>7, <1>8 DEF Next, CallStep

(* The approval gate is type correct. *)
THEOREM ApprovalTypeCorrect == Spec => []TypeOK
<1>1. Init => TypeOK
  <2> SUFFICES ASSUME Init PROVE TypeOK
    OBVIOUS
  <2>1. refused \in BOOLEAN
    BY DEF Init
  <2>2. row \in Row /\ left \in 0..MaxCalls /\ faults \in 0..MaxFaults
    BY CallsAssumption DEF Init, Row, States
  <2>3. approvals \subseteq Names /\ call \in [Calls -> CallRec]
    BY NoCallType DEF Init
  <2> QED
    BY <2>1, <2>2, <2>3 DEF TypeOK
<1>2. TypeOK /\ [Next]_vars => TypeOK'
  BY TypeStep
<1> QED
  BY <1>1, <1>2, PTL DEF Spec

-----------------------------------------------------------------------------
(* The gate. *)

(* The approval log only grows, so what was enough stays enough. *)
LEMMA ApprovalsGrow ==
    ASSUME TypeOK, NEW S \in SUBSET Names, approvals \subseteq S
    PROVE  /\ Cardinality(approvals) \in Nat /\ Cardinality(S) \in Nat
           /\ Cardinality(approvals) <= Cardinality(S)
           /\ Covered(approvals) \subseteq Covered(S)
<1>1. IsFiniteSet(S)
  BY NamesAssumption, FS_Subset
<1>2. Cardinality(approvals) <= Cardinality(S) /\ IsFiniteSet(approvals)
  BY <1>1, FS_Subset
<1>3. Covered(approvals) \subseteq Covered(S)
  BY DEF Covered
<1> QED
  BY <1>1, <1>2, <1>3, FS_CardinalityType

(* A call that does not move keeps what it relies on while the log grows   *)
(* and somebody else writes the row.                                       *)
LEMMA CallKeeps ==
    ASSUME TypeOK, TypeOK', NEW x \in Calls, CallOK(call[x]), call'[x] = call[x],
           approvals \subseteq approvals',
           row' = row \/ row'.version = row.version + 1
    PROVE  CallOK(call[x])'
<1> DEFINE s == call[x]
<1>t. /\ s.version \in Nat /\ row.version \in Nat /\ row'.version \in Nat
      /\ approvals' \in SUBSET Names
  BY CallType DEF TypeOK, CallRec, Row
<1>1. /\ Cardinality(approvals) >= Required => Cardinality(approvals') >= Required
      /\ Covered(approvals) \subseteq Covered(approvals')
  BY <1>t, ApprovalsGrow, RequiredType
<1>2. Enough => Enough'
  BY <1>1 DEF Enough, Covered
<1>3. s.version <= row.version => s.version <= row'.version
  BY <1>t
<1>4. s.version <= row.version /\ s.version = row'.version => row' = row
  BY <1>t
<1> QED
  BY <1>1, <1>2, <1>3, <1>4 DEF CallOK, MayDecide

LEMMA IdleCallOK == ASSUME NEW s, s.pc = "idle" PROVE CallOK(s)
BY DEF CallOK

(* What is preserved when one call moves and the row does not. *)
LEMMA CallMoves ==
    ASSUME TypeOK, TypeOK', GateInv, NEW c \in Calls, UNCHANGED row,
           approvals \subseteq approvals', \A n \in approvals' : MayDecide(n),
           \A x \in Calls \ {c} : call'[x] = call[x], CallOK(call[c])'
    PROVE  GateInv'
<1>1. \A x \in Calls : CallOK(call[x])'
  BY CallKeeps DEF GateInv
<1>2. Enough => Enough'
  BY ApprovalsGrow, RequiredType DEF Enough, Covered, TypeOK
<1>3. (\A n \in approvals : MayDecide(n))'
  BY DEF MayDecide
<1> QED
  BY <1>1, <1>2, <1>3 DEF GateInv

(* What is preserved when the row is written. *)
LEMMA RowMoves ==
    ASSUME TypeOK, TypeOK', GateInv, row'.version = row.version + 1, UNCHANGED approvals,
           \A x \in Calls : call'[x] = call[x] \/ call'[x].pc = "idle",
           row'.state \in Released => Enough
    PROVE  GateInv'
<1>1. ASSUME NEW x \in Calls PROVE CallOK(call[x])'
  <2>1. CASE call'[x] = call[x]
    BY <2>1, CallKeeps DEF GateInv
  <2>2. CASE call'[x].pc = "idle"
    BY <2>2 DEF CallOK
  <2> QED
    BY <2>1, <2>2
<1>2. Enough' = Enough
  BY DEF Enough, Covered
<1> QED
  BY <1>1, <1>2 DEF GateInv, MayDecide

LEMMA GateStep == ASSUME TypeOK, TypeOK', GateInv, [Next]_vars PROVE GateInv'
<1>r. row \in Row /\ row.version \in Nat
  BY DEF TypeOK, Row
<1>1. ASSUME NEW c \in Calls, NEW k \in AllKinds, NEW n \in Names, Begin(c, k, n)
      PROVE  GateInv'
  <2>1. /\ \A x \in Calls \ {c} : call'[x] = call[x]
        /\ call'[c] = [pc |-> IF k = "approve" THEN "record" ELSE "write",
                       kind |-> k, name |-> n, version |-> row.version]
        /\ UNCHANGED <<row, approvals>> /\ Permitted(k, n)
    BY <1>1 DEF Begin, TypeOK
  <2>2. CallOK(call[c])'
    BY <2>1, <1>r DEF CallOK, Permitted, AllKinds, MayDecide
  <2> QED
    BY <2>1, <2>2, CallMoves DEF GateInv
<1>2. ASSUME NEW c \in Calls, RecordApproval(c) PROVE GateInv'
  <2>1. /\ call[c].pc = "record" /\ approvals' = approvals \cup {call[c].name}
        /\ UNCHANGED row
        /\ \A x \in Calls \ {c} : call'[x] = call[x]
        /\ call'[c].pc = "count" /\ call'[c].kind = call[c].kind
        /\ call'[c].name = call[c].name /\ call'[c].version = call[c].version
    BY <1>2, OneCall DEF RecordApproval, At
  <2>2. CallOK(call[c]) /\ MayDecide(call[c].name) /\ call[c].kind = "approve"
    BY <2>1 DEF GateInv, CallOK
  <2>3. CallOK(call[c])'
    BY <2>1, <2>2 DEF CallOK, MayDecide
  <2> QED
    BY <2>1, <2>2, <2>3, CallMoves DEF GateInv
<1>3. ASSUME NEW c \in Calls, CountApprovers(c) PROVE GateInv'
  <2>1. CASE Return(c)
    BY <1>3, <2>1, OneReturn, CallMoves, IdleCallOK DEF CountApprovers, GateInv, CallOK
  <2>2. CASE /\ Cardinality(approvals) >= Required
             /\ Goto(c, IF RequiredRoles = {} THEN "write" ELSE "roles")
    <3>1. /\ call[c].pc = "count" /\ UNCHANGED <<row, approvals>> /\ CallOK(call[c])
          /\ \A x \in Calls \ {c} : call'[x] = call[x]
          /\ call'[c].pc = IF RequiredRoles = {} THEN "write" ELSE "roles"
          /\ call'[c].kind = call[c].kind
          /\ call'[c].name = call[c].name /\ call'[c].version = call[c].version
      BY <1>3, <2>2, OneCall DEF CountApprovers, At, GateInv
    <3>2. RequiredRoles = {} => Enough
      BY <2>2 DEF Enough
    <3>3. Enough' = Enough /\ Cardinality(approvals') = Cardinality(approvals)
      BY <3>1 DEF Enough, Covered
    <3>4. CallOK(call[c])'
      BY <2>2, <3>1, <3>2, <3>3 DEF CallOK, MayDecide
    <3> QED
      BY <3>1, <3>4, CallMoves DEF GateInv
  <2> QED
    BY <1>3, <2>1, <2>2 DEF CountApprovers
<1>4. ASSUME NEW c \in Calls, CheckRoles(c) PROVE GateInv'
  <2>1. CASE Return(c)
    BY <1>4, <2>1, OneReturn, CallMoves, IdleCallOK DEF CheckRoles, GateInv, CallOK
  <2>2. CASE Goto(c, "write") /\ RequiredRoles \subseteq Covered(approvals)
    <3>1. /\ call[c].pc = "roles" /\ UNCHANGED <<row, approvals>> /\ CallOK(call[c])
          /\ \A x \in Calls \ {c} : call'[x] = call[x]
          /\ call'[c].pc = "write" /\ call'[c].kind = call[c].kind
          /\ call'[c].name = call[c].name /\ call'[c].version = call[c].version
      BY <1>4, <2>2, OneCall DEF CheckRoles, At, GateInv
    <3>2. Enough
      BY <2>2, <3>1 DEF Enough, CallOK
    <3>3. Enough' = Enough
      BY <3>1 DEF Enough, Covered
    <3>4. CallOK(call[c])'
      BY <3>1, <3>2, <3>3 DEF CallOK, MayDecide
    <3> QED
      BY <3>1, <3>4, CallMoves DEF GateInv
  <2>3. ASSUME NEW S \in SUBSET approvals, RequiredRoles \subseteq Covered(S)
        PROVE  RequiredRoles \subseteq Covered(approvals)
    BY <2>3 DEF Covered
  <2> QED
    BY <1>4, <2>1, <2>2, <2>3 DEF CheckRoles
<1>5. ASSUME NEW c \in Calls, Write(c) PROVE GateInv'
  <2>1. /\ call[c].pc = "write" /\ UNCHANGED approvals /\ CallOK(call[c])
        /\ call[c].kind \in AllKinds
        /\ \A x \in Calls \ {c} : call'[x] = call[x]
        /\ call'[c].pc = "idle"
    BY <1>5, OneReturn, CallType DEF Write, At, GateInv, CallRec
  <2>2. CASE UNCHANGED row
    BY <2>1, <2>2, CallMoves DEF GateInv, CallOK
  <2>3. CASE UpdateRollout(call[c].version, Decision(call[c].kind))
    <3>1. row'.version = row.version + 1 /\ row'.state = Decision(call[c].kind)
      BY <2>1, <2>3, UpdateType, DecisionType
    <3>2. row'.state \in Released => call[c].kind = "approve" \/ row.state \in Released
      BY <2>1, <3>1 DEF Decision, Released, AllKinds
    <3>3. row'.state \in Released => Enough
      BY <2>1, <3>2 DEF CallOK, GateInv
    <3> QED
      BY <2>1, <3>1, <3>3, RowMoves
  <2> QED
    BY <1>5, <2>2, <2>3 DEF Write
<1>6. ASSUME NEW c \in Calls, Crash(c) PROVE GateInv'
  BY <1>6, OneReturn, CallMoves, IdleCallOK DEF Crash, GateInv, CallOK
<1>7. CASE EngineWrites
  <2>1. row'.state \in Released => row.state \in Released
    BY <1>7, EngineUpdate DEF Released
  <2> QED
    BY <1>7, <2>1, EngineUpdate, RowMoves DEF GateInv
<1>8. CASE UNCHANGED vars
  <2>1. UNCHANGED <<row, approvals, call>>
    BY <1>8 DEF vars
  <2> QED
    BY <2>1 DEF GateInv, CallOK, Enough, Covered, MayDecide
<1> QED
  BY <1>1, <1>2, <1>3, <1>4, <1>5, <1>6, <1>7, <1>8 DEF Next, CallStep

LEMMA GateHolds == Spec => []GateInv
<1>1. Init => GateInv
  BY DEF Init, GateInv, CallOK, NoCall, Released
<1>2. TypeOK /\ TypeOK' /\ GateInv /\ [Next]_vars => GateInv'
  BY GateStep
<1> QED
  BY <1>1, <1>2, ApprovalTypeCorrect, PTL DEF Spec

(* However many calls run at once and whichever of them die, the engine    *)
(* only gets a rollout with N recorded approvals that cover the required   *)
(* roles and do not include the requester.                                 *)
THEOREM OnlyAuthorisedRuns == Spec => []ApprovalInv
<1>1. GateInv => Authorised
  BY DEF GateInv, Authorised, MayDecide
<1>2. TypeOK /\ Authorised => ApprovalInv
  BY DEF ApprovalInv
<1> QED
  BY <1>1, <1>2, GateHolds, ApprovalTypeCorrect, PTL

(* A rejection or an abort is final for every approval still under way.    *)
THEOREM DecisionsStand == Spec => DecisionStands
<1>1. TypeOK /\ GateInv /\ [Next]_vars =>
        [row.state \in {"rejected", "aborted", "rolled_back"} => row'.state \notin Released]_vars
  <2> SUFFICES ASSUME TypeOK, GateInv, [Next]_vars,
                      row.state \in {"rejected", "aborted", "rolled_back"}
               PROVE  row'.state \notin Released
    OBVIOUS
  <2>1. CASE row' = row
    BY <2>1 DEF Released
  <2>2. ASSUME NEW c \in Calls, call[c].pc = "write",
               UpdateRollout(call[c].version, Decision(call[c].kind))
        PROVE  row'.state \notin Released
    <3>1. call[c].kind \in AllKinds /\ call[c].version = row.version
      BY <2>2, CallType DEF CallRec, UpdateRollout
    <3>2. call[c].kind \in {"abort", "exclude"}
      BY <2>2, <3>1 DEF GateInv, CallOK, AllKinds
    <3> QED
      BY <2>2, <3>2 DEF UpdateRollout, Decision, Released
  <2>3. CASE EngineWrites
    BY <2>3, EngineUpdate DEF Released
  <2> QED
    BY <2>1, <2>2, <2>3 DEF Next, CallStep, Begin, RecordApproval, CountApprovers, CheckRoles,
       Write, Crash, At, vars
<1> QED
  BY <1>1, GateHolds, ApprovalTypeCorrect, PTL DEF Spec, DecisionStands

-----------------------------------------------------------------------------
(* The quorum. *)

Carries(s) == s.pc \in {"record", "count", "roles", "write"} /\ s.kind = "approve"

(* Enough approvals are on record and nobody was told that the release     *)
(* failed: some call that approves is still under way, and it will find    *)
(* enough.                                                                 *)
QuorumInv ==
    faults = MaxFaults /\ ~refused /\ Enough /\ row.state = "pending_approval" =>
        \E c \in Calls : Carries(call[c])

(* A step of a call that leaves the row alone and adds nothing to the log. *)
LEMMA CarrierStays ==
    ASSUME QuorumInv, NEW c \in Calls, UNCHANGED <<row, approvals>>, faults' = faults,
           \A x \in Calls \ {c} : call'[x] = call[x],
           refused' = refused \/ refused' \/ Carries(call'[c]),
           Carries(call[c]) /\ Enough => Carries(call'[c]) \/ refused'
    PROVE  QuorumInv'
<1>1. Enough' = Enough
  BY DEF Enough, Covered
<1> QED
  BY <1>1 DEF QuorumInv, Carries

(* A fault, and a row that is no longer waiting, end the obligation.       *)
LEMMA NothingOwed ==
    ASSUME faults' # MaxFaults \/ row'.state # "pending_approval"
    PROVE  QuorumInv'
BY DEF QuorumInv

LEMMA FaultSpent ==
    ASSUME TypeOK, NEW kind, Fault(kind) PROVE faults' # MaxFaults
BY CallsAssumption DEF TypeOK, Fault

LEMMA QuorumStep ==
    ASSUME TypeOK, GateInv, QuorumInv, [Next]_vars PROVE QuorumInv'
<1>1. ASSUME NEW c \in Calls, NEW k \in AllKinds, NEW n \in Names, Begin(c, k, n)
      PROVE  QuorumInv'
  <2>1. /\ \A x \in Calls \ {c} : call'[x] = call[x]
        /\ call[c].pc = "idle" /\ refused' = (refused /\ k # "approve")
        /\ call'[c].kind = k /\ call'[c].pc = IF k = "approve" THEN "record" ELSE "write"
        /\ UNCHANGED <<row, approvals, faults>>
    BY <1>1 DEF Begin, TypeOK, At
  <2>2. ~Carries(call[c])
    BY <2>1 DEF Carries
  <2>3. k = "approve" => Carries(call'[c])
    BY <2>1 DEF Carries
  <2>4. k # "approve" => refused' = refused
    BY <2>1 DEF TypeOK
  <2> QED
    BY <2>1, <2>2, <2>3, <2>4, CarrierStays
<1>2. ASSUME NEW c \in Calls, RecordApproval(c) PROVE QuorumInv'
  <2>1. /\ call[c].pc = "record"
        /\ call'[c].pc = "count" /\ call'[c].kind = call[c].kind
    BY <1>2, OneCall DEF RecordApproval, At
  <2>2. Carries(call'[c])
    BY <2>1 DEF Carries, GateInv, CallOK
  <2> QED
    BY <2>2 DEF QuorumInv
<1>3. ASSUME NEW c \in Calls, CountApprovers(c) PROVE QuorumInv'
  <2>1. UNCHANGED <<row, approvals, refused, faults>> /\ call[c].pc = "count"
    BY <1>3 DEF CountApprovers, At
  <2>2. CASE Return(c) /\ ~(Cardinality(approvals) >= Required)
    BY <2>1, <2>2, OneReturn, CarrierStays DEF Enough
  <2>3. CASE Goto(c, IF RequiredRoles = {} THEN "write" ELSE "roles")
    <3>1. /\ \A x \in Calls \ {c} : call'[x] = call[x]
          /\ call'[c].pc \in {"roles", "write"} /\ call'[c].kind = call[c].kind
      BY <2>3, OneCall
    <3>2. Carries(call[c]) => Carries(call'[c])
      BY <3>1 DEF Carries
    <3> QED
      BY <2>1, <3>1, <3>2, CarrierStays
  <2> QED
    BY <1>3, <2>2, <2>3 DEF CountApprovers
<1>4. ASSUME NEW c \in Calls, CheckRoles(c) PROVE QuorumInv'
  <2>1. UNCHANGED <<row, approvals, refused>> /\ call[c].pc = "roles"
    BY <1>4 DEF CheckRoles, At
  <2>2. CASE Return(c) /\ ~(RequiredRoles \subseteq Covered(approvals)) /\ UNCHANGED faults
    BY <2>1, <2>2, OneReturn, CarrierStays DEF Enough
  <2>3. CASE Goto(c, "write") /\ UNCHANGED faults
    <3>1. /\ \A x \in Calls \ {c} : call'[x] = call[x]
          /\ call'[c].pc = "write" /\ call'[c].kind = call[c].kind
      BY <2>3, OneCall
    <3>2. Carries(call[c]) => Carries(call'[c])
      BY <3>1 DEF Carries
    <3> QED
      BY <2>1, <2>3, <3>1, <3>2, CarrierStays
  <2>4. CASE Fault("resolver")
    BY <2>4, FaultSpent, NothingOwed
  <2> QED
    BY <1>4, <2>2, <2>3, <2>4 DEF CheckRoles
<1>5. ASSUME NEW c \in Calls, Write(c) PROVE QuorumInv'
  <2>1. /\ call[c].pc = "write" /\ UNCHANGED <<approvals, faults>> /\ call[c].kind \in AllKinds
        /\ \A x \in Calls \ {c} : call'[x] = call[x]
    BY <1>5, OneReturn, CallType DEF Write, At, CallRec
  <2>2. CASE UNCHANGED row /\ refused' = (refused \/ call[c].kind = "approve")
    <3>1. Carries(call[c]) => refused'
      BY <2>2 DEF Carries
    <3>2. call[c].kind # "approve" => refused' = refused
      BY <2>2 DEF TypeOK
    <3> QED
      BY <2>1, <2>2, <3>1, <3>2, CarrierStays DEF Carries
  <2>3. CASE UpdateRollout(call[c].version, Decision(call[c].kind)) /\ UNCHANGED refused
    <3>1. row'.state = Decision(call[c].kind)
      BY <2>1, <2>3, UpdateType, DecisionType
    <3>2. CASE call[c].kind # "exclude"
      <4>1. row'.state # "pending_approval"
        BY <2>1, <3>1, <3>2 DEF Decision, AllKinds
      <4> QED
        BY <4>1, NothingOwed
    <3>3. CASE call[c].kind = "exclude"
      <4>1. row'.state = row.state /\ ~Carries(call[c])
        BY <3>1, <3>3 DEF Decision, Carries
      <4>2. Enough' = Enough
        BY <2>1 DEF Enough, Covered
      <4> QED
        BY <2>1, <2>3, <4>1, <4>2 DEF QuorumInv
    <3> QED
      BY <3>2, <3>3
  <2> QED
    BY <1>5, <2>2, <2>3 DEF Write
<1>6. ASSUME NEW c \in Calls, Crash(c) PROVE QuorumInv'
  BY <1>6, FaultSpent, NothingOwed DEF Crash
<1>7. CASE EngineWrites
  BY <1>7, EngineUpdate, NothingOwed
<1>8. CASE UNCHANGED vars
  BY <1>8 DEF vars, QuorumInv, Carries, Enough, Covered
<1> QED
  BY <1>1, <1>2, <1>3, <1>4, <1>5, <1>6, <1>7, <1>8 DEF Next, CallStep

(* However N approvals race with each other and with writes of the row     *)
(* that decide nothing, the rollout does not stay in pending_approval with *)
(* its quorum on record (Approve counts after it records): some call sees  *)
(* them all and releases it, or its approver is told that it failed,       *)
(* unless a call dies or a role lookup fails.                              *)
THEOREM NoQuorumLost == Spec => []QuorumIsActedOn
<1>1. Init => QuorumInv
  BY FS_EmptySet, PolicyAssumption DEF Init, QuorumInv, Enough, Required
<1>2. TypeOK /\ GateInv /\ QuorumInv /\ [Next]_vars => QuorumInv'
  BY QuorumStep
<1>3. QuorumInv => QuorumIsActedOn
  BY DEF QuorumInv, Carries, QuorumIsActedOn, At
<1> QED
  BY <1>1, <1>2, <1>3, GateHolds, ApprovalTypeCorrect, PTL DEF Spec
=============================================================================
