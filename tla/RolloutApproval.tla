--------------------------- MODULE RolloutApproval ---------------------------
(***************************************************************************)
(* The approval gate of one rollout: API calls that approve, reject or     *)
(* abort it, or flip its opt-out from learning, run concurrently.  Each is *)
(* a read of the row, reads and writes of the append-only approval log,    *)
(* and a write that carries the version of the first read; the engine      *)
(* moves the row as soon as it is pending.                                 *)
(***************************************************************************)
EXTENDS Integers, FiniteSets

CONSTANTS
    Names,            \* actor strings as tokens and SSO emit them
    Fold,             \* per name: the name without case and blanks
    Requester,        \* RequestedBy of the rollout
    RequiredApprovals,\* the N of N-of-M; below 1 counts as 1
    RequiredRoles,    \* roles the group's policy wants among the approvers
    RolesOf,          \* per name: its RBAC roles
    Calls,            \* concurrent API calls
    Kinds,            \* the kinds of call that may be made
    Faults,           \* "crash": a call dies; "resolver": a role lookup fails
    MaxCalls,         \* bound: number of calls
    MaxFaults         \* bound: number of faults

AllKinds == {"approve", "reject", "abort", "exclude"}

ASSUME NamesAssumption == IsFiniteSet(Names) /\ Requester \in Names
ASSUME PolicyAssumption == RequiredApprovals \in Nat /\ Kinds \subseteq AllKinds
ASSUME CallsAssumption == MaxCalls \in Nat /\ MaxFaults \in Nat

VARIABLES
    row,       \* the stored rollout: state and version
    approvals, \* the names in rollout_approvals
    call,      \* per API call: where it is and what it read
    refused,   \* history: no approve call since the one that was told its write failed
    left,      \* calls left
    faults     \* faults left

vars == <<row, approvals, call, refused, left, faults>>

States == {"pending_approval", "pending", "in_progress", "succeeded",
           "rejected", "aborted", "rolled_back"}

Row == [state: States, version: Nat]

CallRec == [pc: {"idle", "record", "count", "roles", "write"},
            kind: AllKinds, name: Names, version: Nat]

NoCall == [pc |-> "idle", kind |-> "abort", name |-> Requester, version |-> 0]

Init ==
    /\ row = [state |-> "pending_approval", version |-> 1]
    /\ approvals = {}
    /\ call = [c \in Calls |-> NoCall]
    /\ refused = FALSE
    /\ left = MaxCalls
    /\ faults = MaxFaults

-----------------------------------------------------------------------------
Fault(kind) == kind \in Faults /\ faults > 0 /\ faults' = faults - 1

At(c, pc) == call[c].pc = pc
Goto(c, pc) == call' = [call EXCEPT ![c].pc = pc]
Return(c) == call' = [call EXCEPT ![c] = NoCall]

(* Mutant: the write does not compare the version. *)
UpdateRolloutBlind(version, state) ==
    row' = [state |-> state, version |-> row.version + 1]

(* UpdateRollout commits only on the version that was read. *)
UpdateRollout(version, state) ==
    /\ version = row.version
    /\ row' = [state |-> state, version |-> version + 1]

Required == IF RequiredApprovals < 1 THEN 1 ELSE RequiredApprovals

(* Two-person rule, compared without case. *)
MayDecide(n) == Fold[n] # Fold[Requester]

(* SetExcludeFromLearning is permissive about the state of the row. *)
Permitted(kind, n) ==
    /\ kind = "abort" => row.state \notin {"succeeded", "rolled_back"}
    /\ kind \in {"approve", "reject"} => row.state = "pending_approval" /\ MayDecide(n)

(* A call reads the row; one that is not permitted returns an error. *)
Begin(c, kind, n) ==
    /\ At(c, "idle") /\ left > 0 /\ kind \in Kinds
    /\ Permitted(kind, n)
    /\ call' = [call EXCEPT ![c] =
                  [pc |-> IF kind = "approve" THEN "record" ELSE "write",
                   kind |-> kind, name |-> n, version |-> row.version]]
    /\ left' = left - 1
    /\ refused' = (refused /\ kind # "approve")
    /\ UNCHANGED <<row, approvals, faults>>

(* RecordRolloutApproval: the same name twice is one row. *)
RecordApproval(c) ==
    /\ At(c, "record")
    /\ approvals' = approvals \cup {call[c].name}
    /\ Goto(c, "count")
    /\ UNCHANGED <<row, refused, left, faults>>

(* Mutant: one approver short is enough. *)
CountApproversShort(c) ==
    /\ At(c, "count")
    /\ IF Cardinality(approvals) + 1 >= Required
       THEN Goto(c, IF RequiredRoles = {} THEN "write" ELSE "roles")
       ELSE Return(c)
    /\ UNCHANGED <<row, approvals, refused, left, faults>>

(* Mutant: the call counts as the last one only if it completes the count. *)
CountApproversExactly(c) ==
    /\ At(c, "count")
    /\ IF Cardinality(approvals) = Required
       THEN Goto(c, IF RequiredRoles = {} THEN "write" ELSE "roles")
       ELSE Return(c)
    /\ UNCHANGED <<row, approvals, refused, left, faults>>

(* CountRolloutApprovers: below the threshold the call is done. *)
CountApprovers(c) ==
    /\ At(c, "count")
    /\ IF Cardinality(approvals) >= Required
       THEN Goto(c, IF RequiredRoles = {} THEN "write" ELSE "roles")
       ELSE Return(c)
    /\ UNCHANGED <<row, approvals, refused, left, faults>>

Covered(S) == UNION {RolesOf[n] : n \in S}

(* ListRolloutApprovers and the role of each; an approver whose roles      *)
(* cannot be resolved counts as holding none.                              *)
CheckRoles(c) ==
    /\ At(c, "roles")
    /\ \/ /\ IF RequiredRoles \subseteq Covered(approvals) THEN Goto(c, "write") ELSE Return(c)
          /\ UNCHANGED faults
       \/ /\ Fault("resolver")
          /\ \E resolved \in SUBSET approvals \ {approvals} :
                IF RequiredRoles \subseteq Covered(resolved) THEN Goto(c, "write") ELSE Return(c)
    /\ UNCHANGED <<row, approvals, refused, left>>

(* The state the write of a call leaves; the flip keeps the one it read. *)
Decision(kind) ==
    CASE kind = "approve" -> "pending"
      [] kind = "reject"  -> "rejected"
      [] kind = "abort"   -> "aborted"
      [] kind = "exclude" -> row.state

(* The write of the decision; a call that lost the race returns an error. *)
Write(c) ==
    /\ At(c, "write")
    /\ \/ UpdateRollout(call[c].version, Decision(call[c].kind)) /\ UNCHANGED refused
       \/ /\ call[c].version # row.version /\ UNCHANGED row
          /\ refused' = (refused \/ call[c].kind = "approve")
    /\ Return(c)
    /\ UNCHANGED <<approvals, left, faults>>

CallStep(c) == RecordApproval(c) \/ CountApprovers(c) \/ CheckRoles(c) \/ Write(c)

(* The request is cancelled or the process dies between two store calls. *)
Crash(c) ==
    /\ ~At(c, "idle")
    /\ Fault("crash")
    /\ Return(c)
    /\ UNCHANGED <<row, approvals, refused, left>>

(* What the engine makes of the row, one write at a time. *)
EngineWrites ==
    /\ \/ row.state = "pending" /\ UpdateRollout(row.version, "in_progress")
       \/ row.state = "in_progress" /\ UpdateRollout(row.version, "succeeded")
       \/ row.state = "in_progress" /\ UpdateRollout(row.version, "aborted")
       \/ row.state = "aborted" /\ UpdateRollout(row.version, "rolled_back")
    /\ UNCHANGED <<approvals, call, refused, left, faults>>

Next ==
    \/ \E c \in Calls, kind \in AllKinds, n \in Names : Begin(c, kind, n)
    \/ \E c \in Calls : CallStep(c) \/ Crash(c)
    \/ EngineWrites

Spec == Init /\ [][Next]_vars

-----------------------------------------------------------------------------
Released == {"pending", "in_progress", "succeeded"}

(* Every variable stays in its type. *)
TypeOK ==
    /\ row \in Row
    /\ approvals \subseteq Names
    /\ call \in [Calls -> CallRec]
    /\ refused \in BOOLEAN
    /\ left \in 0..MaxCalls
    /\ faults \in 0..MaxFaults

Enough == Cardinality(approvals) >= Required /\ RequiredRoles \subseteq Covered(approvals)

(* A rollout the engine may work on has its N recorded approvals, covering *)
(* the required roles, none of them by the requester under any spelling    *)
(* (Approve), however approvals, rejections and aborts interleave.         *)
Authorised ==
    row.state \in Released => Enough /\ \A n \in approvals : Fold[n] # Fold[Requester]

(* Both: the types, and that only an authorised rollout runs (Approve).    *)
ApprovalInv == TypeOK /\ Authorised

(* A rejection or an abort that got in first is never undone by an         *)
(* approval that was already under way.                                    *)
DecisionStands ==
    [][row.state \in {"rejected", "aborted", "rolled_back"} => row'.state \notin Released]_vars

(* No quorum is lost in silence: unless a call died or a role lookup       *)
(* failed, the calls that together reach N leave the rollout released (or  *)
(* rejected, or aborted), whichever of them counts last, or the approver   *)
(* whose call should have released it was told that its write failed       *)
(* (Approve returns the error: SetExcludeFromLearning wrote the row in     *)
(* between) and nobody has called Approve since.                           *)
QuorumIsActedOn ==
    /\ faults = MaxFaults /\ ~refused
    /\ \A c \in Calls : At(c, "idle")
    /\ Enough
    => row.state # "pending_approval"

=============================================================================
