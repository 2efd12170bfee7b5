----------------------------- MODULE AuditChain -----------------------------
(***************************************************************************)
(* The audit log of one tenant (internal/audit/chain, the SQLite store and *)
(* its retention sweep, services.Record).  Every event becomes a row that  *)
(* carries a sequence number, the hash of the row before it and its own    *)
(* hash; with an audit key the hash covers the timestamp too and a         *)
(* high-water mark follows the newest row.  Appends are serialized by a    *)
(* mutex, but an append is several database statements, retention prunes   *)
(* in a transaction that does not take the mutex, and verification reads   *)
(* the rows and the mark one after the other.                              *)
(*                                                                         *)
(* Each event names one Record call.  A hash is the tuple of what it       *)
(* covers: equal hashes, equal content.  The key is given at a start and   *)
(* stays (withdrawing it makes verification fail closed, by design).       *)
(***************************************************************************)
EXTENDS Integers

CONSTANTS
  Events,     \* audit events, one Record call each
  MaxClock,   \* bound on the clock
  MaxFaults,  \* failed statements and crashes together
  Nobody      \* the mutex is free

ASSUME ChainAssumption ==
  /\ MaxClock \in Nat
  /\ MaxFaults \in Nat
  /\ Nobody \notin Events

VARIABLES
  rows,        \* audit_events: the set of chained rows
  head,        \* audit_chain_head: the high-water mark
  checkpoints, \* audit_chain_checkpoints
  mu,          \* holder of auditChainMu
  key,         \* the process has an audit key
  clock,
  rec,         \* rec[e]: where Record(e) is, its timestamp and the head it read
  ver,         \* a verification under way, or its outcome
  lost,        \* seq of a lost row that retention has not passed yet, 0 if none
  emptied,     \* retention has deleted the newest row at some time
  overlap,     \* two Record calls have been under way at the same time
  faults

vars == <<rows, head, checkpoints, mu, key, clock, rec, ver, lost, emptied, overlap, faults>>

Genesis == <<>>
NoHead == [seq |-> 0, hash |-> Genesis]
InMutex == {"read", "insert", "head"}
UnderWay == {"stamped"} \cup InMutex
RecPC == {"idle", "stamped"} \cup InMutex \cup {"done", "failed"}

\* RowHash and RowHashV2: the keyed hash covers the timestamp.
RowHash(id, ts, keyed, seq, prev) ==
  IF keyed THEN <<"hmac", id, ts, seq, prev>> ELSE <<"sha", id, seq, prev>>

HeadOf(r) == [seq |-> r.seq, hash |-> r.hash]
IsNewest(r, rs) == \A q \in rs : q.seq <= r.seq

\* Where the walk over the rows ends; the start of the chain if there are none.
Newest(rs) ==
  IF rs = {} THEN NoHead ELSE HeadOf(CHOOSE r \in rs : IsNewest(r, rs))

TypeOK ==
  /\ \A r \in rows : /\ r.id \in Events /\ r.ts \in Nat /\ r.keyed \in BOOLEAN
                     /\ r.seq \in Nat \ {0}
  /\ head.seq \in Nat
  /\ \A c \in checkpoints : c.seq \in Nat \ {0}
  /\ mu \in Events \cup {Nobody}
  /\ key \in BOOLEAN
  /\ clock \in Nat
  /\ \A e \in Events : /\ rec[e].pc \in RecPC /\ rec[e].ts \in Nat
                       /\ rec[e].prev.seq \in Nat
  /\ DOMAIN rec = Events
  /\ lost \in Nat
  /\ emptied \in BOOLEAN /\ overlap \in BOOLEAN
  /\ faults \in Nat

Idle == [pc |-> "idle", ts |-> 0, prev |-> NoHead]
NoVerification ==
  [pc |-> "idle", rows |-> {}, lost |-> 0, alarms |-> {}]

Init ==
  /\ rows = {}
  /\ head = NoHead
  /\ checkpoints = {}
  /\ mu = Nobody
  /\ key \in BOOLEAN
  /\ clock = 1
  /\ rec = [e \in Events |-> Idle]
  /\ ver = NoVerification
  /\ lost = 0
  /\ emptied = FALSE /\ overlap = FALSE
  /\ faults = 0

Tick ==
  /\ clock < MaxClock
  /\ clock' = clock + 1
  /\ UNCHANGED <<rows, head, checkpoints, mu, key, rec, ver, lost, emptied, overlap, faults>>

-----------------------------------------------------------------------------
(* Record and CreateAuditEvent *)

RecGoto(e, pc, prev) ==
  rec' = [rec EXCEPT ![e] = [pc |-> pc, ts |-> rec[e].ts, prev |-> prev]]

\* Record takes its timestamp before it asks for the mutex.
Stamp(e) ==
  /\ rec[e].pc = "idle"
  /\ rec' = [rec EXCEPT ![e] = [pc |-> "stamped", ts |-> clock, prev |-> NoHead]]
  /\ overlap' = (overlap \/ \E d \in Events : rec[d].pc \in UnderWay)
  /\ UNCHANGED <<rows, head, checkpoints, mu, key, clock, ver, lost, emptied, faults>>

(* Mutant: appends are not serialized. *)
LockFree(e) ==
  /\ rec[e].pc = "stamped"
  /\ mu' = e
  /\ RecGoto(e, "read", NoHead)
  /\ UNCHANGED <<rows, head, checkpoints, key, clock, ver, lost, emptied, overlap, faults>>

Lock(e) ==
  /\ rec[e].pc = "stamped"
  /\ mu = Nobody
  /\ mu' = e
  /\ RecGoto(e, "read", NoHead)
  /\ UNCHANGED <<rows, head, checkpoints, key, clock, ver, lost, emptied, overlap, faults>>

\* SELECT seq, row_hash ... ORDER BY seq DESC LIMIT 1; no row, a new chain.
ReadNewest(e) ==
  /\ rec[e].pc = "read"
  /\ \/ /\ rows = {}
        /\ RecGoto(e, "insert", NoHead)
     \/ \E r \in rows : /\ IsNewest(r, rows)
                        /\ RecGoto(e, "insert", HeadOf(r))
  /\ UNCHANGED <<rows, head, checkpoints, mu, key, clock, ver, lost, emptied, overlap, faults>>

\* The row that Record(e) inserts after the head it read.
NewRow(e) ==
  LET seq == rec[e].prev.seq + 1
      prev == rec[e].prev.hash
  IN [id |-> e, ts |-> rec[e].ts, keyed |-> key, seq |-> seq, prev |-> prev,
      hash |-> RowHash(e, rec[e].ts, key, seq, prev)]

\* The row is stored; without a key that is all, and the mutex is released.
Insert(e) ==
  /\ rec[e].pc = "insert"
  /\ rows' = rows \cup {NewRow(e)}
  /\ IF key
     THEN /\ RecGoto(e, "head", rec[e].prev)
          /\ UNCHANGED mu
     ELSE /\ RecGoto(e, "done", rec[e].prev)
          /\ mu' = Nobody
  /\ UNCHANGED <<head, checkpoints, key, clock, ver, lost, emptied, overlap, faults>>

\* The upsert of the high-water mark, a statement of its own.
PutHead(e) ==
  /\ rec[e].pc = "head"
  /\ head' = HeadOf(NewRow(e))
  /\ RecGoto(e, "done", rec[e].prev)
  /\ mu' = Nobody
  /\ UNCHANGED <<rows, checkpoints, key, clock, ver, lost, emptied, overlap, faults>>

\* Any of the statements fails: Record returns the error and lets go.  When it
\* is the last one, the row is stored all the same.
StatementFails(e) ==
  /\ rec[e].pc \in InMutex
  /\ faults < MaxFaults
  /\ faults' = faults + 1
  /\ RecGoto(e, "failed", rec[e].prev)
  /\ mu' = Nobody
  /\ UNCHANGED <<rows, head, checkpoints, key, clock, ver, lost, emptied, overlap>>

\* The process dies and starts again, perhaps with a key it did not have.
Restart ==
  /\ faults < MaxFaults
  /\ faults' = faults + 1
  /\ rec' = [e \in Events |->
               IF rec[e].pc \in {"idle", "done", "failed"} THEN rec[e]
               ELSE [pc |-> "failed", ts |-> rec[e].ts, prev |-> rec[e].prev]]
  /\ mu' = Nobody
  /\ key' \in {key, TRUE}
  /\ ver' = NoVerification
  /\ UNCHANGED <<rows, head, checkpoints, clock, lost, emptied, overlap>>

-----------------------------------------------------------------------------
(* Retention: DeleteAuditEventsBefore, pruneTenantAuditPrefix *)

\* The chained row with the highest seq whose timestamp is before the cutoff.
IsCut(cut, cutoff) ==
  /\ cut.ts < cutoff
  /\ \A r \in rows : r.ts < cutoff => r.seq <= cut.seq

(* Mutant: rows are deleted by timestamp instead of by sequence. *)
PruneByTime(cutoff, cut) ==
  /\ IsCut(cut, cutoff)
  /\ checkpoints' = checkpoints \cup {HeadOf(cut)}
  /\ rows' = {r \in rows : r.ts >= cutoff}
  /\ emptied' = (emptied \/ IsNewest(cut, rows))
  /\ lost' = IF lost <= cut.seq THEN 0 ELSE lost
  /\ UNCHANGED <<head, mu, key, clock, rec, ver, overlap, faults>>

(* Mutant: the checkpoint of the pruned head is not written. *)
PruneUnrecorded(cutoff, cut) ==
  /\ IsCut(cut, cutoff)
  /\ rows' = {r \in rows : r.seq > cut.seq}
  /\ emptied' = (emptied \/ IsNewest(cut, rows))
  /\ lost' = IF lost <= cut.seq THEN 0 ELSE lost
  /\ UNCHANGED <<head, checkpoints, mu, key, clock, rec, ver, overlap, faults>>

\* One transaction: the checkpoint of the last row that goes, and the prefix.
\* It takes neither the mutex nor the high-water mark into account.
Prune(cutoff, cut) ==
  /\ IsCut(cut, cutoff)
  /\ checkpoints' = checkpoints \cup {HeadOf(cut)}
  /\ rows' = {r \in rows : r.seq > cut.seq}
  /\ emptied' = (emptied \/ IsNewest(cut, rows))
  /\ lost' = IF lost <= cut.seq THEN 0 ELSE lost
  /\ UNCHANGED <<head, mu, key, clock, rec, ver, overlap, faults>>

-----------------------------------------------------------------------------
(* VerifyAuditChain and VerifySealed *)

\* The row that the walk visits before r.
Before(rs, r) == {p \in rs : p.seq < r.seq /\ \A q \in rs : q.seq < r.seq => q.seq <= p.seq}

\* What VerifySealed can object to in rows rs with high-water mark h: it
\* reports the first, and OK when there is none.
Alarms(rs, k, h) ==
     {a \in {"hash"} : \E r \in rs :
        r.hash # RowHash(r.id, r.ts, r.keyed, r.seq, r.prev)}
  \cup {a \in {"nokey"} : ~k /\ (h # NoHead \/ \E r \in rs : r.keyed)}
  \cup {a \in {"downgrade"} : \E r \in rs : \E p \in rs :
          p.seq < r.seq /\ p.keyed /\ ~r.keyed}
  \cup {a \in {"gap"} : \E r \in rs : \E p \in Before(rs, r) : r.seq # p.seq + 1}
  \cup {a \in {"link"} : \E r \in rs : \E p \in Before(rs, r) : r.prev # p.hash}
  \cup {a \in {"regression"} : \E r \in rs : \E p \in Before(rs, r) :
          r.keyed /\ p.keyed /\ r.ts < p.ts}
  \cup {a \in {"truncated"} : Newest(rs).seq < h.seq}
  \cup {a \in {"mark"} : Newest(rs).seq = h.seq /\ h # NoHead
                           /\ Newest(rs).hash # h.hash}

\* The rows are read first ...
VerifyRows ==
  /\ ver.pc = "idle"
  /\ ver' = [pc |-> "rows", rows |-> rows, lost |-> lost, alarms |-> {}]
  /\ UNCHANGED <<rows, head, checkpoints, mu, key, clock, rec, lost, emptied, overlap, faults>>

\* ... then the mark, and the verdict is formed.
VerifyHead ==
  /\ ver.pc = "rows"
  /\ ver' = [ver EXCEPT !.pc = "verdict", !.alarms = Alarms(ver.rows, key, head)]
  /\ UNCHANGED <<rows, head, checkpoints, mu, key, clock, rec, lost, emptied, overlap, faults>>

VerifyReturn ==
  /\ ver.pc = "verdict"
  /\ ver' = NoVerification
  /\ UNCHANGED <<rows, head, checkpoints, mu, key, clock, rec, lost, emptied, overlap, faults>>

\* The storage loses a row from the middle of the log.
LoseRow(r) ==
  /\ lost = 0
  /\ \E p \in rows : p.seq < r.seq
  /\ \E q \in rows : q.seq > r.seq
  /\ rows' = rows \ {r}
  /\ lost' = r.seq
  /\ UNCHANGED <<head, checkpoints, mu, key, clock, rec, ver, emptied, overlap, faults>>

-----------------------------------------------------------------------------
Record(e) ==
  Stamp(e) \/ Lock(e) \/ ReadNewest(e) \/ Insert(e) \/ PutHead(e) \/ StatementFails(e)

Next ==
  \/ Tick
  \/ \E e \in Events : Record(e)
  \/ Restart
  \/ \E cutoff \in 1..clock : \E cut \in rows : Prune(cutoff, cut)
  \/ VerifyRows \/ VerifyHead \/ VerifyReturn
  \/ \E r \in rows : LoseRow(r)

Spec == Init /\ [][Next]_vars

-----------------------------------------------------------------------------
(* Properties *)

\* Rows have distinct, contiguous sequence numbers.
Contiguous(rs) ==
  /\ \A r, s \in rs : r.seq = s.seq => r = s
  /\ \A r, s \in rs : r.seq < s.seq => \E t \in rs : s.seq = t.seq + 1

\* Every row hashes to what is stored, links to the row before it, and no
\* keyed row comes before one that is not.
Sealed(rs) ==
  /\ \A r \in rs : r.hash = RowHash(r.id, r.ts, r.keyed, r.seq, r.prev)
  /\ \A r, s \in rs : s.seq = r.seq + 1 => s.prev = r.hash
  /\ \A r, s \in rs : r.seq < s.seq /\ r.keyed => s.keyed

\* The oldest row starts a chain, or links to a checkpoint of what retention
\* has deleted.
Anchored(rs) ==
  \A r \in rs : (\A q \in rs : r.seq <= q.seq) =>
    \/ r.seq = 1 /\ r.prev = Genesis
    \/ \E c \in checkpoints : r.seq = c.seq + 1 /\ r.prev = c.hash

\* Whatever appends, crashes, failed statements and prunes interleave - a prune
\* between an append's read of the newest row and its insert, an append after
\* everything was pruned - the stored rows form one chain, and a log that lost
\* a row does so again once retention has passed the hole (CreateAuditEvent,
\* pruneTenantAuditPrefix).
ChainIntact == TypeOK /\ (lost = 0 => Contiguous(rows) /\ Sealed(rows) /\ Anchored(rows))

\* Of an undamaged log a verification never claims an edit, a gap, a broken
\* link, a downgrade or a missing key, whatever ran between its reads.
NoFalseEditAlarm ==
  ver.pc = "verdict" /\ ver.lost = 0 =>
    ver.alarms \subseteq {"regression", "truncated", "mark"}

\* Which of the verdicts of VerifyAuditChain can be believed when it runs
\* concurrently with everything else.  It does raise false alarms about an
\* untouched log, and these are all of them: "regression" (backdating) after
\* two Record calls have overlapped, since the timestamp is taken before the
\* mutex; "truncated" or a wrong mark when a row was appended after the rows
\* were read, or once retention has deleted the newest row and left the mark.
\* Every other alarm means damage, and a row lost from the middle is reported
\* while rows of both sides remain.
AlarmsExplained ==
  /\ NoFalseEditAlarm
  /\ ver.pc = "verdict" =>
       /\ "regression" \in ver.alarms => overlap
       /\ ver.lost = 0 /\ ver.alarms \cap {"truncated", "mark"} # {} =>
            emptied \/ Newest(rows).seq > Newest(ver.rows).seq
       /\ (ver.lost # 0 /\ \E p, q \in ver.rows : p.seq < ver.lost /\ ver.lost < q.seq)
            => "gap" \in ver.alarms

\* An event whose Record succeeded is in the log, or at or below a checkpoint:
\* nothing acknowledged disappears unaccounted (Record, Prune).
RecordedIsKept ==
  lost = 0 =>
    \A e \in Events : rec[e].pc = "done" =>
      \/ \E r \in rows : r.id = e
      \/ \E c \in checkpoints : rec[e].prev.seq + 1 <= c.seq

=============================================================================
