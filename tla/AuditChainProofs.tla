-------------------------- MODULE AuditChainProofs --------------------------
(***************************************************************************)
(* The stored rows form one chain, and no acknowledged event disappears,   *)
(* for any set of events and any bounds.  The argument needs what an       *)
(* append knows while it holds the mutex: the head it read is still the    *)
(* newest row, or retention has deleted every row since and left that head *)
(* as a checkpoint (HeadStillNewest).  When the storage has lost a row the *)
(* chain is the same but for that one hole (AfterHole, HoleInside), until  *)
(* retention passes it.                                                    *)
(***************************************************************************)
EXTENDS AuditChain, FiniteSetTheorems, WellFoundedInduction, TLAPS

\* The row that follows the one the storage lost.
AfterHole(r) == lost # 0 /\ r.seq = lost + 1

OneHole ==
  /\ \A r, s \in rows : r.seq = s.seq => r = s
  /\ \A r, s \in rows : r.seq < s.seq =>
       (\E t \in rows : s.seq = t.seq + 1) \/ AfterHole(s)

HoleInside ==
  lost # 0 => (\A r \in rows : r.seq # lost) /\ (\E r \in rows : r.seq > lost)

AnchoredOrCut ==
  \A r \in rows : (\A q \in rows : r.seq <= q.seq) =>
    \/ r.seq = 1 /\ r.prev = Genesis
    \/ \E c \in checkpoints : r.seq = c.seq + 1 /\ r.prev = c.hash
    \/ AfterHole(r)

OneAppend == \A e \in Events : rec[e].pc \in InMutex => mu = e

HeadStillNewest ==
  \A e \in Events : rec[e].pc = "insert" =>
    \/ \E p \in rows : /\ p.seq = rec[e].prev.seq /\ p.hash = rec[e].prev.hash
                       /\ IsNewest(p, rows)
    \/ /\ rows = {}
       /\ \/ rec[e].prev.seq = 0 /\ rec[e].prev.hash = Genesis
          \/ \E c \in checkpoints :
               c.seq = rec[e].prev.seq /\ c.hash = rec[e].prev.hash

KeyStays == \A r \in rows : r.keyed => key

HeadNeedsKey == \A e \in Events : rec[e].pc = "head" => key

Stored ==
  \A e \in Events : rec[e].pc \in {"head", "done"} =>
    \/ \E r \in rows : r.id = e /\ r.seq = rec[e].prev.seq + 1
    \/ \E c \in checkpoints : rec[e].prev.seq + 1 <= c.seq
    \/ lost # 0 /\ rec[e].prev.seq + 1 = lost

Chained ==
  /\ OneHole /\ HoleInside /\ Sealed(rows) /\ AnchoredOrCut
  /\ HeadStillNewest /\ KeyStays /\ Stored

IInv == TypeOK /\ OneAppend /\ Chained

LEMMA RecTypes ==
  ASSUME TypeOK, NEW e \in Events
  PROVE  /\ rec[e].pc \in RecPC /\ rec[e].ts \in Nat /\ rec[e].prev.seq \in Nat
         /\ DOMAIN rec = Events
  BY DEF TypeOK

\* What RecGoto changes.
LEMMA RecGotoFacts ==
  ASSUME TypeOK, NEW e \in Events, NEW p \in RecPC, NEW h, RecGoto(e, p, h)
  PROVE  /\ DOMAIN rec' = Events
         /\ rec'[e].pc = p /\ rec'[e].ts = rec[e].ts /\ rec'[e].prev = h
         /\ \A d \in Events : d # e => rec'[d] = rec[d]
<1>1. DOMAIN rec = Events
  BY DEF TypeOK
<1>2. rec' = [rec EXCEPT ![e] = [pc |-> p, ts |-> rec[e].ts, prev |-> h]]
  BY DEF RecGoto
<1> QED BY <1>1, <1>2

\* A step that leaves the tables alone and moves one append.
LEMMA AppendMoves ==
  ASSUME IInv, NEW e \in Events, NEW p \in RecPC,
         UNCHANGED <<rows, checkpoints, key, clock, lost, emptied>>,
         overlap' \in BOOLEAN,
         DOMAIN rec' = Events,
         rec'[e].pc = p, rec'[e].ts \in Nat, rec'[e].prev.seq \in Nat,
         \A d \in Events : d # e => rec'[d] = rec[d],
         mu' \in Events \cup {Nobody}, head'.seq \in Nat, faults' \in Nat,
         p \in InMutex => mu' = e,
         \A d \in Events : d # e /\ rec[d].pc \in InMutex => mu' = d,
         p = "insert" =>
           \/ \E q \in rows : /\ q.seq = rec'[e].prev.seq /\ q.hash = rec'[e].prev.hash
                              /\ IsNewest(q, rows)
           \/ rows = {} /\ rec'[e].prev.seq = 0 /\ rec'[e].prev.hash = Genesis,
         p \in {"head", "done"} => rec[e].pc = "head" /\ rec'[e].prev = rec[e].prev
  PROVE  IInv'
<1>1. TypeOK'
  <2>1. \A d \in Events : /\ rec'[d].pc \in RecPC /\ rec'[d].ts \in Nat
                          /\ rec'[d].prev.seq \in Nat
    BY RecTypes DEF IInv
  <2> QED BY <2>1 DEF IInv, TypeOK
<1>2. OneAppend'
  BY DEF IInv, OneAppend
<1>3. Chained'
  <2>1. /\ OneHole' /\ HoleInside' /\ Sealed(rows)' /\ AnchoredOrCut' /\ KeyStays'
    BY DEF IInv, Chained, OneHole, HoleInside, Sealed, AnchoredOrCut, AfterHole, KeyStays
  <2>2. HeadStillNewest'
    <3> SUFFICES ASSUME NEW d \in Events, rec'[d].pc = "insert"
                 PROVE  \/ \E q \in rows : /\ q.seq = rec'[d].prev.seq
                                           /\ q.hash = rec'[d].prev.hash
                                           /\ IsNewest(q, rows)
                        \/ /\ rows = {}
                           /\ \/ rec'[d].prev.seq = 0 /\ rec'[d].prev.hash = Genesis
                              \/ \E c \in checkpoints :
                                   c.seq = rec'[d].prev.seq /\ c.hash = rec'[d].prev.hash
      BY DEF HeadStillNewest, IsNewest
    <3>1. CASE d = e
      BY <3>1
    <3>2. CASE d # e
      BY <3>2 DEF IInv, Chained, HeadStillNewest
    <3> QED BY <3>1, <3>2
  <2>3. Stored'
    BY DEF IInv, Chained, Stored
  <2> QED BY <2>1, <2>2, <2>3 DEF Chained
<1> QED BY <1>1, <1>2, <1>3 DEF IInv

\* The fields of the row an append inserts.
LEMMA NewRowFields ==
  ASSUME NEW e \in Events
  PROVE  /\ NewRow(e).id = e /\ NewRow(e).ts = rec[e].ts /\ NewRow(e).keyed = key
         /\ NewRow(e).seq = rec[e].prev.seq + 1 /\ NewRow(e).prev = rec[e].prev.hash
         /\ NewRow(e).hash = RowHash(e, rec[e].ts, key, rec[e].prev.seq + 1,
                                     rec[e].prev.hash)
  BY DEF NewRow

\* The insert of an append keeps the chain.
LEMMA InsertPreserves ==
  ASSUME IInv, NEW e \in Events, Insert(e)
  PROVE  IInv'
<1> DEFINE nr == NewRow(e)
           n == rec[e].prev.seq
<1>1. /\ nr.id = e /\ nr.ts = rec[e].ts /\ nr.keyed = key
      /\ nr.seq = n + 1 /\ nr.prev = rec[e].prev.hash
      /\ nr.hash = RowHash(nr.id, nr.ts, nr.keyed, nr.seq, nr.prev)
  BY NewRowFields
<1>2. /\ n \in Nat /\ rec[e].ts \in Nat /\ key \in BOOLEAN
      /\ \A r \in rows : r.seq \in Nat \ {0}
      /\ \A c \in checkpoints : c.seq \in Nat \ {0}
  BY RecTypes DEF IInv, TypeOK
<1>3. rows' = rows \cup {nr}
  BY DEF Insert
<1>4. UNCHANGED <<head, checkpoints, key, clock, ver, lost, emptied, overlap, faults>>
  BY DEF Insert
<1> HIDE DEF nr
<1>5. PICK p \in {"head", "done"} :
        /\ DOMAIN rec' = Events
        /\ rec'[e].pc = p /\ rec'[e].ts = rec[e].ts /\ rec'[e].prev = rec[e].prev
        /\ \A d \in Events : d # e => rec'[d] = rec[d]
        /\ p = "head" => mu' = mu
        /\ mu' \in {mu, Nobody}
  <2>1. {"head", "done"} \subseteq RecPC
    BY DEF RecPC, InMutex
  <2>2. CASE key
    BY <2>1, <2>2, RecGotoFacts DEF Insert, IInv
  <2>3. CASE ~key
    BY <2>1, <2>3, RecGotoFacts DEF Insert, IInv
  <2> QED BY <2>2, <2>3
<1>6. rec[e].pc = "insert" /\ mu = e
  BY DEF Insert, IInv, OneAppend, InMutex
<1>7. TypeOK'
  <2>1. \A d \in Events : /\ rec'[d].pc \in RecPC /\ rec'[d].ts \in Nat
                          /\ rec'[d].prev.seq \in Nat
    BY <1>2, <1>5, RecTypes DEF IInv, RecPC, InMutex
  <2>2. \A r \in rows' : /\ r.id \in Events /\ r.ts \in Nat /\ r.keyed \in BOOLEAN
                         /\ r.seq \in Nat \ {0}
    BY <1>1, <1>2, <1>3 DEF IInv, TypeOK
  <2>3. mu' \in Events \cup {Nobody}
    BY <1>5 DEF IInv, TypeOK
  <2> QED BY <1>4, <1>5, <2>1, <2>2, <2>3 DEF IInv, TypeOK
<1>8. OneAppend'
  <2>1. \A d \in Events : d # e => rec[d].pc \notin InMutex
    BY <1>6 DEF IInv, OneAppend
  <2> QED BY <2>1, <1>5, <1>6 DEF OneAppend, InMutex
<1>9. Chained'
  <2>1. Chained
    BY DEF IInv
  <2>2. \A r \in rows : r.seq <= n
    BY <2>1, <1>2, <1>6 DEF Chained, HeadStillNewest, IsNewest
  <2>3. \/ \E p0 \in rows : p0.seq = n /\ p0.hash = nr.prev
        \/ /\ rows = {}
           /\ \/ n = 0 /\ nr.prev = Genesis
              \/ \E c \in checkpoints : c.seq = n /\ c.hash = nr.prev
    BY <2>1, <1>1, <1>6 DEF Chained, HeadStillNewest
  <2>4. OneHole'
    <3>1. \A r, s \in rows' : r.seq = s.seq => r = s
      BY <2>1, <2>2, <1>1, <1>2, <1>3 DEF Chained, OneHole
    <3>2. ASSUME NEW r \in rows', NEW s \in rows', r.seq < s.seq
          PROVE  (\E t \in rows' : s.seq = t.seq + 1) \/ (lost # 0 /\ s.seq = lost + 1)
      <4>1. CASE s \in rows
        <5>1. r \in rows
          BY <4>1, <3>2, <2>2, <1>1, <1>2, <1>3
        <5> QED BY <4>1, <5>1, <3>2, <2>1, <1>3 DEF Chained, OneHole, AfterHole
      <4>2. CASE s = nr
        <5>1. r \in rows
          BY <4>2, <3>2, <1>1, <1>2, <1>3
        <5> QED BY <4>2, <5>1, <2>3, <1>1, <1>3
      <4> QED BY <4>1, <4>2, <1>3
    <3> QED BY <3>1, <3>2, <1>4 DEF OneHole, AfterHole
  <2>40. HoleInside'
    <3> SUFFICES ASSUME lost # 0
                 PROVE  (\A r \in rows' : r.seq # lost) /\ (\E r \in rows' : r.seq > lost)
      BY <1>4 DEF HoleInside
    <3>1. PICK q \in rows : q.seq > lost
      BY <2>1 DEF Chained, HoleInside
    <3>2. nr.seq > lost /\ lost \in Nat /\ nr.seq \in Nat
      BY <3>1, <2>2, <1>1, <1>2 DEF IInv, TypeOK
    <3> QED BY <3>1, <3>2, <2>1, <1>2, <1>3 DEF Chained, HoleInside
  <2>5. Sealed(rows)'
    <3>1. \A r \in rows' : r.hash = RowHash(r.id, r.ts, r.keyed, r.seq, r.prev)
      BY <2>1, <1>1, <1>3 DEF Chained, Sealed
    <3>2. \A r, s \in rows' : s.seq = r.seq + 1 => s.prev = r.hash
      <4> SUFFICES ASSUME NEW r \in rows', NEW s \in rows', s.seq = r.seq + 1
                   PROVE  s.prev = r.hash
        OBVIOUS
      <4>1. CASE s \in rows
        <5>1. r \in rows
          BY <4>1, <2>2, <1>1, <1>2, <1>3
        <5> QED BY <4>1, <5>1, <2>1 DEF Chained, Sealed
      <4>2. CASE s = nr
        <5>1. r \in rows /\ r.seq = n
          BY <4>2, <1>1, <1>2, <1>3
        <5>2. PICK p0 \in rows : p0.seq = n /\ p0.hash = nr.prev
          BY <5>1, <2>3
        <5>3. r = p0
          BY <5>1, <5>2, <2>1 DEF Chained, OneHole
        <5> QED BY <4>2, <5>2, <5>3
      <4> QED BY <4>1, <4>2, <1>3
    <3>3. \A r, s \in rows' : r.seq < s.seq /\ r.keyed => s.keyed
      <4>1. \A r \in rows : r.seq < nr.seq
        BY <2>2, <1>1, <1>2
      <4> QED BY <4>1, <2>1, <1>1, <1>2, <1>3 DEF Chained, Sealed, KeyStays
    <3> QED BY <3>1, <3>2, <3>3 DEF Sealed, RowHash
  <2>6. AnchoredOrCut'
    <3> SUFFICES ASSUME NEW r \in rows', \A q \in rows' : r.seq <= q.seq
                 PROVE  \/ r.seq = 1 /\ r.prev = Genesis
                        \/ \E c \in checkpoints : r.seq = c.seq + 1 /\ r.prev = c.hash
                        \/ AfterHole(r)
      BY <1>4 DEF AnchoredOrCut, AfterHole
    <3>1. CASE r \in rows
      BY <3>1, <2>1, <1>3 DEF Chained, AnchoredOrCut
    <3>2. CASE r = nr
      <4>1. rows = {}
        BY <3>2, <2>2, <1>1, <1>2, <1>3
      <4> QED BY <3>2, <4>1, <2>3, <1>1, <1>2
    <3> QED BY <3>1, <3>2, <1>3
  <2>7. HeadStillNewest'
    <3>1. \A d \in Events : rec'[d].pc # "insert"
      BY <1>5, <1>6 DEF IInv, OneAppend, InMutex
    <3> QED BY <3>1 DEF HeadStillNewest
  <2>8. KeyStays'
    BY <2>1, <1>1, <1>3, <1>4 DEF Chained, KeyStays
  <2>9. Stored'
    <3> SUFFICES ASSUME NEW d \in Events, rec'[d].pc \in {"head", "done"}
                 PROVE  \/ \E r \in rows' : r.id = d /\ r.seq = rec'[d].prev.seq + 1
                        \/ \E c \in checkpoints' : rec'[d].prev.seq + 1 <= c.seq
                        \/ lost' # 0 /\ rec'[d].prev.seq + 1 = lost'
      BY DEF Stored
    <3>1. CASE d = e
      BY <3>1, <1>1, <1>3, <1>5
    <3>2. CASE d # e
      BY <3>2, <2>1, <1>3, <1>4, <1>5 DEF Chained, Stored
    <3> QED BY <3>1, <3>2
  <2> QED BY <2>4, <2>40, <2>5, <2>6, <2>7, <2>8, <2>9 DEF Chained
<1> QED BY <1>4, <1>7, <1>8, <1>9 DEF IInv

\* A prune keeps the chain, whatever append is under way.
LEMMA PrunePreserves ==
  ASSUME IInv, NEW cutoff \in Nat, NEW cut \in rows, Prune(cutoff, cut)
  PROVE  IInv'
<1>1. /\ rows' = {r \in rows : r.seq > cut.seq}
      /\ checkpoints' = checkpoints \cup {HeadOf(cut)}
      /\ emptied' \in BOOLEAN
      /\ lost' = IF lost <= cut.seq THEN 0 ELSE lost
      /\ UNCHANGED <<head, mu, key, clock, rec, ver, overlap, faults>>
  BY DEF Prune, IInv, TypeOK
<1>2. HeadOf(cut).seq = cut.seq /\ HeadOf(cut).hash = cut.hash
  BY DEF HeadOf
<1>3. /\ \A r \in rows : r.seq \in Nat \ {0}
      /\ \A e \in Events : rec[e].prev.seq \in Nat
      /\ lost \in Nat
  BY DEF IInv, TypeOK
<1>4. TypeOK'
  BY <1>1, <1>2, <1>3 DEF IInv, TypeOK
<1>5. OneAppend'
  BY <1>1 DEF IInv, OneAppend
<1>6. Chained'
  <2>1. Chained
    BY DEF IInv
  <2>hole. ASSUME NEW r \in rows', AfterHole(r) PROVE lost' = lost
    <3>1. r.seq > cut.seq /\ r.seq = lost + 1 /\ lost # 0
      BY <2>hole, <1>1 DEF AfterHole
    <3>2. cut.seq # lost
      BY <3>1, <2>1 DEF Chained, HoleInside
    <3> QED BY <3>1, <3>2, <1>1, <1>3
  <2>2. OneHole'
    <3>1. \A r, s \in rows' : r.seq = s.seq => r = s
      BY <2>1, <1>1 DEF Chained, OneHole
    <3>2. ASSUME NEW r \in rows', NEW s \in rows', r.seq < s.seq
          PROVE  (\E t \in rows' : s.seq = t.seq + 1) \/ (lost' # 0 /\ s.seq = lost' + 1)
      <4>1. CASE AfterHole(s)
        BY <4>1, <2>hole DEF AfterHole
      <4>2. CASE \E t \in rows : s.seq = t.seq + 1
        <5>1. PICK t \in rows : s.seq = t.seq + 1
          BY <4>2
        <5>2. t.seq > cut.seq
          BY <5>1, <3>2, <1>1, <1>3
        <5> QED BY <5>1, <5>2, <1>1
      <4>3. r \in rows /\ s \in rows
        BY <1>1
      <4> QED BY <4>1, <4>2, <4>3, <3>2, <2>1 DEF Chained, OneHole
    <3> QED BY <3>1, <3>2 DEF OneHole, AfterHole
  <2>20. HoleInside'
    <3> SUFFICES ASSUME lost' # 0
                 PROVE  (\A r \in rows' : r.seq # lost) /\ (\E r \in rows' : r.seq > lost)
      BY <1>1 DEF HoleInside
    <3>1. lost # 0 /\ lost > cut.seq
      BY <1>1, <1>3
    <3> QED BY <3>1, <2>1, <1>1, <1>3 DEF Chained, HoleInside
  <2>3. Sealed(rows)'
    BY <2>1, <1>1 DEF Chained, Sealed, RowHash
  <2>4. AnchoredOrCut'
    <3> SUFFICES ASSUME NEW r \in rows', \A q \in rows' : r.seq <= q.seq, ~AfterHole(r)
                 PROVE  \E c \in checkpoints' : r.seq = c.seq + 1 /\ r.prev = c.hash
      BY <2>hole DEF AnchoredOrCut, AfterHole
    <3>1. PICK t \in rows : r.seq = t.seq + 1
      BY <2>1, <1>1 DEF Chained, OneHole
    <3>2. t \notin rows'
      BY <3>1, <1>3
    <3>3. t.seq = cut.seq
      BY <3>1, <3>2, <1>1, <1>3
    <3>4. t = cut
      BY <3>3, <2>1 DEF Chained, OneHole
    <3>5. r.prev = cut.hash
      BY <3>1, <3>4, <2>1, <1>1 DEF Chained, Sealed
    <3> QED BY <3>1, <3>4, <3>5, <1>1, <1>2
  <2>5. HeadStillNewest'
    <3> SUFFICES ASSUME NEW e \in Events, rec[e].pc = "insert"
                 PROVE  \/ \E p \in rows' : /\ p.seq = rec[e].prev.seq
                                            /\ p.hash = rec[e].prev.hash
                                            /\ IsNewest(p, rows')
                        \/ /\ rows' = {}
                           /\ \/ rec[e].prev.seq = 0 /\ rec[e].prev.hash = Genesis
                              \/ \E c \in checkpoints' :
                                   c.seq = rec[e].prev.seq /\ c.hash = rec[e].prev.hash
      BY <1>1 DEF HeadStillNewest, IsNewest
    <3>1. PICK p \in rows : /\ p.seq = rec[e].prev.seq /\ p.hash = rec[e].prev.hash
                            /\ IsNewest(p, rows)
      BY <2>1 DEF Chained, HeadStillNewest
    <3>2. CASE p.seq > cut.seq
      BY <3>1, <3>2, <1>1 DEF IsNewest
    <3>3. CASE ~(p.seq > cut.seq)
      <4>1. p.seq = cut.seq
        BY <3>1, <3>3, <1>3 DEF IsNewest
      <4>2. p = cut
        BY <4>1, <2>1 DEF Chained, OneHole
      <4>3. rows' = {}
        BY <4>2, <3>1, <1>1, <1>3 DEF IsNewest
      <4> QED BY <4>2, <4>3, <3>1, <1>1, <1>2
    <3> QED BY <3>2, <3>3
  <2>6. KeyStays'
    BY <2>1, <1>1 DEF Chained, KeyStays
  <2>7. Stored'
    <3> SUFFICES ASSUME NEW e \in Events, rec[e].pc \in {"head", "done"}
                 PROVE  \/ \E r \in rows' : r.id = e /\ r.seq = rec[e].prev.seq + 1
                        \/ \E c \in checkpoints' : rec[e].prev.seq + 1 <= c.seq
                        \/ lost' # 0 /\ rec[e].prev.seq + 1 = lost'
      BY <1>1 DEF Stored
    <3>0. CASE lost # 0 /\ rec[e].prev.seq + 1 = lost
      <4>1. CASE lost <= cut.seq
        <5>1. rec[e].prev.seq + 1 <= HeadOf(cut).seq
          BY <4>1, <3>0, <1>2
        <5> QED BY <5>1, <1>1
      <4>2. CASE ~(lost <= cut.seq)
        BY <4>2, <3>0, <1>1
      <4> QED BY <4>1, <4>2
    <3>1. CASE \E c \in checkpoints : rec[e].prev.seq + 1 <= c.seq
      BY <3>1, <1>1
    <3>2. CASE \E r \in rows : r.id = e /\ r.seq = rec[e].prev.seq + 1
      <4>1. PICK r \in rows : r.id = e /\ r.seq = rec[e].prev.seq + 1
        BY <3>2
      <4>2. CASE r.seq > cut.seq
        BY <4>1, <4>2, <1>1
      <4>3. CASE ~(r.seq > cut.seq)
        <5>1. rec[e].prev.seq + 1 <= HeadOf(cut).seq
          BY <4>1, <4>3, <1>2, <1>3
        <5> QED BY <5>1, <1>1
      <4> QED BY <4>2, <4>3
    <3> QED BY <3>0, <3>1, <3>2, <2>1 DEF Chained, Stored
  <2> QED BY <2>2, <2>20, <2>3, <2>4, <2>5, <2>6, <2>7 DEF Chained
<1> QED BY <1>1, <1>4, <1>5, <1>6 DEF IInv

\* Every step of a Record call.
LEMMA AppendPreserves ==
  ASSUME IInv, NEW e \in Events, Record(e)
  PROVE  IInv'
<1>1. /\ TypeOK /\ OneAppend
      /\ rec[e].ts \in Nat /\ rec[e].prev.seq \in Nat /\ DOMAIN rec = Events
      /\ clock \in Nat /\ faults \in Nat /\ head.seq \in Nat
      /\ mu \in Events \cup {Nobody} /\ Nobody \notin Events
      /\ overlap \in BOOLEAN
      /\ \A r \in rows : r.seq \in Nat
  BY RecTypes, ChainAssumption DEF IInv, TypeOK
<1>2. {"stamped", "read", "insert", "head", "done", "failed"} \subseteq RecPC
  BY DEF RecPC, InMutex
<1>3. NoHead.seq = 0 /\ NoHead.hash = Genesis
  BY DEF NoHead
<1>4. \A d \in Events : rec[d].pc \in InMutex /\ rec[e].pc \in InMutex => d = e
  BY <1>1 DEF OneAppend
<1>5. CASE Stamp(e)
  <2>1. /\ DOMAIN rec' = Events
        /\ rec'[e].pc = "stamped" /\ rec'[e].ts = clock /\ rec'[e].prev = NoHead
        /\ \A d \in Events : d # e => rec'[d] = rec[d]
    BY <1>1, <1>5 DEF Stamp
  <2>2. \A d \in Events : rec[d].pc \in InMutex => mu = d
    BY <1>1 DEF OneAppend
  <2>3. overlap' \in BOOLEAN
    BY <1>5, Zenon DEF Stamp
  <2> QED BY <2>1, <2>2, <2>3, <1>1, <1>2, <1>3, <1>5, AppendMoves DEF Stamp, InMutex
<1>6. CASE Lock(e)
  <2>1. /\ DOMAIN rec' = Events
        /\ rec'[e].pc = "read" /\ rec'[e].ts = rec[e].ts /\ rec'[e].prev = NoHead
        /\ \A d \in Events : d # e => rec'[d] = rec[d]
    BY <1>1, <1>2, <1>6, RecGotoFacts DEF Lock
  <2>2. \A d \in Events : rec[d].pc \notin InMutex
    BY <1>1, <1>6 DEF OneAppend, Lock
  <2> QED BY <2>1, <2>2, <1>1, <1>2, <1>3, <1>6, AppendMoves DEF Lock, InMutex
<1>7. CASE ReadNewest(e)
  <2>1. rec[e].pc = "read" /\ mu = e
        /\ \A d \in Events : d # e => rec[d].pc \notin InMutex
    BY <1>1, <1>7 DEF ReadNewest, OneAppend, InMutex
  <2>2. UNCHANGED <<rows, head, checkpoints, mu, key, clock, ver, lost, emptied, overlap, faults>>
    BY <1>7 DEF ReadNewest
  <2>3. CASE rows = {} /\ RecGoto(e, "insert", NoHead)
    <3>1. /\ DOMAIN rec' = Events
          /\ rec'[e].pc = "insert" /\ rec'[e].ts = rec[e].ts /\ rec'[e].prev = NoHead
          /\ \A d \in Events : d # e => rec'[d] = rec[d]
      BY <2>3, <1>1, <1>2, RecGotoFacts
    <3> QED BY <3>1, <2>1, <2>2, <2>3, <1>1, <1>2, <1>3, AppendMoves
  <2>4. CASE \E r \in rows : IsNewest(r, rows) /\ RecGoto(e, "insert", HeadOf(r))
    <3>1. PICK r \in rows : IsNewest(r, rows) /\ RecGoto(e, "insert", HeadOf(r))
      BY <2>4
    <3>2. HeadOf(r).seq = r.seq /\ HeadOf(r).hash = r.hash
      BY DEF HeadOf
    <3>3. /\ DOMAIN rec' = Events
          /\ rec'[e].pc = "insert" /\ rec'[e].ts = rec[e].ts /\ rec'[e].prev = HeadOf(r)
          /\ \A d \in Events : d # e => rec'[d] = rec[d]
      BY <3>1, <1>1, <1>2, RecGotoFacts
    <3> QED BY <3>1, <3>2, <3>3, <2>1, <2>2, <1>1, <1>2, AppendMoves
  <2> QED BY <2>3, <2>4, <1>7 DEF ReadNewest
<1>8. CASE Insert(e)
  BY <1>8, InsertPreserves
<1>9. CASE PutHead(e)
  <2>1. /\ DOMAIN rec' = Events
        /\ rec'[e].pc = "done" /\ rec'[e].ts = rec[e].ts /\ rec'[e].prev = rec[e].prev
        /\ \A d \in Events : d # e => rec'[d] = rec[d]
    BY <1>1, <1>2, <1>9, RecGotoFacts DEF PutHead
  <2>2. head'.seq = rec[e].prev.seq + 1
    BY <1>9, NewRowFields DEF PutHead, HeadOf
  <2>3. rec[e].pc = "head" /\ \A d \in Events : d # e => rec[d].pc \notin InMutex
    BY <1>4, <1>9 DEF PutHead, InMutex
  <2> QED BY <2>1, <2>2, <2>3, <1>1, <1>2, <1>9, AppendMoves DEF PutHead, InMutex
<1>10. CASE StatementFails(e)
  <2>1. /\ DOMAIN rec' = Events
        /\ rec'[e].pc = "failed" /\ rec'[e].ts = rec[e].ts /\ rec'[e].prev = rec[e].prev
        /\ \A d \in Events : d # e => rec'[d] = rec[d]
    BY <1>1, <1>2, <1>10, RecGotoFacts DEF StatementFails
  <2>2. \A d \in Events : d # e => rec[d].pc \notin InMutex
    BY <1>4, <1>10 DEF StatementFails
  <2>3. faults' \in Nat
    BY <1>1, <1>10 DEF StatementFails
  <2> QED BY <2>1, <2>2, <2>3, <1>1, <1>2, <1>10, AppendMoves DEF StatementFails, InMutex
<1> QED BY <1>5, <1>6, <1>7, <1>8, <1>9, <1>10 DEF Record

\* A crash ends every append where it is.
LEMMA RestartPreserves ==
  ASSUME IInv, Restart
  PROVE  IInv'
<1>1. UNCHANGED <<rows, head, checkpoints, clock, lost, emptied, overlap>> /\ mu' = Nobody
  BY DEF Restart
<1>2. /\ DOMAIN rec' = Events
      /\ \A e \in Events :
           /\ rec'[e].ts = rec[e].ts /\ rec'[e].prev = rec[e].prev
           /\ rec'[e].pc \in {"idle", "done", "failed"}
           /\ rec'[e].pc = "done" => rec[e].pc = "done"
  BY DEF Restart
<1>3. key' \in BOOLEAN /\ (key => key') /\ faults' \in Nat
  <2>1. key \in BOOLEAN /\ faults \in Nat
    BY DEF IInv, TypeOK
  <2>2. key' = key \/ key' = TRUE
    BY DEF Restart
  <2>3. faults' = faults + 1
    BY DEF Restart
  <2>4. faults' \in Nat
    BY <2>1, <2>3
  <2>5. key' \in BOOLEAN /\ (key => key')
    BY <2>1, <2>2, Zenon
  <2> QED BY <2>4, <2>5
<1>4. TypeOK'
  <2>1. \A e \in Events : /\ rec'[e].pc \in RecPC /\ rec'[e].ts \in Nat
                          /\ rec'[e].prev.seq \in Nat
    BY <1>2, RecTypes DEF IInv, RecPC
  <2> QED BY <2>1, <1>1, <1>2, <1>3 DEF IInv, TypeOK
<1>5. OneAppend'
  BY <1>2 DEF OneAppend, InMutex
<1>6. Chained'
  <2>1. Chained
    BY DEF IInv
  <2>2. OneHole' /\ HoleInside' /\ Sealed(rows)' /\ AnchoredOrCut'
    BY <2>1, <1>1 DEF Chained, OneHole, HoleInside, Sealed, AnchoredOrCut, AfterHole
  <2>3. HeadStillNewest'
    BY <1>2 DEF HeadStillNewest
  <2>4. KeyStays'
    BY <2>1, <1>1, <1>3 DEF Chained, KeyStays
  <2>5. Stored'
    BY <2>1, <1>1, <1>2 DEF Chained, Stored
  <2> QED BY <2>2, <2>3, <2>4, <2>5 DEF Chained
<1> QED BY <1>1, <1>4, <1>5, <1>6 DEF IInv

\* The storage loses a row from the middle: one hole, and it is remembered.
LEMMA LoseRowPreserves ==
  ASSUME IInv, NEW r \in rows, LoseRow(r)
  PROVE  IInv'
<1>1. /\ rows' = rows \ {r} /\ lost' = r.seq /\ lost = 0
      /\ UNCHANGED <<head, checkpoints, mu, key, clock, rec, ver, emptied, overlap, faults>>
  BY DEF LoseRow
<1>2. PICK p \in rows : p.seq < r.seq
  BY DEF LoseRow
<1>3. PICK q \in rows : q.seq > r.seq
  BY DEF LoseRow
<1>4. /\ \A t \in rows : t.seq \in Nat \ {0}
      /\ Chained /\ TypeOK /\ OneAppend
  BY DEF IInv, TypeOK
<1>5. TypeOK'
  BY <1>1, <1>4 DEF TypeOK
<1>6. OneAppend'
  BY <1>1, <1>4 DEF OneAppend
<1>7. OneHole'
  <2>1. \A s, t \in rows' : s.seq = t.seq => s = t
    BY <1>1, <1>4 DEF Chained, OneHole
  <2>2. ASSUME NEW s \in rows', NEW t \in rows', s.seq < t.seq
        PROVE  (\E u \in rows' : t.seq = u.seq + 1) \/ (lost' # 0 /\ t.seq = lost' + 1)
    <3>1. PICK u \in rows : t.seq = u.seq + 1
      BY <2>2, <1>1, <1>4 DEF Chained, OneHole, AfterHole
    <3>2. CASE u = r
      BY <3>1, <3>2, <1>1, <1>4
    <3>3. CASE u # r
      BY <3>1, <3>3, <1>1
    <3> QED BY <3>2, <3>3
  <2> QED BY <2>1, <2>2 DEF OneHole, AfterHole
<1>8. HoleInside'
  <2>1. \A s \in rows' : s.seq # r.seq
    BY <1>1, <1>4 DEF Chained, OneHole
  <2>2. q \in rows'
    BY <1>1, <1>3, <1>4
  <2> QED BY <2>1, <2>2, <1>1, <1>3 DEF HoleInside
<1>9. Sealed(rows)'
  BY <1>1, <1>4 DEF Chained, Sealed
<1>10. AnchoredOrCut'
  <2> SUFFICES ASSUME NEW s \in rows', \A t \in rows' : s.seq <= t.seq
               PROVE  \/ s.seq = 1 /\ s.prev = Genesis
                      \/ \E c \in checkpoints : s.seq = c.seq + 1 /\ s.prev = c.hash
    BY <1>1 DEF AnchoredOrCut
  <2>1. p \in rows' /\ s \in rows
    BY <1>1, <1>2, <1>4
  <2>2. \A t \in rows : s.seq <= t.seq
    BY <2>1, <1>1, <1>2, <1>4
  <2> QED BY <2>1, <2>2, <1>1, <1>4 DEF Chained, AnchoredOrCut, AfterHole
<1>11. HeadStillNewest'
  <2> SUFFICES ASSUME NEW e \in Events, rec[e].pc = "insert"
               PROVE  \E t \in rows' : /\ t.seq = rec[e].prev.seq
                                        /\ t.hash = rec[e].prev.hash
                                        /\ IsNewest(t, rows')
    BY <1>1 DEF HeadStillNewest, IsNewest
  <2>1. PICK t \in rows : /\ t.seq = rec[e].prev.seq /\ t.hash = rec[e].prev.hash
                          /\ IsNewest(t, rows)
    BY <1>4 DEF Chained, HeadStillNewest
  <2>2. t # r
    BY <2>1, <1>3, <1>4 DEF IsNewest
  <2> QED BY <2>1, <2>2, <1>1 DEF IsNewest
<1>12. KeyStays'
  BY <1>1, <1>4 DEF Chained, KeyStays
<1>13. Stored'
  <2> SUFFICES ASSUME NEW e \in Events, rec[e].pc \in {"head", "done"}
               PROVE  \/ \E t \in rows' : t.id = e /\ t.seq = rec[e].prev.seq + 1
                      \/ \E c \in checkpoints : rec[e].prev.seq + 1 <= c.seq
                      \/ lost' # 0 /\ rec[e].prev.seq + 1 = lost'
    BY <1>1 DEF Stored
  <2> QED BY <1>1, <1>4 DEF Chained, Stored
<1> QED BY <1>5, <1>6, <1>7, <1>8, <1>9, <1>10, <1>11, <1>12, <1>13 DEF IInv, Chained

\* Steps that touch neither the log nor an append.
LEMMA OthersPreserve ==
  ASSUME IInv, UNCHANGED <<rows, head, checkpoints, mu, key, rec, lost, emptied, overlap, faults>>,
         clock' \in Nat
  PROVE  IInv'
<1>1. TypeOK' /\ OneAppend'
  BY DEF IInv, TypeOK, OneAppend
<1>2. (OneHole' <=> OneHole) /\ (HoleInside' <=> HoleInside)
  BY DEF OneHole, HoleInside, AfterHole
<1>3. Sealed(rows)' <=> Sealed(rows)
  BY DEF Sealed
<1>4. AnchoredOrCut' <=> AnchoredOrCut
  BY DEF AnchoredOrCut, AfterHole
<1>5. HeadStillNewest' <=> HeadStillNewest
  BY DEF HeadStillNewest, IsNewest
<1>6. (KeyStays' <=> KeyStays) /\ (Stored' <=> Stored)
  BY DEF KeyStays, Stored
<1>7. Chained'
  BY <1>2, <1>3, <1>4, <1>5, <1>6 DEF IInv, Chained
<1> QED BY <1>1, <1>7 DEF IInv

\* The invariant holds in every behavior.
LEMMA Invariance == Spec => []IInv
<1>1. Init => IInv
  <2> SUFFICES ASSUME Init PROVE IInv
    OBVIOUS
  <2>1. \A e \in Events : /\ rec[e].pc = "idle" /\ rec[e].ts = 0
                          /\ rec[e].prev.seq = 0
    BY DEF Init, Idle, NoHead
  <2>2. DOMAIN rec = Events /\ head.seq = 0
    BY DEF Init, NoHead
  <2>3. TypeOK
    <3>1. \A e \in Events : /\ rec[e].pc \in RecPC /\ rec[e].ts \in Nat
                            /\ rec[e].prev.seq \in Nat
      <4>1. Idle.pc \in RecPC /\ Idle.ts \in Nat /\ Idle.prev.seq \in Nat
        BY DEF RecPC, Idle, NoHead
      <4>2. \A e \in Events : rec[e] = Idle
        BY DEF Init
      <4> QED BY <4>1, <4>2
    <3>2. rows = {} /\ checkpoints = {} /\ clock \in Nat /\ lost \in Nat /\ faults \in Nat
      BY DEF Init
    <3>3. mu = Nobody /\ key \in BOOLEAN /\ emptied \in BOOLEAN /\ overlap \in BOOLEAN
      BY DEF Init
    <3> QED BY <2>2, <3>1, <3>2, <3>3 DEF TypeOK
  <2>4. OneAppend
    BY <2>1 DEF OneAppend, InMutex
  <2>5. Chained
    BY <2>1 DEF Init, Chained, OneHole, HoleInside, Sealed, AnchoredOrCut,
                HeadStillNewest, KeyStays, Stored
  <2> QED BY <2>3, <2>4, <2>5 DEF IInv
<1>2. IInv /\ [Next]_vars => IInv'
  <2> SUFFICES ASSUME IInv, [Next]_vars PROVE IInv'
    OBVIOUS
  <2>1. clock \in Nat /\ lost \in Nat
    BY DEF IInv, TypeOK
  <2>2. CASE Tick
    BY <2>1, <2>2, OthersPreserve DEF Tick
  <2>3. CASE \E e \in Events : Record(e)
    BY <2>3, AppendPreserves
  <2>4. CASE Restart
    BY <2>4, RestartPreserves
  <2>5. CASE \E cutoff \in 1..clock : \E cut \in rows : Prune(cutoff, cut)
    BY <2>1, <2>5, PrunePreserves
  <2>6. CASE VerifyRows \/ VerifyHead \/ VerifyReturn
    BY <2>1, <2>6, OthersPreserve DEF VerifyRows, VerifyHead, VerifyReturn
  <2>7. CASE \E r \in rows : LoseRow(r)
    BY <2>7, LoseRowPreserves
  <2>8. CASE UNCHANGED vars
    BY <2>1, <2>8, OthersPreserve DEF vars
  <2> QED BY <2>2, <2>3, <2>4, <2>5, <2>6, <2>7, <2>8 DEF Next
<1> QED BY <1>1, <1>2, PTL DEF Spec

\* For any set of events, any clock and any number of crashes and failed
\* statements: unless the storage has lost a row that retention has not passed, the rows are contiguous,
\* linked, correctly hashed and anchored, in the middle of every append and
\* after every prune (CreateAuditEvent, pruneTenantAuditPrefix).
THEOREM ChainStaysIntact == Spec => []ChainIntact
<1>1. IInv => ChainIntact
  BY DEF IInv, Chained, ChainIntact, OneHole, AnchoredOrCut, AfterHole, Contiguous,
         Anchored
<1> QED BY <1>1, Invariance, PTL

\* No event whose Record returned success leaves the log except under a
\* checkpoint of retention.
THEOREM NothingRecordedVanishes == Spec => []RecordedIsKept
<1>1. IInv => RecordedIsKept
  BY DEF IInv, Chained, Stored, RecordedIsKept
<1> QED BY <1>1, Invariance, PTL

-----------------------------------------------------------------------------
\* What a verification holds between its two reads, and what the verdict needs
\* of the high-water mark.
SnapshotOK ==
  ver.pc = "rows" /\ ver.lost = 0 =>
    /\ Contiguous(ver.rows) /\ Sealed(ver.rows)
    /\ \A r \in ver.rows : r.seq \in Nat /\ (r.keyed => key)

MarkIsKeyed == head # NoHead => key

VInv == SnapshotOK /\ MarkIsKeyed /\ HeadNeedsKey /\ NoFalseEditAlarm

\* An intact set of rows raises no alarm but those about time and the mark.
LEMMA IntactRowsPass ==
  ASSUME NEW rs, NEW k, NEW h, Contiguous(rs), Sealed(rs),
         \A r \in rs : r.seq \in Nat /\ (r.keyed => k),
         h # NoHead => k
  PROVE  Alarms(rs, k, h) \subseteq {"regression", "truncated", "mark"}
<1>1. ~ \E r \in rs : r.hash # RowHash(r.id, r.ts, r.keyed, r.seq, r.prev)
  BY DEF Sealed
<1>2. ~ (~k /\ (h # NoHead \/ \E r \in rs : r.keyed))
  OBVIOUS
<1>3. ~ \E r \in rs : \E p \in rs : p.seq < r.seq /\ p.keyed /\ ~r.keyed
  BY DEF Sealed
<1>4. \A r \in rs : \A p \in Before(rs, r) : p \in rs /\ r.seq = p.seq + 1
  <2> TAKE r \in rs
  <2> TAKE p \in Before(rs, r)
  <2>1. p \in rs /\ p.seq < r.seq /\ \A q \in rs : q.seq < r.seq => q.seq <= p.seq
    BY DEF Before
  <2>2. PICK t \in rs : r.seq = t.seq + 1
    BY <2>1 DEF Contiguous
  <2>3. p.seq \in Nat /\ r.seq \in Nat /\ t.seq \in Nat
    BY <2>1
  <2>4. t.seq <= p.seq
    BY <2>1, <2>2, <2>3
  <2> QED BY <2>1, <2>2, <2>3, <2>4
<1>5. ~ \E r \in rs : \E p \in Before(rs, r) : r.seq # p.seq + 1
  BY <1>4
<1>6. ~ \E r \in rs : \E p \in Before(rs, r) : r.prev # p.hash
  BY <1>4 DEF Sealed
<1> QED BY <1>1, <1>2, <1>3, <1>5, <1>6 DEF Alarms

\* A verification that runs concurrently with appends, prunes, crashes and the
\* introduction of the key never reports an edited row, a gap, a broken link, a
\* downgrade or a missing key of rows that are intact: for any set of events,
\* any clock and any number of faults (VerifySealed).  Backdating and
\* truncation it may report; see VerdictsAreExplained.
THEOREM NoFalseEditReport == Spec => []NoFalseEditAlarm
<1>1. Init => VInv
  BY DEF Init, VInv, SnapshotOK, MarkIsKeyed, HeadNeedsKey, NoFalseEditAlarm,
         NoVerification, Idle
<1>2. IInv /\ VInv /\ [Next]_vars => VInv'
  <2> SUFFICES ASSUME IInv, VInv, [Next]_vars PROVE VInv'
    OBVIOUS
  <2>1. ASSUME UNCHANGED <<ver, key, head, rec>> PROVE VInv'
    BY <2>1 DEF VInv, SnapshotOK, MarkIsKeyed, HeadNeedsKey, NoFalseEditAlarm,
                Contiguous, Sealed
  <2>2. CASE Tick
    BY <2>1, <2>2 DEF Tick
  <2>3. CASE \E e \in Events : Record(e)
    <3> SUFFICES ASSUME NEW e \in Events, Record(e) PROVE VInv'
      BY <2>3
    <3>1. UNCHANGED <<ver, key>>
      BY DEF Record, Stamp, Lock, ReadNewest, Insert, PutHead, StatementFails
    <3>2. head' = head \/ key
      BY DEF Record, Stamp, Lock, ReadNewest, Insert, PutHead, StatementFails,
             VInv, HeadNeedsKey
    <3>3. HeadNeedsKey'
      <4>1. DOMAIN rec = Events
        BY DEF IInv, TypeOK
      <4>2. \A d \in Events : rec'[d].pc = "head" => rec[d].pc = "head" \/ key
        BY <4>1 DEF Record, Stamp, Lock, ReadNewest, Insert, PutHead, StatementFails,
                    RecGoto
      <4> QED BY <3>1, <4>2 DEF VInv, HeadNeedsKey
    <3> QED BY <3>1, <3>2, <3>3 DEF VInv, SnapshotOK, MarkIsKeyed, HeadNeedsKey, NoFalseEditAlarm,
                                    Contiguous, Sealed
  <2>4. CASE Restart
    <3>1. ver' = NoVerification /\ head' = head /\ (key' = key \/ key' = TRUE)
      BY <2>4 DEF Restart
    <3>2. MarkIsKeyed'
      BY <3>1 DEF VInv, MarkIsKeyed
    <3>3. ver'.pc = "idle"
      BY <3>1 DEF NoVerification
    <3>4. HeadNeedsKey'
      BY <2>4 DEF Restart, HeadNeedsKey
    <3> QED BY <3>2, <3>3, <3>4 DEF VInv, SnapshotOK, NoFalseEditAlarm
  <2>5. CASE \E cutoff \in 1..clock : \E cut \in rows : Prune(cutoff, cut)
    BY <2>1, <2>5 DEF Prune
  <2>6. CASE VerifyRows
    <3>1. /\ ver'.pc = "rows" /\ ver'.rows = rows /\ ver'.lost = lost
          /\ UNCHANGED <<key, head, rec>>
      BY <2>6 DEF VerifyRows
    <3>2. lost = 0 => /\ Contiguous(rows) /\ Sealed(rows)
                      /\ \A r \in rows : r.seq \in Nat /\ (r.keyed => key)
      BY DEF IInv, TypeOK, Chained, OneHole, AfterHole, Contiguous, KeyStays
    <3>3. SnapshotOK'
      BY <3>1, <3>2 DEF SnapshotOK, Contiguous, Sealed
    <3> QED BY <3>1, <3>3 DEF VInv, MarkIsKeyed, HeadNeedsKey, NoFalseEditAlarm
  <2>7. CASE VerifyHead
    <3>1. UNCHANGED <<key, head, rec>> /\ ver.pc = "rows"
      BY <2>7 DEF VerifyHead
    <3>2. ver' = [ver EXCEPT !.pc = "verdict", !.alarms = Alarms(ver.rows, key, head)]
      BY <2>7 DEF VerifyHead
    <3>3. ver.lost = 0 =>
            Alarms(ver.rows, key, head) \subseteq {"regression", "truncated", "mark"}
      BY <3>1, IntactRowsPass DEF VInv, SnapshotOK, MarkIsKeyed
    <3> QED BY <3>1, <3>2, <3>3 DEF VInv, SnapshotOK, MarkIsKeyed, HeadNeedsKey, NoFalseEditAlarm
  <2>8. CASE VerifyReturn
    <3>1. ver'.pc = "idle" /\ UNCHANGED <<key, head, rec>>
      BY <2>8 DEF VerifyReturn, NoVerification
    <3> QED BY <3>1 DEF VInv, SnapshotOK, MarkIsKeyed, HeadNeedsKey, NoFalseEditAlarm
  <2>9. CASE \E r \in rows : LoseRow(r)
    BY <2>1, <2>9 DEF LoseRow
  <2>10. CASE UNCHANGED vars
    BY <2>1, <2>10 DEF vars
  <2> QED
    BY <2>2, <2>3, <2>4, <2>5, <2>6, <2>7, <2>8, <2>9, <2>10 DEF Next
<1>3. VInv => NoFalseEditAlarm
  BY DEF VInv
<1> QED BY <1>1, <1>2, <1>3, Invariance, PTL DEF Spec

-----------------------------------------------------------------------------
(* A gap is found *)

Least(m, T) == m \in T /\ \A n \in T : m <= n
Greatest(m, T) == m \in T /\ \A n \in T : n <= m

Intervals(T) == {0 .. n : n \in T}

\* Every non-empty set of naturals has a smallest element: the intervals up to
\* its elements are finite sets, ordered by inclusion.
LEMMA LeastNatural ==
  ASSUME NEW T, T \subseteq Nat, T # {}
  PROVE  \E m : Least(m, T)
<1>1. Intervals(T) \subseteq FiniteSubsetsOf(Nat) /\ Intervals(T) # {}
  <2>1. \A n \in T : IsFiniteSet(0 .. n) /\ 0 .. n \subseteq Nat
    BY FS_Interval
  <2> QED BY <2>1 DEF FiniteSubsetsOf, Intervals
<1>2. IsWellFoundedOn(StrictSubsetOrdering(Nat), FiniteSubsetsOf(Nat))
  BY FS_StrictSubsetOrderingWellFounded
<1>3. ASSUME NEW m \in T, NEW n \in T, n < m
      PROVE  <<0 .. n, 0 .. m>> \in StrictSubsetOrdering(Nat)
  <2>1. n \in Nat /\ m \in Nat
    OBVIOUS
  <2>2. 0 .. n \subseteq 0 .. m /\ m \in 0 .. m /\ m \notin 0 .. n
    BY <1>3, <2>1
  <2>3. <<0 .. n, 0 .. m>> \in (SUBSET Nat) \X (SUBSET Nat) /\ 0 .. n # 0 .. m
    BY <2>1, <2>2
  <2> QED BY <2>2, <2>3 DEF StrictSubsetOrdering
<1>4. \A m \in T : 0 .. m \in Intervals(T)
  BY DEF Intervals
<1>5. \A x \in Intervals(T) : \E m \in T : x = 0 .. m
  BY DEF Intervals
<1>6. PICK x \in Intervals(T) :
        \A y \in Intervals(T) : ~(<<y, x>> \in StrictSubsetOrdering(Nat))
  BY <1>1, <1>2, WFMin
<1>7. PICK m \in T : x = 0 .. m
  BY <1>5, <1>6
<1>8. \A n \in T : ~(n < m)
  BY <1>3, <1>4, <1>6, <1>7
<1>9. \A n \in T : m <= n
  BY <1>8
<1> QED BY <1>7, <1>9 DEF Least

\* A non-empty set of naturals below a bound has a greatest element.
LEMMA GreatestNatural ==
  ASSUME NEW T, T \subseteq Nat, T # {}, NEW b \in Nat, \A n \in T : n < b
  PROVE  \E m : Greatest(m, T)
<1> DEFINE D == {b - n : n \in T}
<1>1. D \subseteq Nat /\ D # {}
  <2>1. \A n \in T : b - n \in Nat
    OBVIOUS
  <2> QED BY <2>1
<1> HIDE DEF D
<1>2. PICK d : Least(d, D)
  BY <1>1, LeastNatural
<1> USE DEF D
<1>3. PICK m \in T : d = b - m
  BY <1>2 DEF Least
<1>4. \A n \in T : n <= m
  <2> TAKE n \in T
  <2>1. b - n \in D
    OBVIOUS
  <2>2. d <= b - n
    BY <1>2, <2>1 DEF Least
  <2> QED BY <2>2, <1>3
<1> QED BY <1>3, <1>4 DEF Greatest

\* A number that is missing between two rows shows as a gap at some row: the
\* first row above it follows the last row below it.
LEMMA MissingRowIsGap ==
  ASSUME NEW rs, NEW k, NEW h, NEW n \in Nat,
         \A r \in rs : r.seq \in Nat /\ r.seq # n,
         \E p, q \in rs : p.seq < n /\ n < q.seq
  PROVE  "gap" \in Alarms(rs, k, h)
<1> DEFINE Below == {r.seq : r \in {p \in rs : p.seq < n}}
           Above == {r.seq : r \in {q \in rs : q.seq > n}}
<1>1. /\ Below \subseteq Nat /\ Below # {} /\ \A m \in Below : m < n
      /\ Above \subseteq Nat /\ Above # {}
  OBVIOUS
<1> HIDE DEF Below, Above
<1>2. PICK b : Greatest(b, Below)
  BY <1>1, GreatestNatural
<1>3. PICK a : Least(a, Above)
  BY <1>1, LeastNatural
<1> USE DEF Below, Above
<1>4. PICK p \in rs : p.seq = b /\ p.seq < n
  BY <1>2 DEF Greatest
<1>5. PICK r \in rs : r.seq = a /\ r.seq > n
  BY <1>3 DEF Least
<1>6. \A q \in rs : q.seq < n => q.seq <= p.seq
  BY <1>2, <1>4 DEF Greatest
<1>7. \A q \in rs : q.seq > n => r.seq <= q.seq
  BY <1>3, <1>5 DEF Least
<1> HIDE DEF Below, Above
<1>8. p \in Before(rs, r)
  <2>1. p.seq < r.seq
    BY <1>4, <1>5
  <2>2. ASSUME NEW q \in rs, q.seq < r.seq PROVE q.seq <= p.seq
    <3>1. ~(q.seq > n)
      BY <2>2, <1>7
    <3>2. q.seq < n
      BY <3>1
    <3> QED BY <3>2, <1>6
  <2> QED BY <2>1, <2>2 DEF Before
<1>9. r.seq # p.seq + 1
  BY <1>4, <1>5
<1> QED BY <1>8, <1>9 DEF Alarms

-----------------------------------------------------------------------------
(* The mark follows the newest row, and so does the verdict *)

HasNewest(rs) == rs = {} \/ \E r \in rs : IsNewest(r, rs)

\* Head h was read no later than head n: they are the same, or n is newer.
UpTo(h, n) == h = n \/ h.seq < n.seq

\* Between its two writes an append has stored the newest row, unless
\* retention has deleted it.
AtHead ==
  \A e \in Events : rec[e].pc = "head" /\ ~emptied => Newest(rows) = HeadOf(NewRow(e))

MarkBehind == ~emptied => UpTo(head, Newest(rows))

SnapshotBehind ==
  /\ ver.pc # "idle" => Newest(ver.rows).seq \in Nat
  /\ ver.pc = "rows" /\ ~emptied => UpTo(Newest(ver.rows), Newest(rows))

VerdictDated ==
  ver.pc = "verdict" /\ ver.alarms \cap {"truncated", "mark"} # {} =>
    emptied \/ Newest(rows).seq > Newest(ver.rows).seq

HoleSeen ==
  ver.pc = "rows" /\ ver.lost # 0 =>
    ver.lost \in Nat /\ \A r \in ver.rows : r.seq \in Nat /\ r.seq # ver.lost

GapReported ==
  ver.pc = "verdict" =>
    ((ver.lost # 0 /\ \E p, q \in ver.rows : p.seq < ver.lost /\ ver.lost < q.seq)
       => "gap" \in ver.alarms)

MInv ==
  /\ HasNewest(rows) /\ AtHead /\ MarkBehind /\ SnapshotBehind /\ VerdictDated
  /\ HoleSeen /\ GapReported

LEMMA NewestIs ==
  ASSUME NEW rs, NEW r \in rs, IsNewest(r, rs), \A s \in rs : s.seq \in Nat,
         \A s, t \in rs : s.seq = t.seq => s = t
  PROVE  Newest(rs) = HeadOf(r) /\ Newest(rs).seq = r.seq
<1> DEFINE c == CHOOSE s \in rs : IsNewest(s, rs)
<1>1. c \in rs /\ IsNewest(c, rs)
  OBVIOUS
<1>2. c.seq = r.seq
  BY <1>1 DEF IsNewest
<1>3. c = r
  BY <1>1, <1>2
<1>4. Newest(rs) = HeadOf(c)
  BY DEF Newest
<1>5. Newest(rs) = HeadOf(r)
  BY <1>3, <1>4
<1>6. HeadOf(r).seq = r.seq
  BY DEF HeadOf
<1> QED BY <1>5, <1>6

LEMMA NewestType ==
  ASSUME NEW rs, HasNewest(rs), \A s \in rs : s.seq \in Nat,
         \A s, t \in rs : s.seq = t.seq => s = t
  PROVE  Newest(rs).seq \in Nat
<1>1. CASE rs = {}
  BY <1>1 DEF Newest, NoHead
<1>2. CASE \E r \in rs : IsNewest(r, rs)
  BY <1>2, NewestIs
<1> QED BY <1>1, <1>2 DEF HasNewest

LEMMA RowFacts ==
  ASSUME IInv
  PROVE  /\ \A r \in rows : r.seq \in Nat \ {0}
         /\ \A r, s \in rows : r.seq = s.seq => r = s
  BY DEF IInv, TypeOK, Chained, OneHole

\* An insert puts a newer row on top.
LEMMA InsertRises ==
  ASSUME IInv, IInv', HasNewest(rows), NEW e \in Events, Insert(e)
  PROVE  /\ HasNewest(rows') /\ Newest(rows') = HeadOf(NewRow(e))
         /\ Newest(rows).seq < Newest(rows').seq
<1>1. /\ \A r \in rows : r.seq \in Nat \ {0}
      /\ \A r, s \in rows : r.seq = s.seq => r = s
      /\ \A r \in rows' : r.seq \in Nat
      /\ \A r, s \in rows' : r.seq = s.seq => r = s
  BY DEF IInv, TypeOK, Chained, OneHole
<1>2. PICK n : n = NewRow(e)
  OBVIOUS
<1>3. n.seq = rec[e].prev.seq + 1 /\ rec[e].prev.seq \in Nat
  BY <1>2, NewRowFields DEF IInv, TypeOK
<1>4. rows' = rows \cup {n} /\ rec[e].pc = "insert"
  BY <1>2 DEF Insert
<1>5. \/ rows = {}
      \/ \E p \in rows : p.seq = rec[e].prev.seq /\ IsNewest(p, rows)
  BY <1>4 DEF IInv, Chained, HeadStillNewest
<1>6. \A r \in rows : r.seq <= n.seq
  BY <1>1, <1>3, <1>5 DEF IsNewest
<1>7. IsNewest(n, rows') /\ n \in rows'
  BY <1>3, <1>4, <1>6 DEF IsNewest
<1>8. Newest(rows') = HeadOf(n) /\ Newest(rows').seq = n.seq
  BY <1>1, <1>7, NewestIs
<1>9. Newest(rows).seq < n.seq
  <2>1. CASE rows = {}
    BY <2>1, <1>3 DEF Newest, NoHead
  <2>2. CASE \E p \in rows : p.seq = rec[e].prev.seq /\ IsNewest(p, rows)
    <3>1. PICK p \in rows : p.seq = rec[e].prev.seq /\ IsNewest(p, rows)
      BY <2>2
    <3>2. Newest(rows).seq = p.seq
      BY <3>1, <1>1, NewestIs
    <3> QED BY <3>1, <3>2, <1>3
  <2> QED BY <2>1, <2>2, <1>5
<1> QED BY <1>2, <1>7, <1>8, <1>9 DEF HasNewest

\* A step that deletes rows but not the newest.
LEMMA NewestStays ==
  ASSUME IInv, NEW rs, rs \subseteq rows, NEW r \in rs, IsNewest(r, rows)
  PROVE  HasNewest(rs) /\ Newest(rs) = Newest(rows)
<1>1. IsNewest(r, rs) /\ r \in rows
  BY DEF IsNewest
<1>2. /\ \A s \in rows : s.seq \in Nat
      /\ \A s, t \in rows : s.seq = t.seq => s = t
  BY RowFacts
<1>3. Newest(rows) = HeadOf(r)
  BY <1>1, <1>2, NewestIs
<1>4. Newest(rs) = HeadOf(r)
  <2>1. /\ \A s \in rs : s.seq \in Nat
        /\ \A s, t \in rs : s.seq = t.seq => s = t
    BY <1>2
  <2> QED BY <2>1, <1>1, NewestIs
<1> QED BY <1>1, <1>3, <1>4 DEF HasNewest

LEMMA PruneKeepsNewest ==
  ASSUME IInv, HasNewest(rows), NEW cutoff, NEW cut \in rows, Prune(cutoff, cut)
  PROVE  /\ HasNewest(rows') /\ (emptied => emptied')
         /\ ~emptied' => Newest(rows') = Newest(rows)
<1>1. PICK r \in rows : IsNewest(r, rows)
  BY DEF HasNewest
<1>2. rows' = {s \in rows : s.seq > cut.seq} /\ emptied' = (emptied \/ IsNewest(cut, rows))
  BY DEF Prune
<1>3. r.seq \in Nat /\ cut.seq \in Nat /\ cut.seq <= r.seq
  BY <1>1, RowFacts DEF IsNewest
<1>4. CASE r.seq > cut.seq
  BY <1>1, <1>2, <1>4, NewestStays
<1>5. CASE r.seq = cut.seq
  <2>1. r = cut
    BY <1>5, RowFacts
  <2>2. rows' = {}
    BY <1>1, <1>2, <2>1, RowFacts DEF IsNewest
  <2> QED BY <1>1, <1>2, <2>1, <2>2 DEF HasNewest
<1> QED BY <1>3, <1>4, <1>5

LEMMA LossKeepsNewest ==
  ASSUME IInv, HasNewest(rows), NEW x \in rows, LoseRow(x)
  PROVE  HasNewest(rows') /\ Newest(rows') = Newest(rows)
<1>1. PICK r \in rows : IsNewest(r, rows)
  BY DEF HasNewest
<1>2. PICK q \in rows : q.seq > x.seq
  BY DEF LoseRow
<1>3. r # x
  BY <1>1, <1>2, RowFacts DEF IsNewest
<1>4. rows' = rows \ {x}
  BY DEF LoseRow
<1> QED BY <1>1, <1>3, <1>4, NewestStays

\* What every step does to the newest row: it stays or is overtaken, unless
\* retention deletes it.
LEMMA NewestRises ==
  ASSUME IInv, IInv', HasNewest(rows), [Next]_vars
  PROVE  /\ HasNewest(rows') /\ Newest(rows').seq \in Nat /\ Newest(rows).seq \in Nat
         /\ emptied => emptied'
         /\ ~emptied' => UpTo(Newest(rows), Newest(rows'))
<1>1. ASSUME rows' = rows, emptied' = emptied
      PROVE  HasNewest(rows') /\ (emptied => emptied') /\ UpTo(Newest(rows), Newest(rows'))
  BY <1>1 DEF UpTo
<1>2. ASSUME HasNewest(rows')
      PROVE  Newest(rows').seq \in Nat /\ Newest(rows).seq \in Nat
  <2>1. /\ \A r \in rows' : r.seq \in Nat
        /\ \A r, s \in rows' : r.seq = s.seq => r = s
    BY DEF IInv, TypeOK, Chained, OneHole
  <2>2. Newest(rows').seq \in Nat
    BY <1>2, <2>1, NewestType
  <2> QED BY <2>2, RowFacts, NewestType
<1>3. CASE \E e \in Events : Insert(e)
  <2>1. HasNewest(rows') /\ Newest(rows).seq < Newest(rows').seq /\ emptied' = emptied
    BY <1>3, InsertRises DEF Insert
  <2> QED BY <1>2, <2>1 DEF UpTo
<1>4. CASE \E cutoff \in 1..clock : \E cut \in rows : Prune(cutoff, cut)
  <2>1. HasNewest(rows') /\ (emptied => emptied')
        /\ (~emptied' => Newest(rows') = Newest(rows))
    BY <1>4, PruneKeepsNewest
  <2> QED BY <1>2, <2>1 DEF UpTo
<1>5. CASE \E r \in rows : LoseRow(r)
  <2>1. HasNewest(rows') /\ Newest(rows') = Newest(rows) /\ emptied' = emptied
    BY <1>5, LossKeepsNewest DEF LoseRow
  <2> QED BY <1>2, <2>1 DEF UpTo
<1>6. CASE \E e \in Events : Record(e) /\ ~Insert(e)
  BY <1>1, <1>2, <1>6 DEF Record, Stamp, Lock, ReadNewest, PutHead, StatementFails
<1>7. CASE Tick \/ Restart \/ VerifyRows \/ VerifyHead \/ VerifyReturn \/ UNCHANGED vars
  BY <1>1, <1>2, <1>7 DEF Tick, Restart, VerifyRows, VerifyHead, VerifyReturn, vars
<1> QED BY <1>3, <1>4, <1>5, <1>6, <1>7 DEF Next

\* An append between its writes knows the newest row.
LEMMA AtHeadPreserved ==
  ASSUME IInv, IInv', MInv, [Next]_vars
  PROVE  AtHead'
<1> SUFFICES ASSUME NEW e \in Events, rec'[e].pc = "head", ~emptied'
             PROVE  Newest(rows') = HeadOf(NewRow(e))'
  BY DEF AtHead
<1>1. DOMAIN rec = Events /\ OneAppend
  BY DEF IInv, TypeOK
<1>2. CASE Insert(e)
  <2>1. rec'[e].ts = rec[e].ts /\ rec'[e].prev = rec[e].prev /\ key' = key
    BY <1>1, <1>2 DEF Insert, RecGoto
  <2>2. NewRow(e)' = NewRow(e)
    BY <2>1 DEF NewRow
  <2>3. Newest(rows') = HeadOf(NewRow(e))
    BY <1>2, InsertRises DEF MInv
  <2> QED BY <2>2, <2>3 DEF HeadOf
<1>3. CASE rec[e].pc = "head" /\ rec' [e] = rec[e] /\ key' = key /\ ~emptied
           /\ Newest(rows') = Newest(rows)
  <2>1. NewRow(e)' = NewRow(e)
    BY <1>3 DEF NewRow
  <2>2. Newest(rows) = HeadOf(NewRow(e))
    BY <1>3 DEF MInv, AtHead
  <2> QED BY <1>3, <2>1, <2>2 DEF HeadOf
<1>4. CASE \E d \in Events : Record(d)
  <2>1. PICK d \in Events : Record(d)
    BY <1>4
  <2>2. UNCHANGED <<key, emptied>>
    BY <2>1 DEF Record, Stamp, Lock, ReadNewest, Insert, PutHead, StatementFails
  <2>3. CASE d = e
    <3>1. Insert(e)
      BY <2>1, <2>3, <1>1 DEF Record, Stamp, Lock, ReadNewest, Insert, PutHead,
                              StatementFails, RecGoto
    <3> QED BY <3>1, <1>2
  <2>4. CASE d # e
    <3>1. rec'[e] = rec[e]
      BY <2>1, <2>4, <1>1 DEF Record, Stamp, Lock, ReadNewest, Insert, PutHead,
                              StatementFails, RecGoto
    <3>2. rec[d].pc \notin InMutex
      BY <3>1, <2>4, <1>1 DEF OneAppend, InMutex
    <3>3. rows' = rows
      BY <2>1, <3>2 DEF Record, Stamp, Lock, ReadNewest, Insert, PutHead,
                        StatementFails, InMutex
    <3> QED BY <3>1, <3>3, <2>2, <1>3
  <2> QED BY <2>3, <2>4
<1>5. CASE Restart
  BY <1>5 DEF Restart
<1>6. CASE \E cutoff \in 1..clock : \E cut \in rows : Prune(cutoff, cut)
  <2>1. UNCHANGED <<key, rec>>
    BY <1>6 DEF Prune
  <2>2. ~emptied /\ Newest(rows') = Newest(rows)
    BY <1>6, PruneKeepsNewest DEF MInv
  <2> QED BY <2>1, <2>2, <1>3
<1>7. CASE \E r \in rows : LoseRow(r)
  <2>1. UNCHANGED <<key, rec, emptied>>
    BY <1>7 DEF LoseRow
  <2>2. Newest(rows') = Newest(rows)
    BY <1>7, LossKeepsNewest DEF MInv
  <2> QED BY <2>1, <2>2, <1>3
<1>8. CASE Tick \/ VerifyRows \/ VerifyHead \/ VerifyReturn \/ UNCHANGED vars
  <2>1. UNCHANGED <<key, rec, emptied, rows>>
    BY <1>8 DEF Tick, VerifyRows, VerifyHead, VerifyReturn, vars
  <2> QED BY <2>1, <1>3
<1> QED BY <1>4, <1>5, <1>6, <1>7, <1>8 DEF Next

\* The mark never runs ahead of the newest row.
LEMMA MarkPreserved ==
  ASSUME IInv, IInv', MInv, [Next]_vars
  PROVE  MarkBehind'
<1> SUFFICES ASSUME ~emptied' PROVE UpTo(head', Newest(rows'))
  BY DEF MarkBehind, UpTo
<1>1. /\ ~emptied /\ UpTo(Newest(rows), Newest(rows'))
      /\ Newest(rows').seq \in Nat /\ Newest(rows).seq \in Nat /\ head.seq \in Nat
      /\ UpTo(head, Newest(rows))
  BY NewestRises DEF MInv, MarkBehind, IInv, TypeOK
<1>2. CASE head' = head
  BY <1>1, <1>2 DEF UpTo
<1>3. CASE \E e \in Events : PutHead(e)
  <2>1. PICK e \in Events : PutHead(e)
    BY <1>3
  <2>2. head' = Newest(rows) /\ rows' = rows
    BY <2>1, <1>1 DEF PutHead, MInv, AtHead
  <2> QED BY <2>2 DEF UpTo
<1>4. head' = head \/ \E e \in Events : PutHead(e)
  BY DEF Next, Tick, Record, Stamp, Lock, ReadNewest, Insert, StatementFails, Restart,
         Prune, VerifyRows, VerifyHead, VerifyReturn, LoseRow, vars
<1> QED BY <1>2, <1>3, <1>4

\* Alarms about the mark need a row that was stored after the rows were read.
LEMMA MarkAlarms ==
  ASSUME NEW rs, NEW k, NEW h, NEW n, UpTo(Newest(rs), n), UpTo(h, n),
         Newest(rs).seq \in Nat, h.seq \in Nat, n.seq \in Nat,
         Alarms(rs, k, h) \cap {"truncated", "mark"} # {}
  PROVE  n.seq > Newest(rs).seq
<1>1. \/ Newest(rs).seq < h.seq
      \/ Newest(rs).seq = h.seq /\ Newest(rs).hash # h.hash
  BY DEF Alarms
<1> QED BY <1>1 DEF UpTo

LEMMA VerificationPreserved ==
  ASSUME IInv, IInv', MInv, [Next]_vars
  PROVE  SnapshotBehind' /\ VerdictDated' /\ HoleSeen' /\ GapReported'
<1>1. /\ Newest(rows').seq \in Nat /\ Newest(rows).seq \in Nat
      /\ emptied => emptied'
      /\ ~emptied' => UpTo(Newest(rows), Newest(rows'))
  BY NewestRises DEF MInv
<1>2. CASE ver' = ver
  <2>1. HoleSeen' /\ GapReported'
    BY <1>2 DEF MInv, HoleSeen, GapReported
  <2>2. SnapshotBehind'
    <3>1. Newest(ver.rows)' = Newest(ver.rows)
      BY <1>2 DEF Newest, HeadOf, IsNewest, NoHead, Genesis
    <3> QED BY <3>1, <1>1, <1>2 DEF MInv, SnapshotBehind, UpTo
  <2>3. VerdictDated'
    <3>1. Newest(ver.rows)' = Newest(ver.rows)
      BY <1>2 DEF Newest, HeadOf, IsNewest, NoHead, Genesis
    <3> QED BY <3>1, <1>1, <1>2 DEF MInv, SnapshotBehind, VerdictDated, UpTo
  <2> QED BY <2>1, <2>2, <2>3
<1>3. CASE ver' = NoVerification
  BY <1>3 DEF NoVerification, SnapshotBehind, VerdictDated, HoleSeen, GapReported
<1>4. CASE VerifyRows
  <2>1. /\ ver'.pc = "rows" /\ ver'.rows = rows /\ ver'.lost = lost
        /\ rows' = rows /\ emptied' = emptied
    BY <1>4 DEF VerifyRows
  <2>2. VerdictDated' /\ GapReported'
    BY <2>1 DEF VerdictDated, GapReported
  <2>3. HoleSeen'
    BY <2>1 DEF HoleSeen, IInv, TypeOK, Chained, HoleInside
  <2>4. SnapshotBehind'
    BY <2>1, <1>1 DEF SnapshotBehind, UpTo
  <2> QED BY <2>2, <2>3, <2>4
<1>5. CASE VerifyHead
  <2>1. /\ ver'.pc = "verdict" /\ ver'.rows = ver.rows /\ ver'.lost = ver.lost
        /\ ver'.alarms = Alarms(ver.rows, key, head)
        /\ ver.pc = "rows" /\ rows' = rows /\ emptied' = emptied
    BY <1>5 DEF VerifyHead
  <2>2. SnapshotBehind' /\ HoleSeen'
    BY <2>1 DEF MInv, SnapshotBehind, HoleSeen
  <2>3. GapReported'
    BY <2>1, MissingRowIsGap DEF MInv, HoleSeen, GapReported
  <2>4. VerdictDated'
    <3> SUFFICES ASSUME Alarms(ver.rows, key, head) \cap {"truncated", "mark"} # {}, ~emptied
                 PROVE  Newest(rows).seq > Newest(ver.rows).seq
      BY <2>1 DEF VerdictDated
    <3>1. UpTo(Newest(ver.rows), Newest(rows)) /\ Newest(ver.rows).seq \in Nat
      BY <2>1 DEF MInv, SnapshotBehind
    <3>2. UpTo(head, Newest(rows)) /\ head.seq \in Nat
      BY DEF MInv, MarkBehind, IInv, TypeOK
    <3> QED BY <3>1, <3>2, <1>1, MarkAlarms
  <2> QED BY <2>2, <2>3, <2>4
<1>6. ver' = ver \/ ver' = NoVerification \/ VerifyRows \/ VerifyHead
  BY DEF Next, Tick, Record, Stamp, Lock, ReadNewest, Insert, PutHead, StatementFails,
         Restart, Prune, VerifyReturn, LoseRow, vars
<1> QED BY <1>2, <1>3, <1>4, <1>5, <1>6

-----------------------------------------------------------------------------
(* Backdating is claimed only after two Record calls have overlapped *)

\* Along the chain no timestamp goes back.
Sorted(rs) == \A r, s \in rs : r.seq < s.seq => ~(s.ts < r.ts)

OneUnderWay ==
  \A d, e \in Events : rec[d].pc \in UnderWay /\ rec[e].pc \in UnderWay => d = e

RowsPast == \A r \in rows : r.ts <= clock

RecordPast ==
  \A e \in Events : rec[e].pc \in UnderWay =>
    rec[e].ts <= clock /\ \A r \in rows : r.ts <= rec[e].ts

\* While no two Record calls have overlapped, rows are stored in the order of
\* their timestamps.
InOrder ==
  /\ OneUnderWay /\ Sorted(rows) /\ RowsPast /\ RecordPast
  /\ ver.pc = "rows" => Sorted(ver.rows)

RegressionExplained == ver.pc = "verdict" /\ "regression" \in ver.alarms => overlap

TimeInv == (~overlap => InOrder) /\ RegressionExplained

LEMMA SortedPasses ==
  ASSUME NEW rs, NEW k, NEW h, Sorted(rs)
  PROVE  "regression" \notin Alarms(rs, k, h)
<1>1. \A r \in rs : \A p \in Before(rs, r) : p \in rs /\ p.seq < r.seq
  BY DEF Before
<1>2. ~ \E r \in rs : \E p \in Before(rs, r) : r.keyed /\ p.keyed /\ r.ts < p.ts
  BY <1>1 DEF Sorted
<1> QED BY <1>2 DEF Alarms

\* A step of a Record call other than its first and its insert.
LEMMA LaterSteps ==
  ASSUME IInv, NEW e \in Events,
         Lock(e) \/ ReadNewest(e) \/ PutHead(e) \/ StatementFails(e)
  PROVE  /\ UNCHANGED <<rows, clock, ver, overlap>>
         /\ \A d \in Events : /\ rec'[d].ts = rec[d].ts
                              /\ rec'[d].pc \in UnderWay => rec[d].pc \in UnderWay
<1>1. DOMAIN rec = Events
  BY DEF IInv, TypeOK
<1>2. UNCHANGED <<rows, clock, ver, overlap>>
  BY DEF Lock, ReadNewest, PutHead, StatementFails
<1>3. rec[e].pc \in UnderWay
  BY DEF Lock, ReadNewest, PutHead, StatementFails, UnderWay, InMutex
<1>4. PICK p, h : rec' = [rec EXCEPT ![e] = [pc |-> p, ts |-> rec[e].ts, prev |-> h]]
  BY DEF Lock, ReadNewest, PutHead, StatementFails, RecGoto
<1>5. \A d \in Events : d # e => rec'[d] = rec[d]
  BY <1>1, <1>4
<1>6. rec'[e].ts = rec[e].ts
  BY <1>1, <1>4
<1> QED BY <1>2, <1>3, <1>5, <1>6

LEMMA LaterStepsInOrder ==
  ASSUME InOrder, UNCHANGED <<rows, clock, ver>>,
         \A d \in Events : /\ rec'[d].ts = rec[d].ts
                           /\ rec'[d].pc \in UnderWay => rec[d].pc \in UnderWay
  PROVE  InOrder'
<1>1. OneUnderWay'
  BY DEF InOrder, OneUnderWay
<1>2. RecordPast'
  BY DEF InOrder, RecordPast
<1>3. RowsPast' /\ Sorted(rows)' /\ (ver.pc = "rows" => Sorted(ver.rows))'
  BY DEF InOrder, RowsPast, Sorted
<1> QED BY <1>1, <1>2, <1>3 DEF InOrder

LEMMA StampInOrder ==
  ASSUME IInv, InOrder, NEW e \in Events, Stamp(e), ~overlap'
  PROVE  InOrder'
<1>1. UNCHANGED <<rows, clock, ver>> /\ DOMAIN rec = Events /\ clock \in Nat
  BY DEF Stamp, IInv, TypeOK
<1>2. rec'[e].pc = "stamped" /\ rec'[e].ts = clock
  BY <1>1 DEF Stamp
<1>3. \A d \in Events : d # e => rec'[d] = rec[d]
  BY <1>1 DEF Stamp
<1>4. \A d \in Events : rec[d].pc \notin UnderWay
  BY DEF Stamp
<1>5. OneUnderWay'
  BY <1>3, <1>4 DEF OneUnderWay
<1>6. RecordPast'
  <2> SUFFICES ASSUME NEW d \in Events, rec'[d].pc \in UnderWay
               PROVE  rec'[d].ts <= clock /\ \A r \in rows : r.ts <= rec'[d].ts
    BY <1>1 DEF RecordPast
  <2>1. d = e
    BY <1>3, <1>4
  <2> QED BY <2>1, <1>1, <1>2 DEF InOrder, RowsPast
<1>7. RowsPast' /\ Sorted(rows)' /\ (ver.pc = "rows" => Sorted(ver.rows))'
  BY <1>1 DEF InOrder, RowsPast, Sorted
<1> QED BY <1>5, <1>6, <1>7 DEF InOrder

LEMMA InsertInOrder ==
  ASSUME IInv, InOrder, NEW e \in Events, Insert(e)
  PROVE  InOrder'
<1>1. /\ UNCHANGED <<clock, ver>> /\ DOMAIN rec = Events
      /\ rec[e].pc = "insert" /\ rec[e].ts \in Nat /\ clock \in Nat
      /\ \A r \in rows : r.ts \in Nat /\ r.seq \in Nat
      /\ rec[e].prev.seq \in Nat
  BY DEF Insert, IInv, TypeOK
<1>2. PICK n : n = NewRow(e)
  OBVIOUS
<1>3. rows' = rows \cup {n} /\ n.ts = rec[e].ts /\ n.seq = rec[e].prev.seq + 1
  BY <1>2, NewRowFields DEF Insert
<1>4. PICK p, h : rec' = [rec EXCEPT ![e] = [pc |-> p, ts |-> rec[e].ts, prev |-> h]]
  BY DEF Insert, RecGoto
<1>5. \A d \in Events : d # e => rec'[d] = rec[d]
  BY <1>1, <1>4
<1>6. rec'[e].ts = rec[e].ts
  BY <1>1, <1>4
<1>7. rec[e].pc \in UnderWay
  BY <1>1 DEF UnderWay, InMutex
<1>8. rec[e].ts <= clock /\ \A r \in rows : r.ts <= rec[e].ts
  BY <1>7 DEF InOrder, RecordPast
<1>9. \A r \in rows : r.seq < n.seq
  <2>1. \/ rows = {}
        \/ \E q \in rows : q.seq = rec[e].prev.seq /\ IsNewest(q, rows)
    BY <1>1 DEF IInv, Chained, HeadStillNewest
  <2> QED BY <2>1, <1>1, <1>3 DEF IsNewest
<1>10. OneUnderWay'
  BY <1>5, <1>7 DEF InOrder, OneUnderWay
<1>11. RowsPast'
  BY <1>1, <1>3, <1>8 DEF InOrder, RowsPast
<1>12. RecordPast'
  <2> SUFFICES ASSUME NEW d \in Events, rec'[d].pc \in UnderWay
               PROVE  rec'[d].ts <= clock /\ \A r \in rows' : r.ts <= rec'[d].ts
    BY <1>1 DEF RecordPast
  <2>1. d = e
    BY <1>5, <1>7 DEF InOrder, OneUnderWay
  <2> QED BY <2>1, <1>1, <1>3, <1>6, <1>8
<1>13. Sorted(rows')
  <2> SUFFICES ASSUME NEW r \in rows', NEW s \in rows', r.seq < s.seq
               PROVE  ~(s.ts < r.ts)
    BY DEF Sorted
  <2>1. CASE s = n
    BY <2>1, <1>1, <1>3, <1>8
  <2>2. CASE s \in rows
    <3>1. r \in rows
      BY <2>2, <1>1, <1>3, <1>9
    <3> QED BY <3>1, <2>2 DEF InOrder, Sorted
  <2> QED BY <2>1, <2>2, <1>3
<1>14. (ver.pc = "rows" => Sorted(ver.rows))'
  BY <1>1 DEF InOrder, Sorted
<1>15. Sorted(rows)'
  BY <1>13 DEF Sorted
<1> QED BY <1>10, <1>11, <1>12, <1>14, <1>15 DEF InOrder

\* A step that at most deletes rows.
LEMMA DeletionInOrder ==
  ASSUME InOrder, rows' \subseteq rows, UNCHANGED <<clock, rec, ver>>
  PROVE  InOrder'
<1>1. OneUnderWay' /\ RowsPast' /\ RecordPast'
  BY DEF InOrder, OneUnderWay, RowsPast, RecordPast
<1>2. Sorted(rows)' /\ (ver.pc = "rows" => Sorted(ver.rows))'
  BY DEF InOrder, Sorted
<1> QED BY <1>1, <1>2 DEF InOrder

LEMMA TimePreserved ==
  ASSUME IInv, TimeInv, [Next]_vars
  PROVE  TimeInv'
<1>1. CASE \E e \in Events : Record(e)
  <2>1. PICK e \in Events : Record(e)
    BY <1>1
  <2>2. ver' = ver /\ (overlap => overlap')
    <3>1. ver' = ver
      BY <2>1 DEF Record, Stamp, Lock, ReadNewest, Insert, PutHead, StatementFails
    <3>2. CASE Stamp(e)
      BY <3>1, <3>2, Zenon DEF Stamp
    <3>3. CASE ~Stamp(e)
      BY <2>1, <3>1, <3>3 DEF Record, Lock, ReadNewest, Insert, PutHead, StatementFails
    <3> QED BY <3>2, <3>3
  <2>3. RegressionExplained'
    BY <2>2 DEF TimeInv, RegressionExplained
  <2>4. ASSUME ~overlap' PROVE InOrder'
    <3>1. InOrder
      BY <2>2, <2>4 DEF TimeInv
    <3>2. CASE Stamp(e)
      BY <3>1, <3>2, <2>4, StampInOrder
    <3>3. CASE Insert(e)
      BY <3>1, <3>3, InsertInOrder
    <3>4. CASE Lock(e) \/ ReadNewest(e) \/ PutHead(e) \/ StatementFails(e)
      BY <3>1, <3>4, LaterSteps, LaterStepsInOrder
    <3> QED BY <2>1, <3>2, <3>3, <3>4 DEF Record
  <2> QED BY <2>3, <2>4 DEF TimeInv
<1>2. CASE Tick
  <2>1. UNCHANGED <<rows, rec, ver, overlap>> /\ clock' = clock + 1 /\ clock \in Nat
    BY <1>2 DEF Tick, IInv, TypeOK
  <2>2. ASSUME InOrder PROVE InOrder'
    <3>1. OneUnderWay' /\ Sorted(rows)' /\ (ver.pc = "rows" => Sorted(ver.rows))'
      BY <2>1, <2>2 DEF InOrder, OneUnderWay, Sorted
    <3>2. RowsPast'
      BY <2>1, <2>2 DEF InOrder, RowsPast, IInv, TypeOK
    <3>3. RecordPast'
      BY <2>1, <2>2 DEF InOrder, RecordPast, IInv, TypeOK
    <3> QED BY <3>1, <3>2, <3>3 DEF InOrder
  <2> QED BY <2>1, <2>2 DEF TimeInv, RegressionExplained
<1>3. CASE Restart
  <2>1. UNCHANGED <<rows, clock, overlap>> /\ ver'.pc = "idle"
    BY <1>3 DEF Restart, NoVerification
  <2>2. \A e \in Events : rec'[e].pc \notin UnderWay
    BY <1>3 DEF Restart, UnderWay, InMutex
  <2>3. ASSUME InOrder PROVE InOrder'
    BY <2>1, <2>2, <2>3 DEF InOrder, OneUnderWay, RowsPast, RecordPast, Sorted
  <2> QED BY <2>1, <2>3 DEF TimeInv, RegressionExplained
<1>4. CASE (\E cutoff \in 1..clock : \E cut \in rows : Prune(cutoff, cut))
           \/ (\E r \in rows : LoseRow(r)) \/ UNCHANGED vars
  <2>1. rows' \subseteq rows /\ UNCHANGED <<clock, rec, ver, overlap>>
    BY <1>4 DEF Prune, LoseRow, vars
  <2> QED BY <2>1, DeletionInOrder DEF TimeInv, RegressionExplained
<1>5. CASE VerifyRows
  <2>1. UNCHANGED <<rows, clock, rec, overlap>> /\ ver'.pc = "rows" /\ ver'.rows = rows
    BY <1>5 DEF VerifyRows
  <2>2. ASSUME InOrder PROVE InOrder'
    <3>1. OneUnderWay' /\ RowsPast' /\ RecordPast'
      BY <2>1, <2>2 DEF InOrder, OneUnderWay, RowsPast, RecordPast
    <3>2. Sorted(rows)' /\ Sorted(ver.rows)'
      BY <2>1, <2>2 DEF InOrder, Sorted
    <3> QED BY <3>1, <3>2 DEF InOrder
  <2> QED BY <2>1, <2>2 DEF TimeInv, RegressionExplained
<1>6. CASE VerifyHead
  <2>1. /\ UNCHANGED <<rows, clock, rec, overlap>>
        /\ ver.pc = "rows" /\ ver'.pc = "verdict"
        /\ ver'.alarms = Alarms(ver.rows, key, head)
    BY <1>6 DEF VerifyHead
  <2>2. ASSUME InOrder PROVE InOrder' /\ "regression" \notin ver'.alarms
    <3>1. OneUnderWay' /\ RowsPast' /\ RecordPast' /\ Sorted(rows)'
      BY <2>1, <2>2 DEF InOrder, OneUnderWay, RowsPast, RecordPast, Sorted
    <3>2. "regression" \notin ver'.alarms
      BY <2>1, <2>2, SortedPasses DEF InOrder
    <3> QED BY <2>1, <3>1, <3>2 DEF InOrder
  <2> QED BY <2>1, <2>2 DEF TimeInv, RegressionExplained
<1>7. CASE VerifyReturn
  <2>1. UNCHANGED <<rows, clock, rec, overlap>> /\ ver'.pc = "idle"
    BY <1>7 DEF VerifyReturn, NoVerification
  <2>2. ASSUME InOrder PROVE InOrder'
    BY <2>1, <2>2 DEF InOrder, OneUnderWay, RowsPast, RecordPast, Sorted
  <2> QED BY <2>1, <2>2 DEF TimeInv, RegressionExplained
<1> QED BY <1>1, <1>2, <1>3, <1>4, <1>5, <1>6, <1>7 DEF Next

\* What an alarm of a verification means, for any set of events, any clock and
\* any number of faults.  The code does raise alarms about an untouched log;
\* these are the only ones: backdating after two Record calls have overlapped,
\* a truncated tail or a wrong mark when a row was stored after the rows were
\* read or retention has deleted the newest row.  Every other alarm means
\* damage, and a row that the storage lost from the middle is always reported
\* (VerifyAuditChain, VerifySealed).
THEOREM VerdictsAreExplained == Spec => []AlarmsExplained
<1>1. Init => MInv
  BY DEF Init, MInv, HasNewest, AtHead, MarkBehind, SnapshotBehind, VerdictDated, HoleSeen,
         GapReported, NoVerification, Idle, UpTo, Newest, NoHead
<1>2. IInv /\ IInv' /\ MInv /\ [Next]_vars => MInv'
  <2> SUFFICES ASSUME IInv, IInv', MInv, [Next]_vars PROVE MInv'
    OBVIOUS
  <2>1. HasNewest(rows)'
    BY NewestRises DEF MInv, HasNewest, IsNewest
  <2> QED BY <2>1, AtHeadPreserved, MarkPreserved, VerificationPreserved DEF MInv
<1>3. Init => TimeInv
  BY DEF Init, TimeInv, InOrder, OneUnderWay, Sorted, RowsPast, RecordPast, Idle, UnderWay,
         InMutex, RegressionExplained, NoVerification
<1>4. IInv /\ TimeInv /\ [Next]_vars => TimeInv'
  BY TimePreserved
<1>5. NoFalseEditAlarm /\ MInv /\ TimeInv => AlarmsExplained
  BY DEF MInv, VerdictDated, GapReported, TimeInv, RegressionExplained, AlarmsExplained
<1> QED BY <1>1, <1>2, <1>3, <1>4, <1>5, Invariance, NoFalseEditReport, PTL DEF Spec
=============================================================================
