-------------------------- MODULE WorkerPoolProofs --------------------------
(***************************************************************************)
(* The pool is proved correct for every set of items and workers, every    *)
(* size, every capacity and budget.                                        *)
(*                                                                         *)
(* PoolInv: WithinLimits needs to know what a submitter that is about to   *)
(* compare-and-swap has checked: the value it loaded leaves room for its   *)
(* payload (LoadedFits).  The rest is inductive as it stands.              *)
(*                                                                         *)
(* BytesAccounted: the items that hold bytes are a finite set of which     *)
(* every step adds, removes or keeps one, so it rests on what a sum does   *)
(* when one element comes or goes.                                         *)
(*                                                                         *)
(* NeverStranded: a submitter that starts to wait found bytes in use, and  *)
(* by BytesAccounted somebody holds them.                                  *)
(***************************************************************************)
EXTENDS WorkerPool, SequenceTheorems, FiniteSetTheorems, WellFoundedInduction, TLAPS

LoadedFits ==
  \A i \in Items : sub[i].pc = "cas" => sub[i].cur + Size[i] <= maxQueueBytes

IInv == PoolInv /\ LoadedFits

\* What Append does to the positions of the queue.
LEMMA AppendFacts ==
  ASSUME NEW q \in Seq(Items), NEW x \in Items
  PROVE  /\ Append(q, x) \in Seq(Items)
         /\ DOMAIN Append(q, x) = 1..(Len(q) + 1)
         /\ Len(Append(q, x)) = Len(q) + 1
         /\ \A n \in 1..Len(q) : Append(q, x)[n] = q[n]
         /\ Append(q, x)[Len(q) + 1] = x
         /\ DOMAIN q = 1..Len(q)
  OBVIOUS

\* What Tail does to them.
LEMMA TailFacts ==
  ASSUME NEW q \in Seq(Items), q # <<>>
  PROVE  /\ Tail(q) \in Seq(Items)
         /\ Len(q) \in Nat \ {0}
         /\ DOMAIN Tail(q) = 1..(Len(q) - 1)
         /\ Len(Tail(q)) = Len(q) - 1
         /\ \A n \in 1..(Len(q) - 1) : Tail(q)[n] = q[n + 1]
         /\ Head(q) = q[1]
         /\ Head(q) \in Items
         /\ DOMAIN q = 1..Len(q)
  OBVIOUS

\* The type of the parts of a submitter and of a worker.
LEMMA PartTypes ==
  ASSUME TypeOK
  PROVE  /\ \A i \in Items : sub[i].pc \in SubPC /\ sub[i].cur \in Int
         /\ \A w \in Workers :
              /\ wk[w].pc \in WkPC
              /\ wk[w].item \in Items \cup {NoItem}
              /\ wk[w].attempt \in 0..Retries
              /\ wk[w].draining \in BOOLEAN
  BY DEF TypeOK

\* A submitter that moves between two states before acceptance leaves the
\* invariant alone, whatever the counter does within its bounds.
LEMMA SubmitterMoves ==
  ASSUME IInv, NEW i \in Items, NEW p \in SubPC, SubGoto(i, p),
         sub[i].pc # "accepted", p \notin {"accepted", "cas"},
         queuedBytes' \in Int,
         maxQueueBytes > 0 => queuedBytes' <= maxQueueBytes,
         bytesFreed' \in BOOLEAN,
         UNCHANGED <<maxQueueBytes, queue, shutdown, wk, outcome, stop>>
  PROVE  IInv'
<1>1. TypeOK'
  BY DEF IInv, PoolInv, TypeOK, SubGoto
<1>2. \A j \in Items : j # i => sub'[j] = sub[j]
  BY DEF IInv, PoolInv, TypeOK, SubGoto
<1>3. sub'[i].pc = p
  BY DEF IInv, PoolInv, TypeOK, SubGoto
<1>4. \A j \in Items : sub'[j].pc = "accepted" <=> sub[j].pc = "accepted"
  BY <1>2, <1>3
<1>5. HoldsWhileBusy'
  BY DEF IInv, PoolInv, HoldsWhileBusy
<1>6. OnePlace'
  BY <1>4 DEF IInv, PoolInv, OnePlace, Queued, HeldBy
<1>7. WithinLimits'
  BY DEF IInv, PoolInv, WithinLimits, Bounded
<1>8. LoadedFits'
  BY <1>2, <1>3 DEF IInv, LoadedFits
<1> QED BY <1>1, <1>5, <1>6, <1>7, <1>8 DEF IInv, PoolInv

\* What WkGoto changes.
LEMMA WkGotoFacts ==
  ASSUME TypeOK, NEW w \in Workers, NEW p \in WkPC, NEW a \in 0..Retries,
         WkGoto(w, p, wk[w].item, a),
         p \in {"idle", "exited"} <=> wk[w].pc \in {"idle", "exited"}
  PROVE  /\ wk' \in [Workers -> [pc : WkPC, item : Items \cup {NoItem},
                                 attempt : 0..Retries, draining : BOOLEAN]]
         /\ \A v \in Workers :
              /\ wk'[v].item = wk[v].item
              /\ wk'[v].pc \in {"idle", "exited"} <=> wk[v].pc \in {"idle", "exited"}
  BY DEF TypeOK, WkGoto

\* A worker that goes on working on its item, or stays without one.
LEMMA WorkerMoves ==
  ASSUME IInv, NEW w \in Workers,
         wk' \in [Workers -> [pc : WkPC, item : Items \cup {NoItem},
                              attempt : 0..Retries, draining : BOOLEAN]],
         \A v \in Workers :
           /\ wk'[v].item = wk[v].item
           /\ wk'[v].pc \in {"idle", "exited"} <=> wk[v].pc \in {"idle", "exited"},
         queuedBytes' \in Int,
         queuedBytes' <= queuedBytes,
         bytesFreed' \in BOOLEAN,
         UNCHANGED <<maxQueueBytes, queue, shutdown, sub, outcome, stop>>
  PROVE  IInv'
<1>1. TypeOK'
  BY DEF IInv, PoolInv, TypeOK
<1>4. HoldsWhileBusy'
  BY DEF IInv, PoolInv, HoldsWhileBusy
<1>5. OnePlace'
  BY DEF IInv, PoolInv, OnePlace, Queued, HeldBy
<1>6. queuedBytes \in Int /\ maxQueueBytes \in Int
  BY PoolAssumption DEF IInv, PoolInv, TypeOK
<1>7. WithinLimits'
  BY <1>6 DEF IInv, PoolInv, WithinLimits, Bounded
<1>8. LoadedFits'
  BY DEF IInv, LoadedFits
<1> QED BY <1>1, <1>4, <1>5, <1>7, <1>8 DEF IInv, PoolInv

\* processItem returns: the item gets its outcome and leaves the worker.
LEMMA FinishPreserves ==
  ASSUME IInv, NEW w \in Workers, wk[w].pc \in {"write", "backoff"},
         NEW o \in Outcomes \ {"none"}, Finish(w, o)
  PROVE  IInv'
<1> DEFINE it == wk[w].item
<1>1. it \in Items
  BY DEF IInv, PoolInv, HoldsWhileBusy, TypeOK
<1>2. /\ wk'[w].item = NoItem /\ wk'[w].pc = "idle"
      /\ \A v \in Workers : v # w => wk'[v] = wk[v]
  BY DEF IInv, PoolInv, TypeOK, Finish, WkGoto
<1>3. /\ outcome'[it] = o
      /\ \A i \in Items : i # it => outcome'[i] = outcome[i]
  BY <1>1 DEF IInv, PoolInv, TypeOK, Finish, WkGoto
<1>4. UNCHANGED <<maxQueueBytes, queue, queuedBytes, bytesFreed, shutdown, sub, stop>>
  BY DEF Finish
<1>5. TypeOK'
  BY <1>1 , PoolAssumption DEF IInv, PoolInv, TypeOK, Finish, WkGoto, Outcomes, WkPC
<1>6. HoldsWhileBusy'
  BY <1>2 DEF IInv, PoolInv, HoldsWhileBusy
<1>7. OnePlace'
  <2>1. \A v \in Workers : v # w => wk[v].item # it
    BY <1>1, PoolAssumption DEF IInv, PoolInv, OnePlace
  <2>2. ~Queued(it)
    BY <1>1 DEF IInv, PoolInv, OnePlace, HeldBy
  <2>3. sub[it].pc = "accepted"
    BY <1>1 DEF IInv, PoolInv, OnePlace, HeldBy
  <2>4. \A i \in Items : Queued(i)' <=> Queued(i)
    BY <1>4 DEF Queued
  <2>5. \A i \in Items, v \in Workers : HeldBy(v, i)' <=> (HeldBy(v, i) /\ v # w)
    BY <1>2, PoolAssumption DEF HeldBy
  <2>6. \A m, n \in DOMAIN queue' : queue'[m] = queue'[n] => m = n
    BY <1>4 DEF IInv, PoolInv, OnePlace
  <2>7. \A u, v \in Workers :
          wk'[u].item = wk'[v].item /\ wk'[u].item # NoItem => u = v
    BY <1>2 DEF IInv, PoolInv, OnePlace
  <2>8. \A i \in Items : \A v \in Workers :
          HeldBy(v, i)' => outcome'[i] = "none" /\ ~Queued(i)'
    BY <1>3, <2>1, <2>4, <2>5 DEF IInv, PoolInv, OnePlace, HeldBy
  <2>9. \A i \in Items : Queued(i)' => outcome'[i] = "none"
    BY <1>3, <2>2, <2>4 DEF IInv, PoolInv, OnePlace
  <2>10. \A i \in Items :
       sub'[i].pc = "accepted" <=>
         (Queued(i)' \/ (\E v \in Workers : HeldBy(v, i)') \/ outcome'[i] # "none")
    <3>2. TAKE i \in Items
    <3>3. CASE i = it
      BY <3>3, <1>3, <1>4, <2>3 DEF Outcomes
    <3>4. CASE i # it
      BY <3>4, <1>3, <1>4, <2>4, <2>5 DEF IInv, PoolInv, OnePlace, HeldBy
    <3> QED BY <3>3, <3>4
  <2> QED BY <2>6, <2>7, <2>8, <2>9, <2>10 DEF OnePlace
<1>8. WithinLimits'
  BY <1>4 DEF IInv, PoolInv, WithinLimits, Bounded
<1>9. LoadedFits'
  BY <1>4 DEF IInv, LoadedFits
<1> QED BY <1>5, <1>6, <1>7, <1>8, <1>9 DEF IInv, PoolInv

\* A submitter hands its item to the channel.
LEMMA EnqueuePreserves ==
  ASSUME IInv, NEW i \in Items, Enqueue(i)
  PROVE  IInv'
<1>1. queue \in Seq(Items) /\ sub[i].pc = "send" /\ queue' = Append(queue, i)
      /\ Len(queue) < QueueSize
  BY DEF IInv, PoolInv, TypeOK, Enqueue
<1>2. /\ queue' \in Seq(Items)
      /\ DOMAIN queue' = 1..(Len(queue) + 1) /\ Len(queue') = Len(queue) + 1
      /\ \A n \in 1..Len(queue) : queue'[n] = queue[n]
      /\ queue'[Len(queue) + 1] = i
      /\ DOMAIN queue = 1..Len(queue)
  BY <1>1, AppendFacts
<1>3. Len(queue) \in Nat
  BY <1>1
<1>4. /\ sub'[i].pc = "accepted"
      /\ \A j \in Items : j # i => sub'[j] = sub[j]
  BY DEF IInv, PoolInv, TypeOK, Enqueue, SubGoto
<1>5. UNCHANGED <<maxQueueBytes, queuedBytes, bytesFreed, shutdown, wk, outcome, stop>>
  BY DEF Enqueue
<1>6. TypeOK'
  BY <1>2, <1>5 DEF IInv, PoolInv, TypeOK, Enqueue, SubGoto, SubPC
<1>7. ~Queued(i) /\ outcome[i] = "none" /\ \A w \in Workers : ~HeldBy(w, i)
  BY <1>1 DEF IInv, PoolInv, OnePlace
<1>8. \A j \in Items : Queued(j)' <=> (Queued(j) \/ j = i)
  BY <1>2, <1>3 DEF Queued
<1>9. \A j \in Items, w \in Workers : HeldBy(w, j)' <=> HeldBy(w, j)
  BY <1>5 DEF HeldBy
<1>10. OnePlace'
  <2>1. \A m, n \in DOMAIN queue' : queue'[m] = queue'[n] => m = n
    <3> SUFFICES ASSUME NEW m \in 1..(Len(queue) + 1), NEW n \in 1..(Len(queue) + 1),
                        queue'[m] = queue'[n]
                 PROVE  m = n
      BY <1>2
    <3>1. CASE m \in 1..Len(queue) /\ n \in 1..Len(queue)
      BY <3>1, <1>2 DEF IInv, PoolInv, OnePlace
    <3>2. CASE m = Len(queue) + 1 /\ n \in 1..Len(queue)
      BY <3>2, <1>2, <1>7 DEF Queued
    <3>3. CASE n = Len(queue) + 1 /\ m \in 1..Len(queue)
      BY <3>3, <1>2, <1>7 DEF Queued
    <3> QED BY <3>1, <3>2, <3>3, <1>3
  <2>2. \A u, v \in Workers :
          wk'[u].item = wk'[v].item /\ wk'[u].item # NoItem => u = v
    BY <1>5 DEF IInv, PoolInv, OnePlace
  <2>3. \A j \in Items : \A w \in Workers :
          HeldBy(w, j)' => outcome'[j] = "none" /\ ~Queued(j)'
    BY <1>5, <1>7, <1>8, <1>9 DEF IInv, PoolInv, OnePlace
  <2>4. \A j \in Items : Queued(j)' => outcome'[j] = "none"
    BY <1>5, <1>7, <1>8 DEF IInv, PoolInv, OnePlace
  <2>5. \A j \in Items :
       sub'[j].pc = "accepted" <=>
         (Queued(j)' \/ (\E w \in Workers : HeldBy(w, j)') \/ outcome'[j] # "none")
    BY <1>4, <1>5, <1>8, <1>9 DEF IInv, PoolInv, OnePlace
  <2> QED BY <2>1, <2>2, <2>3, <2>4, <2>5 DEF OnePlace
<1>11. HoldsWhileBusy'
  BY <1>5 DEF IInv, PoolInv, HoldsWhileBusy
<1>12. WithinLimits'
  BY <1>1, <1>2, <1>3, <1>5, PoolAssumption DEF IInv, PoolInv, WithinLimits, Bounded
<1>13. LoadedFits'
  BY <1>4, <1>5 DEF IInv, LoadedFits
<1> QED BY <1>6, <1>10, <1>11, <1>12, <1>13 DEF IInv, PoolInv

\* A worker takes the head of the channel.
LEMMA ReceivePreserves ==
  ASSUME IInv, NEW w \in Workers, Receive(w)
  PROVE  IInv'
<1> DEFINE it == Head(queue)
<1>1. queue \in Seq(Items) /\ queue # <<>> /\ queue' = Tail(queue) /\ wk[w].pc = "idle"
  BY DEF IInv, PoolInv, TypeOK, Receive
<1>2. /\ queue' \in Seq(Items)
      /\ Len(queue) \in Nat \ {0}
      /\ DOMAIN queue' = 1..(Len(queue) - 1) /\ Len(queue') = Len(queue) - 1
      /\ \A n \in 1..(Len(queue) - 1) : queue'[n] = queue[n + 1]
      /\ it = queue[1] /\ it \in Items
      /\ DOMAIN queue = 1..Len(queue)
  BY <1>1, TailFacts
<1> HIDE DEF it
<1>3. /\ wk'[w].item = it /\ wk'[w].pc = "free"
      /\ \A v \in Workers : v # w => wk'[v] = wk[v]
  BY DEF IInv, PoolInv, TypeOK, Receive, WkGoto, it
<1>4. UNCHANGED <<maxQueueBytes, queuedBytes, bytesFreed, shutdown, sub, outcome, stop>>
  BY DEF Receive
<1>5. TypeOK'
  BY <1>2, <1>4, PoolAssumption DEF IInv, PoolInv, TypeOK, Receive, WkGoto, WkPC, it
<1>6. /\ Queued(it) /\ outcome[it] = "none" /\ sub[it].pc = "accepted"
      /\ \A v \in Workers : wk[v].item # it
  BY <1>2 DEF IInv, PoolInv, OnePlace, Queued, HeldBy
<1>7. \A j \in Items : Queued(j)' <=> (Queued(j) /\ j # it)
  <2> TAKE j \in Items
  <2>1. ASSUME Queued(j)' PROVE Queued(j) /\ j # it
    <3>1. PICK n \in 1..(Len(queue) - 1) : queue[n + 1] = j
      BY <2>1, <1>2 DEF Queued
    <3>2. n + 1 \in 1..Len(queue) /\ 1 \in 1..Len(queue) /\ n + 1 # 1
      BY <1>2
    <3>3. queue[n + 1] # queue[1]
      BY <3>2, <1>2 DEF IInv, PoolInv, OnePlace
    <3> QED BY <3>1, <3>2, <3>3, <1>2 DEF Queued
  <2>2. ASSUME Queued(j), j # it PROVE Queued(j)'
    <3>1. PICK n \in 1..Len(queue) : queue[n] = j
      BY <2>2, <1>2 DEF Queued
    <3>2. n # 1
      BY <3>1, <2>2, <1>2
    <3>3. n - 1 \in 1..(Len(queue) - 1) /\ (n - 1) + 1 = n
      BY <3>2, <1>2
    <3>4. queue'[n - 1] = j
      BY <3>1, <3>3, <1>2
    <3> QED BY <3>3, <3>4, <1>2 DEF Queued
  <2> QED BY <2>1, <2>2
<1>8. \A j \in Items, v \in Workers :
        HeldBy(v, j)' <=> IF v = w THEN j = it ELSE HeldBy(v, j)
  BY <1>3 DEF HeldBy
<1>9. wk[w].item = NoItem
  BY <1>1 DEF IInv, PoolInv, HoldsWhileBusy
<1>10. OnePlace'
  <2>1. \A m, n \in DOMAIN queue' : queue'[m] = queue'[n] => m = n
    <3> SUFFICES ASSUME NEW m \in 1..(Len(queue) - 1), NEW n \in 1..(Len(queue) - 1),
                        queue'[m] = queue'[n]
                 PROVE  m = n
      BY <1>2
    <3>1. m + 1 \in 1..Len(queue) /\ n + 1 \in 1..Len(queue)
      BY <1>2
    <3>2. queue[m + 1] = queue[n + 1]
      BY <1>2
    <3>3. m + 1 = n + 1
      BY <3>1, <3>2, <1>2 DEF IInv, PoolInv, OnePlace
    <3> QED BY <3>3
  <2>2. \A u, v \in Workers :
          wk'[u].item = wk'[v].item /\ wk'[u].item # NoItem => u = v
    BY <1>3, <1>6 DEF IInv, PoolInv, OnePlace
  <2>3. \A j \in Items : \A v \in Workers :
          HeldBy(v, j)' => outcome'[j] = "none" /\ ~Queued(j)'
    BY <1>4, <1>6, <1>7, <1>8 DEF IInv, PoolInv, OnePlace
  <2>4. \A j \in Items : Queued(j)' => outcome'[j] = "none"
    BY <1>4, <1>7 DEF IInv, PoolInv, OnePlace
  <2>5. \A j \in Items :
       sub'[j].pc = "accepted" <=>
         (Queued(j)' \/ (\E v \in Workers : HeldBy(v, j)') \/ outcome'[j] # "none")
    <3> TAKE j \in Items
    <3>1. CASE j = it
      BY <3>1, <1>4, <1>6, <1>8
    <3>2. CASE j # it
      <4>1. ~HeldBy(w, j)
        BY <1>9, PoolAssumption DEF HeldBy
      <4>2. (\E v \in Workers : HeldBy(v, j)') <=> (\E v \in Workers : HeldBy(v, j))
        BY <4>1, <3>2, <1>8
      <4> QED BY <3>2, <4>2, <1>4, <1>7 DEF IInv, PoolInv, OnePlace
    <3> QED BY <3>1, <3>2
  <2> QED BY <2>1, <2>2, <2>3, <2>4, <2>5 DEF OnePlace
<1>11. HoldsWhileBusy'
  BY <1>2, <1>3, PoolAssumption DEF IInv, PoolInv, HoldsWhileBusy
<1>12. WithinLimits'
  BY <1>2, <1>4, PoolAssumption DEF IInv, PoolInv, WithinLimits, Bounded
<1>13. LoadedFits'
  BY <1>4 DEF IInv, LoadedFits
<1> QED BY <1>5, <1>10, <1>11, <1>12, <1>13 DEF IInv, PoolInv

\* Every step of a Submit call.
LEMMA SubmitPreserves ==
  ASSUME IInv, NEW i \in Items, Submit(i) \/ SubmitStep(i)
  PROVE  IInv'
<1>1. /\ queuedBytes \in Int /\ maxQueueBytes \in Nat /\ Size[i] \in Nat
      /\ bytesFreed \in BOOLEAN /\ sub[i].cur \in Int
      /\ maxQueueBytes > 0 => queuedBytes <= maxQueueBytes
  BY PoolAssumption, PartTypes DEF IInv, PoolInv, TypeOK, WithinLimits, Bounded
<1>2. {"rejected", "load", "send", "wait", "undo", "wake", "cas"} \subseteq SubPC
  BY DEF SubPC
<1>3. CASE Submit(i)
  <2>1. CASE Bounded /\ SubGoto(i, "rejected") /\ UNCHANGED queuedBytes
    BY <2>1, <1>1, <1>2, <1>3, SubmitterMoves DEF Submit
  <2>2. CASE Bounded /\ SubGoto(i, "load") /\ UNCHANGED queuedBytes
    BY <2>2, <1>1, <1>2, <1>3, SubmitterMoves DEF Submit
  <2>3. CASE /\ ~Bounded /\ SubGoto(i, "send")
             /\ queuedBytes' = queuedBytes + Size[i]
    BY <2>3, <1>1, <1>2, <1>3, SubmitterMoves DEF Submit, Bounded
  <2> QED BY <1>3, <2>1, <2>2, <2>3 DEF Submit
<1>4. CASE Load(i)
  <2>1. CASE queuedBytes + Size[i] <= maxQueueBytes
    <3>1. sub' = [sub EXCEPT ![i] = [pc |-> "cas", cur |-> queuedBytes]]
      BY <2>1, <1>4 DEF Load
    <3>2. TypeOK'
      BY <3>1, <1>1, <1>4 DEF Load, IInv, PoolInv, TypeOK, SubPC
    <3>3. /\ sub'[i].pc = "cas" /\ sub'[i].cur = queuedBytes
          /\ \A j \in Items : j # i => sub'[j] = sub[j]
      BY <3>1 DEF IInv, PoolInv, TypeOK
    <3>4. LoadedFits'
      BY <2>1, <3>3, <1>4 DEF Load, IInv, LoadedFits
    <3>5. \A j \in Items : sub'[j].pc = "accepted" <=> sub[j].pc = "accepted"
      BY <3>3, <1>4 DEF Load
    <3>6. OnePlace'
      BY <3>5, <1>4 DEF Load, IInv, PoolInv, OnePlace, Queued, HeldBy
    <3>7. HoldsWhileBusy' /\ WithinLimits'
      BY <1>4 DEF Load, IInv, PoolInv, HoldsWhileBusy, WithinLimits, Bounded
    <3> QED BY <3>2, <3>4, <3>6, <3>7 DEF IInv, PoolInv
  <2>2. CASE ~(queuedBytes + Size[i] <= maxQueueBytes)
    BY <2>2, <1>1, <1>2, <1>4, SubmitterMoves DEF Load
  <2> QED BY <2>1, <2>2
<1>5. CASE Reserve(i)
  <2>1. CASE queuedBytes = sub[i].cur
    <3>1. queuedBytes + Size[i] <= maxQueueBytes
      BY <2>1, <1>5 DEF Reserve, IInv, LoadedFits
    <3> QED BY <3>1, <2>1, <1>1, <1>2, <1>5, SubmitterMoves DEF Reserve
  <2>2. CASE queuedBytes # sub[i].cur
    BY <2>2, <1>1, <1>2, <1>5, SubmitterMoves DEF Reserve
  <2> QED BY <2>1, <2>2
<1>6. CASE Woken(i)
  BY <1>1, <1>2, <1>6, SubmitterMoves DEF Woken
<1>7. CASE WaitTimeout(i)
  BY <1>1, <1>2, <1>7, SubmitterMoves DEF WaitTimeout
<1>8. CASE WaitShutdown(i)
  BY <1>1, <1>2, <1>8, SubmitterMoves DEF WaitShutdown
<1>9. CASE Enqueue(i)
  BY <1>9, EnqueuePreserves
<1>10. CASE SendTimeout(i)
  BY <1>1, <1>2, <1>10, SubmitterMoves DEF SendTimeout
<1>11. CASE SendShutdown(i)
  BY <1>1, <1>2, <1>11, SubmitterMoves DEF SendShutdown
<1>12. CASE ReturnBytes(i)
  BY <1>1, <1>2, <1>12, SubmitterMoves DEF ReturnBytes
<1>13. CASE WakeAfterUndo(i)
  BY <1>1, <1>2, <1>13, SubmitterMoves DEF WakeAfterUndo
<1> QED
  BY <1>3, <1>4, <1>5, <1>6, <1>7, <1>8, <1>9, <1>10, <1>11, <1>12, <1>13
  DEF SubmitStep

\* Every step of a worker.
LEMMA WorkerPreserves ==
  ASSUME IInv, NEW w \in Workers, WorkerStep(w)
  PROVE  IInv'
<1>1. /\ queuedBytes \in Int /\ bytesFreed \in BOOLEAN
      /\ wk[w].item \in Items \cup {NoItem} /\ wk[w].attempt \in 0..Retries
      /\ Retries \in Nat /\ TypeOK
  BY PoolAssumption DEF IInv, PoolInv, TypeOK
<1>2. {"wake", "write", "backoff", "exited"} \subseteq WkPC
  BY DEF WkPC
<1>3. CASE Receive(w)
  BY <1>3, ReceivePreserves
<1>4. CASE FreeBytes(w)
  <2>1. Size[wk[w].item] \in Nat
    BY <1>1, <1>4, PoolAssumption DEF FreeBytes, IInv, PoolInv, HoldsWhileBusy
  <2>2. queuedBytes' \in Int /\ queuedBytes' <= queuedBytes
    BY <2>1, <1>1, <1>4 DEF FreeBytes
  <2> QED BY <2>2, <1>1, <1>2, <1>4, WkGotoFacts, WorkerMoves DEF FreeBytes
<1>5. CASE Wake(w)
  BY <1>1, <1>2, <1>5, WkGotoFacts, WorkerMoves DEF Wake
<1>6. CASE ParseFail(w)
  BY <1>6, FinishPreserves DEF ParseFail, Outcomes
<1>7. CASE WriteOk(w)
  BY <1>7, FinishPreserves DEF WriteOk, Outcomes
<1>8. CASE WriteFail(w)
  <2>1. CASE Finish(w, "dead")
    BY <2>1, <1>8, FinishPreserves DEF WriteFail, Outcomes
  <2>2. CASE /\ WkGoto(w, "backoff", wk[w].item, wk[w].attempt + 1)
             /\ wk[w].attempt < Retries
             /\ UNCHANGED <<maxQueueBytes, queue, queuedBytes, bytesFreed,
                            shutdown, sub, outcome, stop>>
    <3>1. wk[w].attempt + 1 \in 0..Retries
      BY <2>2, <1>1
    <3> QED BY <3>1, <2>2, <1>1, <1>2, <1>8, WkGotoFacts, WorkerMoves DEF WriteFail
  <2> QED BY <2>1, <2>2, <1>8 DEF WriteFail
<1>9. CASE BackoffOver(w)
  BY <1>1, <1>2, <1>9, WkGotoFacts, WorkerMoves DEF BackoffOver
<1>10. CASE BackoffShutdown(w)
  BY <1>10, FinishPreserves DEF BackoffShutdown, Outcomes
<1>11. CASE Drain(w)
  <2>1. /\ wk' \in [Workers -> [pc : WkPC, item : Items \cup {NoItem},
                                attempt : 0..Retries, draining : BOOLEAN]]
        /\ \A v \in Workers : wk'[v].item = wk[v].item /\ wk'[v].pc = wk[v].pc
    BY <1>1, <1>11 DEF Drain, TypeOK
  <2>2. /\ queuedBytes' \in Int /\ queuedBytes' <= queuedBytes /\ bytesFreed' \in BOOLEAN
        /\ UNCHANGED <<maxQueueBytes, queue, shutdown, sub, outcome, stop>>
    BY <1>1, <1>11 DEF Drain
  <2> QED BY <2>1, <2>2, WorkerMoves
<1>12. CASE Exit(w)
  BY <1>1, <1>2, <1>12, WkGotoFacts, WorkerMoves DEF Exit
<1> QED
  BY <1>3, <1>4, <1>5, <1>6, <1>7, <1>8, <1>9, <1>10, <1>11, <1>12 DEF WorkerStep

LEMMA PoolHolds == Spec => []IInv
<1>1. Init => IInv
  <2> SUFFICES ASSUME Init PROVE IInv
    OBVIOUS
  <2>1. TypeOK
    <3>1. 0 \in 0..Retries /\ 0 \in Int
      BY PoolAssumption
    <3>2. wk \in [Workers -> [pc : WkPC, item : Items \cup {NoItem},
                              attempt : 0..Retries, draining : BOOLEAN]]
      BY <3>1 DEF Init, WkPC
    <3>3. sub \in [Items -> [pc : SubPC, cur : Int]] /\ outcome \in [Items -> Outcomes]
      BY <3>1 DEF Init, SubPC, Outcomes
    <3>4. queue \in Seq(Items)
      BY DEF Init
    <3> QED BY <3>1, <3>2, <3>3, <3>4 DEF Init, TypeOK
  <2>2. \A i \in Items : ~Queued(i) /\ outcome[i] = "none" /\ sub[i].pc = "idle"
    BY DEF Init, Queued
  <2>3. \A w \in Workers : wk[w].item = NoItem /\ wk[w].pc = "idle"
    BY DEF Init
  <2>4. HoldsWhileBusy
    BY <2>3 DEF HoldsWhileBusy
  <2>5. OnePlace
    BY <2>2, <2>3, PoolAssumption DEF Init, OnePlace, HeldBy
  <2>6. WithinLimits
    BY PoolAssumption DEF Init, WithinLimits, Bounded
  <2>7. LoadedFits
    BY <2>2 DEF LoadedFits
  <2> QED BY <2>1, <2>4, <2>5, <2>6, <2>7 DEF IInv, PoolInv
<1>2. IInv /\ [Next]_vars => IInv'
  <2> SUFFICES ASSUME IInv, [Next]_vars PROVE IInv'
    OBVIOUS
  <2>1. CASE \E i \in Items : Submit(i) \/ SubmitStep(i)
    BY <2>1, SubmitPreserves
  <2>2. CASE \E w \in Workers : WorkerStep(w)
    BY <2>2, WorkerPreserves
  <2>3. CASE Stop \/ StopDone \/ StopTimeout
    <3>1. UNCHANGED <<maxQueueBytes, queue, queuedBytes, bytesFreed, sub, wk, outcome>>
      BY <2>3 DEF Stop, StopDone, StopTimeout
    <3>2. shutdown' \in BOOLEAN /\ stop' \in {"waiting", "stopped", "timeout"}
      BY <2>3 DEF Stop, StopDone, StopTimeout, IInv, PoolInv, TypeOK
    <3>3. TypeOK'
      BY <3>1, <3>2 DEF IInv, PoolInv, TypeOK
    <3>4. HoldsWhileBusy' /\ WithinLimits' /\ LoadedFits'
      BY <3>1 DEF IInv, PoolInv, HoldsWhileBusy, WithinLimits, Bounded, LoadedFits
    <3>5. OnePlace'
      BY <3>1 DEF IInv, PoolInv, OnePlace, Queued, HeldBy
    <3> QED BY <3>3, <3>4, <3>5 DEF IInv, PoolInv
  <2>4. CASE UNCHANGED vars
    <3>1. TypeOK'
      BY <2>4 DEF vars, IInv, PoolInv, TypeOK
    <3>2. HoldsWhileBusy' /\ WithinLimits' /\ LoadedFits'
      BY <2>4 DEF vars, IInv, PoolInv, HoldsWhileBusy, WithinLimits, Bounded, LoadedFits
    <3>3. OnePlace'
      BY <2>4 DEF vars, IInv, PoolInv, OnePlace, Queued, HeldBy
    <3> QED BY <3>1, <3>2, <3>3 DEF IInv, PoolInv
  <2> QED BY <2>1, <2>2, <2>3, <2>4 DEF Next
<1> QED BY <1>1, <1>2, PTL DEF Spec

\* For any number of submitters, workers and retries, whatever their sizes and
\* however they race each other and Stop: neither the channel nor the byte
\* budget is ever exceeded, and every item Submit accepted is in exactly one
\* place - the channel, one worker, or finished.
THEOREM PoolSafe == Spec => []PoolInv
<1>1. IInv => PoolInv
  BY DEF IInv
<1> QED BY <1>1, PoolHolds, PTL

-----------------------------------------------------------------------------
(* Sums over a finite set: what MapThenSumSet gives when one element comes *)
(* or goes.  A claim about every finite set is proved by a counterexample  *)
(* that no smaller one is inside of.                                       *)

Pick(s) == CHOOSE x \in s : TRUE

IsTotal(f, S) ==
  f = [s \in SUBSET S |-> IF s = {} THEN 0 ELSE Size[Pick(s)] + f[s \ {Pick(s)}]]

Total(S) == MapThenSumSet(LAMBDA i : Size[i], S)

LEMMA TotalUnfolds == \A S : Total(S) = (CHOOSE f : IsTotal(f, S))[S]
  BY DEF Total, MapThenSumSet, MapThenFoldSet, IsTotal, Pick

LEMMA PickIsMember == \A s : s # {} => Pick(s) \in s
  BY DEF Pick

Smallest(s, T) == s \in T /\ \A t \in T : t \subseteq s => t = s

\* Among finite sets there is always a smallest one.
LEMMA SmallestSet ==
  ASSUME NEW S, NEW T, T \subseteq FiniteSubsetsOf(S), T # {}
  PROVE  \E s : Smallest(s, T)
<1>1. PICK s \in T : \A t \in T : ~(<<t, s>> \in StrictSubsetOrdering(S))
  <2>1. IsWellFoundedOn(StrictSubsetOrdering(S), FiniteSubsetsOf(S))
    BY FS_StrictSubsetOrderingWellFounded
  <2> QED BY <2>1, WFMin
<1>2. \A t \in T : t \in SUBSET S /\ IsFiniteSet(t)
  BY DEF FiniteSubsetsOf
<1>3. ASSUME NEW t \in T, t \subseteq s, t # s PROVE FALSE
  <2>1. <<t, s>> \in (SUBSET S) \X (SUBSET S)
    BY <1>2
  <2>2. <<t, s>> \in StrictSubsetOrdering(S)
    BY <2>1, <1>3 DEF StrictSubsetOrdering
  <2> QED BY <2>2, <1>1
<1> QED BY <1>3 DEF Smallest

\* A finite set without one of its elements is finite and smaller.
LEMMA OneLess ==
  ASSUME NEW s, IsFiniteSet(s), NEW x \in s
  PROVE  IsFiniteSet(s \ {x}) /\ s \ {x} \subseteq s /\ s \ {x} # s
  BY FS_RemoveElement

\* Two functions that compute sums agree wherever both are defined.
LEMMA TotalsAgree ==
  ASSUME NEW S, NEW T, NEW f, NEW g, IsTotal(f, S), IsTotal(g, T),
         NEW u, u \subseteq S, u \subseteq T, IsFiniteSet(u)
  PROVE  f[u] = g[u]
<1> DEFINE Bad == {s \in FiniteSubsetsOf(u) : f[s] # g[s]}
<1> SUFFICES ASSUME f[u] # g[u] PROVE FALSE
  OBVIOUS
<1>1. u \in Bad /\ Bad # {} /\ Bad \subseteq FiniteSubsetsOf(u)
  BY DEF FiniteSubsetsOf
<1> HIDE DEF Bad
<1>smallest. PICK s : Smallest(s, Bad)
  BY <1>1, SmallestSet
<1>2. s \in Bad /\ s \subseteq u /\ IsFiniteSet(s)
      /\ \A t \in Bad : t \subseteq s => t = s
  BY <1>1, <1>smallest DEF Smallest, FiniteSubsetsOf
<1> USE DEF Bad
<1>3. /\ f[s] = IF s = {} THEN 0 ELSE Size[Pick(s)] + f[s \ {Pick(s)}]
      /\ g[s] = IF s = {} THEN 0 ELSE Size[Pick(s)] + g[s \ {Pick(s)}]
  BY <1>2 DEF IsTotal
<1>4. s # {}
  BY <1>2, <1>3
<1> DEFINE r == s \ {Pick(s)}
<1>5. Pick(s) \in s
  BY <1>4, PickIsMember
<1>6. IsFiniteSet(r) /\ r \subseteq s /\ r # s
  BY <1>2, <1>5, OneLess
<1>7. r \in FiniteSubsetsOf(u)
  BY <1>2, <1>6 DEF FiniteSubsetsOf
<1>8. r \notin Bad
  BY <1>2, <1>6
<1>9. f[r] = g[r]
  BY <1>7, <1>8
<1> QED BY <1>2, <1>3, <1>4, <1>9

\* There is a function that computes them.
LEMMA TotalExists ==
  ASSUME NEW S, IsFiniteSet(S)
  PROVE  \E f : IsTotal(f, S)
<1> DEFINE Bad == {s \in FiniteSubsetsOf(S) : ~\E f : IsTotal(f, s)}
<1> SUFFICES ASSUME ~\E f : IsTotal(f, S) PROVE FALSE
  OBVIOUS
<1>1. S \in Bad /\ Bad # {} /\ Bad \subseteq FiniteSubsetsOf(S)
  BY DEF FiniteSubsetsOf
<1> HIDE DEF Bad
<1>smallest. PICK s : Smallest(s, Bad)
  BY <1>1, SmallestSet
<1>2. s \in Bad /\ s \subseteq S /\ IsFiniteSet(s)
      /\ \A t \in Bad : t \subseteq s => t = s
  BY <1>1, <1>smallest DEF Smallest, FiniteSubsetsOf
<1> USE DEF Bad
<1> DEFINE h(t) == CHOOSE f : IsTotal(f, t)
           g == [t \in SUBSET s |->
                   IF t # s THEN h(t)[t]
                   ELSE IF s = {} THEN 0
                        ELSE Size[Pick(s)] + h(s \ {Pick(s)})[s \ {Pick(s)}]]
<1>3. \A t \in SUBSET s : t # s => IsFiniteSet(t) /\ IsTotal(h(t), t)
  <2> SUFFICES ASSUME NEW t \in SUBSET s, t # s PROVE IsFiniteSet(t) /\ IsTotal(h(t), t)
    OBVIOUS
  <2>1. IsFiniteSet(t)
    BY <1>2, FS_Subset
  <2>2. t \in FiniteSubsetsOf(S) /\ t \notin Bad
    BY <1>2, <2>1 DEF FiniteSubsetsOf
  <2>3. \E f : IsTotal(f, t)
    BY <2>2
  <2> QED BY <2>1, <2>3
<1> HIDE DEF h, Bad
<1>4. ASSUME NEW t \in SUBSET s
      PROVE  g[t] = IF t = {} THEN 0 ELSE Size[Pick(t)] + g[t \ {Pick(t)}]
  <2>1. CASE t = {}
    <3>1. CASE t = s
      BY <2>1, <3>1
    <3>2. CASE t # s
      <4>1. IsTotal(h(t), t)
        BY <3>2, <1>3
      <4>2. h(t)[t] = 0
        BY <2>1, <4>1 DEF IsTotal
      <4> QED BY <2>1, <3>2, <4>2
    <3> QED BY <3>1, <3>2
  <2>2. CASE t # {}
    <3> DEFINE r == t \ {Pick(t)}
    <3>1. Pick(t) \in t
      BY <2>2, PickIsMember
    <3>2. r \in SUBSET s /\ r # s /\ r \subseteq t
      BY <3>1
    <3>3. g[r] = h(r)[r]
      BY <3>2
    <3>4. CASE t = s
      BY <2>2, <3>3, <3>4
    <3>5. CASE t # s
      <4>1. IsTotal(h(t), t) /\ IsTotal(h(r), r) /\ IsFiniteSet(r)
        BY <3>2, <3>5, <1>3
      <4>2. h(t)[r] = h(r)[r]
        BY <3>2, <4>1, TotalsAgree
      <4>3. h(t)[t] = Size[Pick(t)] + h(t)[r]
        BY <2>2, <4>1 DEF IsTotal
      <4> QED BY <2>2, <3>3, <3>5, <4>2, <4>3
    <3> QED BY <3>4, <3>5
  <2> QED BY <2>1, <2>2
<1>5. IsTotal(g, s)
  BY <1>4 DEF IsTotal
<1> QED BY <1>2, <1>5 DEF Bad

\* The sum taken apart at the element that CHOOSE picks.
LEMMA TotalRecursion ==
  ASSUME NEW S, IsFiniteSet(S)
  PROVE  Total(S) = IF S = {} THEN 0 ELSE Size[Pick(S)] + Total(S \ {Pick(S)})
<1> DEFINE h(t) == CHOOSE f : IsTotal(f, t)
<1>1. \A t \in SUBSET S : IsFiniteSet(t) /\ IsTotal(h(t), t)
  <2> TAKE t \in SUBSET S
  <2>1. IsFiniteSet(t)
    BY FS_Subset
  <2> QED BY <2>1, TotalExists
<1>2. \A t : Total(t) = h(t)[t]
  BY TotalUnfolds
<1> HIDE DEF h
<1>3. h(S)[S] = IF S = {} THEN 0 ELSE Size[Pick(S)] + h(S)[S \ {Pick(S)}]
  BY <1>1 DEF IsTotal
<1>4. h(S)[S \ {Pick(S)}] = h(S \ {Pick(S)})[S \ {Pick(S)}]
  BY <1>1, TotalsAgree
<1> QED BY <1>2, <1>3, <1>4

LEMMA TotalEmpty == Total({}) = 0
  BY TotalRecursion, FS_EmptySet

LEMMA TotalType ==
  ASSUME NEW S \in SUBSET Items, IsFiniteSet(S)
  PROVE  Total(S) \in Nat
<1> DEFINE Bad == {s \in FiniteSubsetsOf(Items) : Total(s) \notin Nat}
<1> SUFFICES ASSUME Total(S) \notin Nat PROVE FALSE
  OBVIOUS
<1>1. S \in Bad /\ Bad # {} /\ Bad \subseteq FiniteSubsetsOf(Items)
  BY DEF FiniteSubsetsOf
<1> HIDE DEF Bad
<1>smallest. PICK s : Smallest(s, Bad)
  BY <1>1, SmallestSet
<1>2. s \in Bad /\ s \subseteq Items /\ IsFiniteSet(s)
      /\ \A t \in Bad : t \subseteq s => t = s
  BY <1>1, <1>smallest DEF Smallest, FiniteSubsetsOf
<1> USE DEF Bad
<1>3. Total(s) = IF s = {} THEN 0 ELSE Size[Pick(s)] + Total(s \ {Pick(s)})
  BY <1>2, TotalRecursion
<1>4. s # {}
  BY <1>2, <1>3
<1> DEFINE r == s \ {Pick(s)}
<1>5. Pick(s) \in s
  BY <1>4, PickIsMember
<1>6. IsFiniteSet(r) /\ r \subseteq s /\ r # s
  BY <1>2, <1>5, OneLess
<1>7. r \in FiniteSubsetsOf(Items) /\ r \notin Bad
  BY <1>2, <1>6 DEF FiniteSubsetsOf
<1>8. Total(r) \in Nat
  BY <1>7
<1>9. Size[Pick(s)] \in Nat
  BY <1>2, <1>5, PoolAssumption
<1> HIDE DEF r
<1> QED BY <1>2, <1>3, <1>4, <1>8, <1>9 DEF r

\* The sum taken apart at any of its elements.
LEMMA TotalRemove ==
  ASSUME NEW S \in SUBSET Items, IsFiniteSet(S), NEW x \in S
  PROVE  Total(S) = Size[x] + Total(S \ {x})
<1> DEFINE Apart(s, y) == Total(s) = Size[y] + Total(s \ {y})
           Bad == {s \in FiniteSubsetsOf(Items) : \E y \in s : ~Apart(s, y)}
<1> SUFFICES ASSUME ~Apart(S, x) PROVE FALSE
  OBVIOUS
<1>1. S \in Bad /\ Bad # {} /\ Bad \subseteq FiniteSubsetsOf(Items)
  BY DEF FiniteSubsetsOf
<1> HIDE DEF Bad
<1>smallest. PICK s : Smallest(s, Bad)
  BY <1>1, SmallestSet
<1>2. s \in Bad /\ s \subseteq Items /\ IsFiniteSet(s)
      /\ \A t \in Bad : t \subseteq s => t = s
  BY <1>1, <1>smallest DEF Smallest, FiniteSubsetsOf
<1> USE DEF Bad
<1>3. PICK y \in s : ~Apart(s, y)
  BY <1>2
<1> DEFINE p == Pick(s)
<1>4. p \in s
  BY <1>3, PickIsMember
<1>5. Apart(s, p)
  BY <1>2, <1>3, TotalRecursion
<1>6. p # y
  BY <1>3, <1>5
<1>7. \A z \in s : /\ IsFiniteSet(s \ {z}) /\ s \ {z} \subseteq s /\ s \ {z} # s
                   /\ s \ {z} \in FiniteSubsetsOf(Items)
  BY <1>2, OneLess DEF FiniteSubsetsOf
<1>8. \A z \in s : \A v \in s \ {z} : Apart(s \ {z}, v)
  BY <1>2, <1>7
<1>9. Apart(s \ {p}, y) /\ Apart(s \ {y}, p)
  BY <1>3, <1>4, <1>6, <1>8
<1> HIDE DEF p
<1>10. (s \ {p}) \ {y} = (s \ {y}) \ {p}
  OBVIOUS
<1>11. Size[p] \in Nat /\ Size[y] \in Nat
  BY <1>2, <1>3, <1>4, PoolAssumption
<1>12. Total((s \ {p}) \ {y}) \in Nat
  <2>1. IsFiniteSet((s \ {p}) \ {y}) /\ (s \ {p}) \ {y} \in SUBSET Items
    BY <1>2, FS_Subset
  <2> QED BY <2>1, TotalType
<1>13. Total(s) = Size[y] + Total(s \ {y})
  BY <1>5, <1>9, <1>10, <1>11, <1>12
<1> QED BY <1>3, <1>13

LEMMA TotalAdd ==
  ASSUME NEW S \in SUBSET Items, IsFiniteSet(S), NEW x \in Items, x \notin S
  PROVE  IsFiniteSet(S \cup {x}) /\ Total(S \cup {x}) = Total(S) + Size[x]
<1>1. IsFiniteSet(S \cup {x})
  BY FS_AddElement
<1>2. (S \cup {x}) \ {x} = S
  OBVIOUS
<1>3. Total(S \cup {x}) = Size[x] + Total((S \cup {x}) \ {x})
  BY <1>1, TotalRemove
<1> QED BY <1>1, <1>2, <1>3, TotalType, PoolAssumption

-----------------------------------------------------------------------------
(* The byte budget: the counter is the sum of the reservations. *)

HoldingSet == {i \in Items : Holding(i)}

BytesInv == IsFiniteSet(HoldingSet) /\ queuedBytes = Total(HoldingSet)

\* A step that reserves nothing and frees nothing.
LEMMA SameBytes ==
  ASSUME BytesInv, \A j \in Items : Holding(j)' <=> Holding(j), UNCHANGED queuedBytes
  PROVE  BytesInv'
<1>1. HoldingSet' = HoldingSet
  BY DEF HoldingSet
<1> QED BY <1>1 DEF BytesInv

LEMMA GainsBytes ==
  ASSUME BytesInv, NEW i \in Items, ~Holding(i), Holding(i)',
         \A j \in Items \ {i} : Holding(j)' <=> Holding(j),
         queuedBytes' = queuedBytes + Size[i]
  PROVE  BytesInv'
<1>1. HoldingSet' = HoldingSet \cup {i} /\ i \notin HoldingSet /\ HoldingSet \in SUBSET Items
  BY DEF HoldingSet
<1> QED BY <1>1, TotalAdd DEF BytesInv

LEMMA LosesBytes ==
  ASSUME BytesInv, NEW i \in Items, Holding(i), ~Holding(i)',
         \A j \in Items \ {i} : Holding(j)' <=> Holding(j),
         queuedBytes' = queuedBytes - Size[i]
  PROVE  BytesInv'
<1>1. HoldingSet' = HoldingSet \ {i} /\ i \in HoldingSet /\ HoldingSet \in SUBSET Items
  BY DEF HoldingSet
<1>2. Total(HoldingSet) = Size[i] + Total(HoldingSet \ {i}) /\ IsFiniteSet(HoldingSet \ {i})
  BY <1>1, TotalRemove, OneLess DEF BytesInv
<1>3. Total(HoldingSet \ {i}) \in Nat /\ Size[i] \in Nat
  BY <1>1, <1>2, TotalType, PoolAssumption
<1> QED BY <1>1, <1>2, <1>3 DEF BytesInv

\* An item that is not accepted holds bytes between its reservation and the
\* roll-back, and nowhere else.
LEMMA HoldingBeforeAccepted ==
  ASSUME IInv, NEW i \in Items, sub[i].pc # "accepted"
  PROVE  Holding(i) <=> sub[i].pc \in {"send", "undo"}
  BY DEF Holding, IInv, PoolInv, OnePlace

\* What a step of a submitter that touches neither channel nor worker does.
LEMMA SubmitterHolds ==
  ASSUME IInv, NEW i \in Items, NEW p \in SubPC, sub[i].pc # "accepted", p # "accepted",
         sub' \in [Items -> [pc : SubPC, cur : Int]], sub'[i].pc = p,
         \A j \in Items \ {i} : sub'[j] = sub[j], UNCHANGED <<queue, wk>>
  PROVE  /\ \A j \in Items \ {i} : Holding(j)' <=> Holding(j)
         /\ Holding(i) <=> sub[i].pc \in {"send", "undo"}
         /\ Holding(i)' <=> p \in {"send", "undo"}
<1>1. ~Queued(i) /\ \A w \in Workers : ~HeldBy(w, i)
  BY DEF IInv, PoolInv, OnePlace
<1>2. \A j \in Items : Queued(j)' <=> Queued(j)
  BY DEF Queued
<1>3. \A j \in Items, w \in Workers : HeldBy(w, j)' <=> HeldBy(w, j)
  BY DEF HeldBy
<1> QED BY <1>1, <1>2, <1>3 DEF Holding

LEMMA SubGotoFacts ==
  ASSUME TypeOK, NEW i \in Items, NEW p \in SubPC, SubGoto(i, p)
  PROVE  /\ sub' \in [Items -> [pc : SubPC, cur : Int]] /\ sub'[i].pc = p
         /\ \A j \in Items \ {i} : sub'[j] = sub[j]
  BY DEF TypeOK, SubGoto

\* What a step of a worker that leaves the channel alone does.
LEMMA WorkerHolds ==
  ASSUME IInv, NEW w \in Workers, \A v \in Workers \ {w} : wk'[v] = wk[v],
         wk[w].pc # "free", wk'[w].pc # "free", UNCHANGED <<queue, sub>>
  PROVE  \A j \in Items : Holding(j)' <=> Holding(j)
<1>1. \A j \in Items : Queued(j)' <=> Queued(j)
  BY DEF Queued
<1> QED BY <1>1 DEF Holding, HeldBy

LEMMA SubmitAccounts ==
  ASSUME IInv, BytesInv, NEW i \in Items, Submit(i) \/ SubmitStep(i)
  PROVE  BytesInv'
<1>1. TypeOK /\ queuedBytes \in Int
  BY DEF IInv, PoolInv, TypeOK
<1>2. {"rejected", "load", "send", "wait", "undo", "wake", "cas", "accepted"} \subseteq SubPC
  BY DEF SubPC
<1>3. CASE Submit(i)
  <2>1. CASE SubGoto(i, "rejected") /\ UNCHANGED queuedBytes
    BY <2>1, <1>1, <1>2, <1>3, SubGotoFacts, SubmitterHolds, SameBytes DEF Submit
  <2>2. CASE SubGoto(i, "load") /\ UNCHANGED queuedBytes
    BY <2>2, <1>1, <1>2, <1>3, SubGotoFacts, SubmitterHolds, SameBytes DEF Submit
  <2>3. CASE SubGoto(i, "send") /\ queuedBytes' = queuedBytes + Size[i]
    BY <2>3, <1>1, <1>2, <1>3, SubGotoFacts, SubmitterHolds, GainsBytes DEF Submit
  <2> QED BY <1>3, <2>1, <2>2, <2>3 DEF Submit
<1>4. CASE Load(i)
  <2>1. CASE queuedBytes + Size[i] <= maxQueueBytes
    <3>1. sub' = [sub EXCEPT ![i] = [pc |-> "cas", cur |-> queuedBytes]]
      BY <2>1, <1>4 DEF Load
    <3>2. /\ sub' \in [Items -> [pc : SubPC, cur : Int]] /\ sub'[i].pc = "cas"
          /\ \A j \in Items \ {i} : sub'[j] = sub[j]
      BY <3>1, <1>1, <1>2 DEF TypeOK
    <3> QED BY <3>2, <1>2, <1>4, SubmitterHolds, SameBytes DEF Load
  <2>2. CASE ~(queuedBytes + Size[i] <= maxQueueBytes)
    BY <2>2, <1>1, <1>2, <1>4, SubGotoFacts, SubmitterHolds, SameBytes DEF Load
  <2> QED BY <2>1, <2>2
<1>5. CASE Reserve(i)
  <2>1. CASE SubGoto(i, "load") /\ UNCHANGED queuedBytes
    BY <2>1, <1>1, <1>2, <1>5, SubGotoFacts, SubmitterHolds, SameBytes DEF Reserve
  <2>2. CASE SubGoto(i, "send") /\ queuedBytes' = queuedBytes + Size[i]
    BY <2>2, <1>1, <1>2, <1>5, SubGotoFacts, SubmitterHolds, GainsBytes DEF Reserve
  <2> QED BY <1>5, <2>1, <2>2 DEF Reserve
<1>6. CASE Woken(i)
  BY <1>1, <1>2, <1>6, SubGotoFacts, SubmitterHolds, SameBytes DEF Woken
<1>7. CASE WaitTimeout(i) \/ WaitShutdown(i)
  BY <1>1, <1>2, <1>7, SubGotoFacts, SubmitterHolds, SameBytes DEF WaitTimeout, WaitShutdown
<1>8. CASE SendTimeout(i) \/ SendShutdown(i)
  BY <1>1, <1>2, <1>8, SubGotoFacts, SubmitterHolds, SameBytes DEF SendTimeout, SendShutdown
<1>9. CASE ReturnBytes(i)
  BY <1>1, <1>2, <1>9, SubGotoFacts, SubmitterHolds, LosesBytes DEF ReturnBytes
<1>10. CASE WakeAfterUndo(i)
  BY <1>1, <1>2, <1>10, SubGotoFacts, SubmitterHolds, SameBytes DEF WakeAfterUndo
<1>11. CASE Enqueue(i)
  <2>1. /\ queue \in Seq(Items) /\ queue' = Append(queue, i) /\ sub[i].pc = "send"
        /\ UNCHANGED <<wk, queuedBytes>> /\ \A j \in Items \ {i} : sub'[j] = sub[j]
    BY <1>1, <1>2, <1>11, SubGotoFacts DEF Enqueue, TypeOK
  <2>2. \A j \in Items : Queued(j)' <=> (Queued(j) \/ j = i)
    BY <2>1, AppendFacts DEF Queued
  <2>3. \A j \in Items : Holding(j)' <=> Holding(j)
    BY <2>1, <2>2, <1>11, <1>1, <1>2, SubGotoFacts DEF Enqueue, Holding, HeldBy
  <2> QED BY <2>1, <2>3, SameBytes
<1> QED
  BY <1>3, <1>4, <1>5, <1>6, <1>7, <1>8, <1>9, <1>10, <1>11 DEF SubmitStep

\* What WkGoto does to the other workers and to this one's pc.
LEMMA WkGotoMoves ==
  ASSUME TypeOK, NEW w \in Workers, NEW p, NEW x, NEW a, WkGoto(w, p, x, a)
  PROVE  /\ \A v \in Workers \ {w} : wk'[v] = wk[v]
         /\ wk'[w].pc = p /\ wk'[w].item = x
  BY DEF TypeOK, WkGoto

\* The head of the channel goes to a worker with its reservation.
LEMMA ReceiveHolds ==
  ASSUME IInv, NEW w \in Workers, Receive(w)
  PROVE  \A j \in Items : Holding(j)' <=> Holding(j)
<1>1. /\ queue \in Seq(Items) /\ queue # <<>> /\ queue' = Tail(queue) /\ UNCHANGED sub
      /\ wk[w].pc = "idle" /\ TypeOK
  BY DEF IInv, PoolInv, TypeOK, Receive
<1>2. /\ \A v \in Workers \ {w} : wk'[v] = wk[v]
      /\ wk'[w].pc = "free" /\ wk'[w].item = Head(queue)
  BY <1>1, WkGotoMoves DEF Receive
<1>3. /\ Len(queue) \in Nat \ {0}
      /\ DOMAIN queue' = 1..(Len(queue) - 1)
      /\ \A n \in 1..(Len(queue) - 1) : queue'[n] = queue[n + 1]
      /\ Head(queue) = queue[1] /\ Head(queue) \in Items
      /\ DOMAIN queue = 1..Len(queue)
  BY <1>1, TailFacts
<1> PICK h \in Items : h = Head(queue)
  BY <1>3
<1>4. \A j \in Items \ {h} : Queued(j)' <=> Queued(j)
  <2> TAKE j \in Items \ {h}
  <2>1. ASSUME Queued(j)' PROVE Queued(j)
    <3>1. PICK n \in 1..(Len(queue) - 1) : queue[n + 1] = j
      BY <2>1, <1>3 DEF Queued
    <3> QED BY <3>1, <1>3 DEF Queued
  <2>2. ASSUME Queued(j) PROVE Queued(j)'
    <3>1. PICK n \in 1..Len(queue) : queue[n] = j
      BY <2>2, <1>3 DEF Queued
    <3>2. n # 1
      BY <3>1, <1>3
    <3>3. n - 1 \in 1..(Len(queue) - 1) /\ (n - 1) + 1 = n
      BY <3>2, <1>3
    <3>4. queue'[n - 1] = j
      BY <3>1, <3>3, <1>3
    <3> QED BY <3>3, <3>4, <1>3 DEF Queued
  <2> QED BY <2>1, <2>2
<1>5. Holding(h) /\ Holding(h)'
  <2>1. 1 \in DOMAIN queue
    BY <1>3
  <2> QED BY <2>1, <1>2, <1>3 DEF Holding, Queued, HeldBy
<1>6. \A j \in Items \ {h} : Holding(j)' <=> Holding(j)
  BY <1>1, <1>2, <1>4 DEF Holding, HeldBy
<1> QED BY <1>5, <1>6

LEMMA WorkerAccounts ==
  ASSUME IInv, BytesInv, NEW w \in Workers, WorkerStep(w)
  PROVE  BytesInv'
<1>1. TypeOK
  BY DEF IInv, PoolInv
<1>2. CASE Receive(w)
  BY <1>2, ReceiveHolds, SameBytes DEF Receive
<1>3. CASE FreeBytes(w)
  <2>1. PICK it \in Items : it = wk[w].item /\ wk[w].pc = "free"
    BY <1>1, <1>3 DEF FreeBytes, IInv, PoolInv, HoldsWhileBusy, TypeOK
  <2>2. /\ \A v \in Workers \ {w} : wk'[v] = wk[v]
        /\ wk'[w].pc = "wake" /\ wk'[w].item = it
    BY <1>1, <1>3, <2>1, WkGotoMoves DEF FreeBytes
  <2>3. UNCHANGED <<queue, sub>> /\ queuedBytes' = queuedBytes - Size[it]
    BY <1>3, <2>1 DEF FreeBytes
  <2>4. /\ sub[it].pc = "accepted" /\ ~Queued(it)
        /\ \A v \in Workers \ {w} : wk[v].item # it
    BY <2>1, PoolAssumption DEF IInv, PoolInv, OnePlace, HeldBy
  <2>5. \A j \in Items : Queued(j)' <=> Queued(j)
    BY <2>3 DEF Queued
  <2>6. Holding(it) /\ ~Holding(it)'
    BY <2>1, <2>2, <2>3, <2>4, <2>5 DEF Holding, HeldBy
  <2>7. \A j \in Items \ {it} : Holding(j)' <=> Holding(j)
    BY <2>1, <2>2, <2>3, <2>5 DEF Holding, HeldBy
  <2> QED BY <2>1, <2>3, <2>6, <2>7, LosesBytes
<1>4. ASSUME NEW o, Finish(w, o), wk[w].pc # "free" PROVE BytesInv'
  BY <1>1, <1>4, WkGotoMoves, WorkerHolds, SameBytes DEF Finish
<1>5. CASE Wake(w)
  BY <1>1, <1>5, WkGotoMoves, WorkerHolds, SameBytes DEF Wake
<1>6. CASE ParseFail(w) \/ WriteOk(w) \/ BackoffShutdown(w)
  BY <1>4, <1>6 DEF ParseFail, WriteOk, BackoffShutdown
<1>7. CASE WriteFail(w)
  <2>1. CASE Finish(w, "dead")
    BY <2>1, <1>4, <1>7 DEF WriteFail
  <2>2. CASE /\ WkGoto(w, "backoff", wk[w].item, wk[w].attempt + 1)
             /\ UNCHANGED <<maxQueueBytes, queue, queuedBytes, bytesFreed,
                            shutdown, sub, outcome, stop>>
    BY <2>2, <1>1, <1>7, WkGotoMoves, WorkerHolds, SameBytes DEF WriteFail
  <2> QED BY <2>1, <2>2, <1>7 DEF WriteFail
<1>8. CASE BackoffOver(w)
  BY <1>1, <1>8, WkGotoMoves, WorkerHolds, SameBytes DEF BackoffOver
<1>9. CASE Drain(w)
  <2>1. wk'[w].pc = wk[w].pc /\ \A v \in Workers \ {w} : wk'[v] = wk[v]
    BY <1>1, <1>9 DEF Drain, TypeOK
  <2> QED BY <2>1, <1>9, WorkerHolds, SameBytes DEF Drain
<1>10. CASE Exit(w)
  BY <1>1, <1>10, WkGotoMoves, WorkerHolds, SameBytes DEF Exit
<1> QED
  BY <1>2, <1>3, <1>5, <1>6, <1>7, <1>8, <1>9, <1>10 DEF WorkerStep

LEMMA RestAccounts ==
  ASSUME IInv, BytesInv, Stop \/ StopDone \/ StopTimeout \/ UNCHANGED vars
  PROVE  BytesInv'
<1>1. UNCHANGED <<queue, queuedBytes, sub, wk>>
  BY DEF Stop, StopDone, StopTimeout, vars
<1>2. \A j \in Items : Holding(j)' <=> Holding(j)
  BY <1>1 DEF Holding, Queued, HeldBy
<1> QED BY <1>1, <1>2, SameBytes

LEMMA BytesHold == Spec => []BytesInv
<1>1. Init => BytesInv
  <2> SUFFICES ASSUME Init PROVE BytesInv
    OBVIOUS
  <2>1. queuedBytes = 0 /\ queue = <<>>
    BY DEF Init
  <2>2. \A i \in Items : sub[i].pc = "idle" /\ ~Queued(i)
    BY <2>1 DEF Init, Queued
  <2>3. \A w \in Workers : wk[w].pc = "idle"
    BY DEF Init
  <2>4. HoldingSet = {}
    BY <2>2, <2>3 DEF HoldingSet, Holding
  <2> QED BY <2>1, <2>4, TotalEmpty, FS_EmptySet DEF BytesInv
<1>2. IInv /\ BytesInv /\ [Next]_vars => BytesInv'
  BY SubmitAccounts, WorkerAccounts, RestAccounts DEF Next
<1> QED BY <1>1, <1>2, PoolHolds, PTL DEF Spec

\* The counter of reserved bytes is the sum of the payloads that hold a
\* reservation, after every step of any race of submitters, workers and
\* Stop: reserve and releaseBytes are matched, whatever gives up in between.
THEOREM NoBytesLeaked == Spec => []BytesAccounted
<1>1. BytesInv => BytesAccounted
  BY DEF BytesInv, BytesAccounted, HoldingSet, Total, MapThenSumSet, MapThenFoldSet
<1> QED BY <1>1, BytesHold, PTL

-----------------------------------------------------------------------------
(* The wake-ups. *)

\* A submitter asks for bytes only with a budget its payload fits alone.
WaitFits ==
  \A i \in Items : sub[i].pc \in {"load", "cas", "wait"} =>
    maxQueueBytes > 0 /\ Size[i] <= maxQueueBytes

\* Something is coming that wakes a waiter.
Hope ==
  \/ bytesFreed
  \/ \E j \in Items : sub[j].pc \in {"wake", "load", "cas"}
  \/ \E w \in Workers : wk[w].pc = "wake"
  \/ \E j \in Items : Holding(j)

WakeInv == WaitFits /\ ((\E i \in Items : sub[i].pc = "wait") => Hope)

\* Bytes are in use, so somebody holds them.
LEMMA SomebodyHolds ==
  ASSUME IInv, BytesInv, queuedBytes > 0
  PROVE  \E j \in Items : Holding(j)
<1>1. HoldingSet # {}
  BY TotalEmpty DEF BytesInv
<1> QED BY <1>1 DEF HoldingSet

LEMMA WaitFitsStep ==
  ASSUME IInv, WaitFits, Next PROVE WaitFits'
<1>1. TypeOK
  BY DEF IInv, PoolInv
<1>2. {"rejected", "load", "send", "wait", "undo", "wake", "cas", "accepted"} \subseteq SubPC
  BY DEF SubPC
<1>3. ASSUME NEW i \in Items, NEW p \in SubPC, SubGoto(i, p), UNCHANGED maxQueueBytes,
             p \in {"load", "cas", "wait"} => maxQueueBytes > 0 /\ Size[i] <= maxQueueBytes
      PROVE  WaitFits'
  BY <1>1, <1>3, SubGotoFacts DEF WaitFits
<1>4. ASSUME NEW i \in Items, Submit(i) PROVE WaitFits'
  BY <1>2, <1>3, <1>4 DEF Submit, Bounded
<1>5. ASSUME NEW i \in Items, Load(i) PROVE WaitFits'
  <2>1. /\ \A j \in Items \ {i} : sub'[j] = sub[j]
        /\ sub[i].pc = "load" /\ UNCHANGED maxQueueBytes
    BY <1>1, <1>5 DEF Load, TypeOK, SubGoto
  <2> QED BY <2>1 DEF WaitFits
<1>6. ASSUME NEW i \in Items, SubmitStep(i), ~Load(i) PROVE WaitFits'
  <2>1. CASE Reserve(i)
    BY <1>2, <1>3, <2>1 DEF Reserve, WaitFits
  <2>2. CASE Woken(i)
    BY <1>2, <1>3, <2>2 DEF Woken, WaitFits
  <2>3. CASE WaitTimeout(i) \/ WaitShutdown(i) \/ Enqueue(i) \/ SendTimeout(i)
             \/ SendShutdown(i) \/ ReturnBytes(i) \/ WakeAfterUndo(i)
    BY <1>2, <1>3, <2>3 DEF WaitTimeout, WaitShutdown, Enqueue, SendTimeout,
                            SendShutdown, ReturnBytes, WakeAfterUndo
  <2> QED BY <1>6, <2>1, <2>2, <2>3 DEF SubmitStep
<1>7. CASE (\E w \in Workers : WorkerStep(w)) \/ Stop \/ StopDone \/ StopTimeout
  <2>1. UNCHANGED <<sub, maxQueueBytes>>
    BY <1>7 DEF WorkerStep, Receive, FreeBytes, Wake, ParseFail, WriteOk, WriteFail, Finish,
                BackoffOver, BackoffShutdown, Drain, Exit, Stop, StopDone, StopTimeout
  <2> QED BY <2>1 DEF WaitFits
<1> QED BY <1>4, <1>5, <1>6, <1>7 DEF Next

\* A step that neither wakes nor holds nor frees leaves the hope as it was.
LEMMA HopeKept ==
  ASSUME Hope, UNCHANGED bytesFreed, \A j \in Items : Holding(j)' <=> Holding(j),
         \A j \in Items : sub[j].pc \in {"wake", "load", "cas"} => sub'[j] = sub[j],
         \A w \in Workers : wk[w].pc = "wake" => wk'[w] = wk[w]
  PROVE  Hope'
  BY DEF Hope

LEMMA SubmitHope ==
  ASSUME IInv, BytesInv, WakeInv, NEW i \in Items, Submit(i) \/ SubmitStep(i),
         \E k \in Items : sub'[k].pc = "wait"
  PROVE  Hope'
<1>1. TypeOK /\ queuedBytes \in Int /\ maxQueueBytes \in Nat /\ Size[i] \in Nat
  BY PoolAssumption DEF IInv, PoolInv, TypeOK
<1>2. {"rejected", "load", "send", "wait", "undo", "wake", "cas", "accepted"} \subseteq SubPC
  BY DEF SubPC
\* The submitter gives up: nothing it held is a part of the hope.
<1>3. ASSUME SubGoto(i, "rejected"), sub[i].pc \in {"idle", "wait"},
             UNCHANGED <<queue, wk, bytesFreed>>
      PROVE  Hope'
  <2>1. sub'[i].pc = "rejected" /\ \A j \in Items \ {i} : sub'[j] = sub[j]
    BY <1>1, <1>2, <1>3, SubGotoFacts
  <2>2. \A j \in Items : Holding(j)' <=> Holding(j)
    BY <1>1, <1>2, <1>3, SubGotoFacts, SubmitterHolds
  <2>3. Hope
    BY <2>1 DEF WakeInv
  <2> QED BY <2>1, <2>2, <2>3, <1>3, HopeKept
\* It goes where it reserves, or holds bytes, or brings a wake-up.
<1>4. ASSUME NEW p \in {"load", "wake", "send", "undo"}, SubGoto(i, p) PROVE Hope'
  <2>1. sub'[i].pc = p
    BY <1>1, <1>2, <1>4, SubGotoFacts
  <2> QED BY <2>1, <1>4 DEF Hope, Holding
<1>5. CASE Submit(i)
  BY <1>3, <1>4, <1>5 DEF Submit
<1>6. CASE Load(i)
  <2>1. CASE queuedBytes + Size[i] <= maxQueueBytes
    <3>1. sub'[i].pc = "cas"
      BY <2>1, <1>1, <1>6 DEF Load, TypeOK
    <3> QED BY <3>1 DEF Hope
  <2>2. CASE ~(queuedBytes + Size[i] <= maxQueueBytes)
    <3>1. SubGoto(i, "wait") /\ sub[i].pc = "load" /\ UNCHANGED <<queue, wk>>
      BY <2>2, <1>6 DEF Load
    <3>2. queuedBytes > 0
      BY <2>2, <3>1, <1>1 DEF WakeInv, WaitFits
    <3>3. PICK j \in Items : Holding(j)
      BY <3>2, SomebodyHolds
    <3>4. Holding(j)'
      BY <3>1, <3>3, <1>1, <1>2, SubGotoFacts, SubmitterHolds
    <3> QED BY <3>4 DEF Hope
  <2> QED BY <2>1, <2>2
<1>7. CASE Reserve(i)
  BY <1>4, <1>7 DEF Reserve
<1>8. CASE Woken(i)
  BY <1>4, <1>8 DEF Woken
<1>9. CASE WaitTimeout(i) \/ WaitShutdown(i)
  BY <1>3, <1>9 DEF WaitTimeout, WaitShutdown
<1>10. CASE SendTimeout(i) \/ SendShutdown(i)
  BY <1>4, <1>10 DEF SendTimeout, SendShutdown
<1>11. CASE ReturnBytes(i)
  BY <1>4, <1>11 DEF ReturnBytes
<1>12. CASE WakeAfterUndo(i)
  BY <1>12 DEF WakeAfterUndo, Hope
<1>13. CASE Enqueue(i)
  <2>1. queue \in Seq(Items) /\ queue' = Append(queue, i)
    BY <1>1, <1>13 DEF Enqueue, TypeOK
  <2>2. Queued(i)'
    BY <2>1, AppendFacts DEF Queued
  <2> QED BY <2>2 DEF Hope, Holding
<1> QED
  BY <1>5, <1>6, <1>7, <1>8, <1>9, <1>10, <1>11, <1>12, <1>13 DEF SubmitStep

LEMMA WorkerHope ==
  ASSUME IInv, WakeInv, NEW w \in Workers, WorkerStep(w),
         \E k \in Items : sub'[k].pc = "wait"
  PROVE  Hope'
<1>1. TypeOK
  BY DEF IInv, PoolInv
<1>2. UNCHANGED sub
  BY DEF WorkerStep, Receive, FreeBytes, Wake, ParseFail, WriteOk, WriteFail, Finish,
         BackoffOver, BackoffShutdown, Drain, Exit
<1>3. Hope
  BY <1>2 DEF WakeInv
\* A step of a worker that neither holds bytes nor owes a wake-up.
<1>4. ASSUME wk[w].pc \notin {"free", "wake"}, wk'[w].pc # "free",
             \A v \in Workers \ {w} : wk'[v] = wk[v], UNCHANGED <<queue, bytesFreed>>
      PROVE  Hope'
  BY <1>2, <1>3, <1>4, WorkerHolds, HopeKept
<1>5. ASSUME NEW o, Finish(w, o), wk[w].pc \notin {"free", "wake"} PROVE Hope'
  BY <1>1, <1>4, <1>5, WkGotoMoves DEF Finish
<1>6. CASE Receive(w)
  <2>1. \A j \in Items : Holding(j)' <=> Holding(j)
    BY <1>6, ReceiveHolds
  <2>2. \A v \in Workers : wk[v].pc = "wake" => wk'[v] = wk[v]
    BY <1>1, <1>6, WkGotoMoves DEF Receive
  <2> QED BY <2>1, <2>2, <1>2, <1>3, <1>6, HopeKept DEF Receive
<1>7. CASE FreeBytes(w)
  <2>1. wk'[w].pc = "wake"
    BY <1>1, <1>7, WkGotoMoves DEF FreeBytes
  <2> QED BY <2>1 DEF Hope
<1>8. CASE Wake(w)
  BY <1>8 DEF Wake, Hope
<1>9. CASE ParseFail(w) \/ WriteOk(w) \/ BackoffShutdown(w)
  BY <1>5, <1>9 DEF ParseFail, WriteOk, BackoffShutdown
<1>10. CASE WriteFail(w)
  <2>1. CASE Finish(w, "dead")
    BY <2>1, <1>5, <1>10 DEF WriteFail
  <2>2. CASE /\ WkGoto(w, "backoff", wk[w].item, wk[w].attempt + 1)
             /\ UNCHANGED <<maxQueueBytes, queue, queuedBytes, bytesFreed,
                            shutdown, sub, outcome, stop>>
    BY <2>2, <1>1, <1>4, <1>10, WkGotoMoves DEF WriteFail
  <2> QED BY <2>1, <2>2, <1>10 DEF WriteFail
<1>11. CASE BackoffOver(w)
  BY <1>1, <1>4, <1>11, WkGotoMoves DEF BackoffOver
<1>12. CASE Drain(w)
  <2>1. wk'[w].pc = wk[w].pc /\ \A v \in Workers \ {w} : wk'[v] = wk[v]
    BY <1>1, <1>12 DEF Drain, TypeOK
  <2> QED BY <2>1, <1>4, <1>12 DEF Drain
<1>13. CASE Exit(w)
  BY <1>1, <1>4, <1>13, WkGotoMoves DEF Exit
<1> QED
  BY <1>6, <1>7, <1>8, <1>9, <1>10, <1>11, <1>12, <1>13 DEF WorkerStep

LEMMA WakeStep ==
  ASSUME IInv, BytesInv, WakeInv, [Next]_vars PROVE WakeInv'
<1>1. CASE \E i \in Items : Submit(i) \/ SubmitStep(i)
  BY <1>1, SubmitHope, WaitFitsStep DEF WakeInv, Next
<1>2. CASE \E w \in Workers : WorkerStep(w)
  BY <1>2, WorkerHope, WaitFitsStep DEF WakeInv, Next
<1>3. CASE Stop \/ StopDone \/ StopTimeout \/ UNCHANGED vars
  <2>1. UNCHANGED <<maxQueueBytes, queue, bytesFreed, sub, wk>>
    BY <1>3 DEF Stop, StopDone, StopTimeout, vars
  <2>2. \A j \in Items : Holding(j)' <=> Holding(j)
    BY <2>1 DEF Holding, Queued, HeldBy
  <2> QED BY <2>1, <2>2 DEF WakeInv, WaitFits, Hope
<1> QED BY <1>1, <1>2, <1>3 DEF Next

\* The claim of releaseBytes for any number of submitters and workers: the
\* one-slot channel may drop a wake-up, but a submitter never waits for bytes
\* with nothing left that would wake it.
THEOREM NoWaiterStranded == Spec => []NeverStranded
<1>1. Init => WakeInv
  BY DEF Init, WakeInv, WaitFits
<1>2. IInv /\ BytesInv /\ WakeInv /\ [Next]_vars => WakeInv'
  BY WakeStep
<1>3. IInv /\ WakeInv => NeverStranded
  <2> SUFFICES ASSUME IInv, WakeInv, NEW i \in Items, sub[i].pc = "wait"
               PROVE  \/ bytesFreed
                      \/ \E j \in Items : sub[j].pc \in {"wake", "load", "cas"}
                      \/ \E w \in Workers : wk[w].pc = "wake"
                      \/ \E j \in Items \ {i} : Holding(j)
    BY DEF NeverStranded
  <2>1. ~Holding(i)
    BY HoldingBeforeAccepted
  <2> QED BY <2>1 DEF WakeInv, Hope
<1> QED BY <1>1, <1>2, <1>3, PoolHolds, BytesHold, PTL DEF Spec
=============================================================================
