----------------------------- MODULE WorkerPool -----------------------------
(***************************************************************************)
(* The telemetry worker pool (internal/worker/pool.go): OTLP receivers     *)
(* Submit raw payloads, workers take them from a buffered channel and      *)
(* write them with a bounded number of retries, Stop closes the shutdown   *)
(* channel and waits for the workers.  Two limits hold submitters back:    *)
(* the capacity of the channel and a byte budget that is reserved with     *)
(* compare-and-swap; a one-slot channel wakes submitters that wait for     *)
(* bytes.                                                                  *)
(*                                                                         *)
(* Each item is the argument of one Submit call, so an item also names the *)
(* goroutine that submits it.  One action is one access to shared memory   *)
(* or to a channel.  A Go select that has several cases ready picks any of *)
(* them, so its cases are disjuncts with no priority; a timer may fire     *)
(* whenever its goroutine is in the select.                                *)
(***************************************************************************)
EXTENDS Integers, Sequences, FiniteSets, FiniteSetsExt

CONSTANTS
  Items,          \* work items, one Submit call each
  Size,           \* Size[i]: len(item.RawData)
  Workers,        \* the worker goroutines
  QueueSize,      \* capacity of the channel
  Budgets,        \* values SetMaxQueueBytes may be called with; 0 is no bound
  Retries,        \* len(retryBackoffs): write attempts after the first
  NoItem          \* what a worker holds that holds no item

ASSUME PoolAssumption ==
  /\ Size \in [Items -> Nat]
  /\ QueueSize \in Nat
  /\ Budgets \subseteq Nat
  /\ Retries \in Nat
  /\ NoItem \notin Items

VARIABLES
  maxQueueBytes, \* the byte budget, set once before Start
  queue,       \* the buffered channel of items
  queuedBytes, \* the atomic counter of reserved bytes
  bytesFreed,  \* a wake-up is in the one-slot channel
  shutdown,    \* the shutdown channel is closed
  sub,         \* sub[i]: where the Submit call of i is, and the value it loaded
  wk,          \* wk[w]: where worker w is, its item, attempt and drain mode
  outcome,     \* outcome[i]: what processItem did with i
  stop         \* where the Stop call is

vars == <<maxQueueBytes, queue, queuedBytes, bytesFreed, shutdown, sub, wk, outcome, stop>>

SubPC == {"idle", "load", "cas", "wait", "send", "undo", "wake",
          "accepted", "rejected"}
WkPC == {"idle", "free", "wake", "write", "backoff", "exited"}
Outcomes == {"none", "written", "unparsed", "dead", "abandoned"}

Bounded == maxQueueBytes > 0

TypeOK ==
  /\ maxQueueBytes \in Budgets
  /\ queue \in Seq(Items)
  /\ queuedBytes \in Int
  /\ bytesFreed \in BOOLEAN
  /\ shutdown \in BOOLEAN
  /\ sub \in [Items -> [pc : SubPC, cur : Int]]
  /\ wk \in [Workers -> [pc : WkPC, item : Items \cup {NoItem},
                         attempt : 0..Retries, draining : BOOLEAN]]
  /\ outcome \in [Items -> Outcomes]
  /\ stop \in {"none", "waiting", "stopped", "timeout"}

\* NewPool, SetMaxQueueBytes and Start: everything empty, the workers at
\* their select.
Init ==
  /\ maxQueueBytes \in Budgets
  /\ queue = <<>>
  /\ queuedBytes = 0
  /\ bytesFreed = FALSE
  /\ shutdown = FALSE
  /\ sub = [i \in Items |-> [pc |-> "idle", cur |-> 0]]
  /\ wk = [w \in Workers |-> [pc |-> "idle", item |-> NoItem,
                              attempt |-> 0, draining |-> FALSE]]
  /\ outcome = [i \in Items |-> "none"]
  /\ stop = "none"

-----------------------------------------------------------------------------
(* Submit *)

SubGoto(i, pc) == sub' = [sub EXCEPT ![i] = [pc |-> pc, cur |-> 0]]

\* The call begins.  A payload over the whole budget is refused at once; with
\* the budget off the counter is only kept honest.
Submit(i) ==
  /\ sub[i].pc = "idle"
  /\ \/ /\ Bounded /\ Size[i] > maxQueueBytes
        /\ SubGoto(i, "rejected")
        /\ UNCHANGED queuedBytes
     \/ /\ Bounded /\ Size[i] <= maxQueueBytes
        /\ SubGoto(i, "load")
        /\ UNCHANGED queuedBytes
     \/ /\ ~Bounded
        /\ queuedBytes' = queuedBytes + Size[i]
        /\ SubGoto(i, "send")
  /\ UNCHANGED <<maxQueueBytes, queue, bytesFreed, shutdown, wk, outcome, stop>>

\* cur := queuedBytes.Load(), and the test of the budget.
Load(i) ==
  /\ sub[i].pc = "load"
  /\ IF queuedBytes + Size[i] <= maxQueueBytes
     THEN sub' = [sub EXCEPT ![i] = [pc |-> "cas", cur |-> queuedBytes]]
     ELSE SubGoto(i, "wait")
  /\ UNCHANGED <<maxQueueBytes, queue, queuedBytes, bytesFreed, shutdown, wk, outcome, stop>>

(* Mutant: an atomic Add takes the place of the compare-and-swap. *)
ReserveByAdd(i) ==
  /\ sub[i].pc = "cas"
  /\ queuedBytes' = queuedBytes + Size[i]
  /\ SubGoto(i, "send")
  /\ UNCHANGED <<maxQueueBytes, queue, bytesFreed, shutdown, wk, outcome, stop>>

\* CompareAndSwap(cur, cur+sz): reserve, or read again.
Reserve(i) ==
  /\ sub[i].pc = "cas"
  /\ IF queuedBytes = sub[i].cur
     THEN /\ queuedBytes' = queuedBytes + Size[i]
          /\ SubGoto(i, "send")
     ELSE /\ UNCHANGED queuedBytes
          /\ SubGoto(i, "load")
  /\ UNCHANGED <<maxQueueBytes, queue, bytesFreed, shutdown, wk, outcome, stop>>

\* The select of a submitter over budget: a wake-up, the timer, shutdown.
Woken(i) ==
  /\ sub[i].pc = "wait"
  /\ bytesFreed
  /\ bytesFreed' = FALSE
  /\ SubGoto(i, "load")
  /\ UNCHANGED <<maxQueueBytes, queue, queuedBytes, shutdown, wk, outcome, stop>>

WaitTimeout(i) ==
  /\ sub[i].pc = "wait"
  /\ SubGoto(i, "rejected")
  /\ UNCHANGED <<maxQueueBytes, queue, queuedBytes, bytesFreed, shutdown, wk, outcome, stop>>

WaitShutdown(i) ==
  /\ sub[i].pc = "wait"
  /\ shutdown
  /\ SubGoto(i, "rejected")
  /\ UNCHANGED <<maxQueueBytes, queue, queuedBytes, bytesFreed, shutdown, wk, outcome, stop>>

\* The select that enqueues: the channel has room, the timer, shutdown.
Enqueue(i) ==
  /\ sub[i].pc = "send"
  /\ Len(queue) < QueueSize
  /\ queue' = Append(queue, i)
  /\ SubGoto(i, "accepted")
  /\ UNCHANGED <<maxQueueBytes, queuedBytes, bytesFreed, shutdown, wk, outcome, stop>>

(* Mutant: the reservation is not rolled back on a timeout. *)
SendTimeoutKeepsBytes(i) ==
  /\ sub[i].pc = "send"
  /\ SubGoto(i, "rejected")
  /\ UNCHANGED <<maxQueueBytes, queue, queuedBytes, bytesFreed, shutdown, wk, outcome, stop>>

SendTimeout(i) ==
  /\ sub[i].pc = "send"
  /\ SubGoto(i, "undo")
  /\ UNCHANGED <<maxQueueBytes, queue, queuedBytes, bytesFreed, shutdown, wk, outcome, stop>>

SendShutdown(i) ==
  /\ sub[i].pc = "send"
  /\ shutdown
  /\ SubGoto(i, "undo")
  /\ UNCHANGED <<maxQueueBytes, queue, queuedBytes, bytesFreed, shutdown, wk, outcome, stop>>

\* releaseBytes of a submitter that gives up: first the counter, then a
\* wake-up that is dropped when one is already there.
ReturnBytes(i) ==
  /\ sub[i].pc = "undo"
  /\ queuedBytes' = queuedBytes - Size[i]
  /\ SubGoto(i, "wake")
  /\ UNCHANGED <<maxQueueBytes, queue, bytesFreed, shutdown, wk, outcome, stop>>

WakeAfterUndo(i) ==
  /\ sub[i].pc = "wake"
  /\ bytesFreed' = TRUE
  /\ SubGoto(i, "rejected")
  /\ UNCHANGED <<maxQueueBytes, queue, queuedBytes, shutdown, wk, outcome, stop>>

-----------------------------------------------------------------------------
(* worker *)

WkGoto(w, pc, item, attempt) ==
  wk' = [wk EXCEPT ![w] = [pc |-> pc, item |-> item, attempt |-> attempt,
                           draining |-> wk[w].draining]]

\* The receive case, of the main select and of the drain loop alike.
Receive(w) ==
  /\ wk[w].pc = "idle"
  /\ queue # <<>>
  /\ WkGoto(w, "free", Head(queue), 0)
  /\ queue' = Tail(queue)
  /\ UNCHANGED <<maxQueueBytes, queuedBytes, bytesFreed, shutdown, sub, outcome, stop>>

\* releaseBytes for the item that left the queue, in two steps.
FreeBytes(w) ==
  /\ wk[w].pc = "free"
  /\ queuedBytes' = queuedBytes - Size[wk[w].item]
  /\ WkGoto(w, "wake", wk[w].item, wk[w].attempt)
  /\ UNCHANGED <<maxQueueBytes, queue, bytesFreed, shutdown, sub, outcome, stop>>

(* Mutant: the worker frees the bytes and wakes nobody. *)
WakeNobody(w) ==
  /\ wk[w].pc = "wake"
  /\ WkGoto(w, "write", wk[w].item, wk[w].attempt)
  /\ UNCHANGED <<maxQueueBytes, queue, queuedBytes, bytesFreed, shutdown, sub, outcome, stop>>

Wake(w) ==
  /\ wk[w].pc = "wake"
  /\ bytesFreed' = TRUE
  /\ WkGoto(w, "write", wk[w].item, wk[w].attempt)
  /\ UNCHANGED <<maxQueueBytes, queue, queuedBytes, shutdown, sub, outcome, stop>>

\* processItem returns: the item has its outcome and the worker loops.
Finish(w, o) ==
  /\ outcome' = [outcome EXCEPT ![wk[w].item] = o]
  /\ WkGoto(w, "idle", NoItem, 0)
  /\ UNCHANGED <<maxQueueBytes, queue, queuedBytes, bytesFreed, shutdown, sub, stop>>

\* A payload that does not parse is dropped without a retry.
ParseFail(w) ==
  /\ wk[w].pc = "write" /\ wk[w].attempt = 0
  /\ Finish(w, "unparsed")

WriteOk(w) ==
  /\ wk[w].pc = "write"
  /\ Finish(w, "written")

\* A failed write backs off, or dead-letters the item after the last attempt.
WriteFail(w) ==
  /\ wk[w].pc = "write"
  /\ \/ /\ wk[w].attempt = Retries
        /\ Finish(w, "dead")
     \/ /\ wk[w].attempt < Retries
        /\ WkGoto(w, "backoff", wk[w].item, wk[w].attempt + 1)
        /\ UNCHANGED <<maxQueueBytes, queue, queuedBytes, bytesFreed, shutdown, sub, outcome, stop>>

\* The select of the backoff: the delay, or shutdown, which gives the item up.
BackoffOver(w) ==
  /\ wk[w].pc = "backoff"
  /\ WkGoto(w, "write", wk[w].item, wk[w].attempt)
  /\ UNCHANGED <<maxQueueBytes, queue, queuedBytes, bytesFreed, shutdown, sub, outcome, stop>>

BackoffShutdown(w) ==
  /\ wk[w].pc = "backoff"
  /\ shutdown
  /\ Finish(w, "abandoned")

(* Mutant: shutdown ends the worker without draining the queue. *)
DrainNothing(w) ==
  /\ wk[w].pc = "idle"
  /\ shutdown
  /\ WkGoto(w, "exited", wk[w].item, wk[w].attempt)
  /\ UNCHANGED <<maxQueueBytes, queue, queuedBytes, bytesFreed, shutdown, sub, outcome, stop>>

\* The shutdown case of the main select, and the end of the drain loop.
Drain(w) ==
  /\ wk[w].pc = "idle"
  /\ shutdown /\ ~wk[w].draining
  /\ wk' = [wk EXCEPT ![w].draining = TRUE]
  /\ UNCHANGED <<maxQueueBytes, queue, queuedBytes, bytesFreed, shutdown, sub, outcome, stop>>

Exit(w) ==
  /\ wk[w].pc = "idle"
  /\ wk[w].draining /\ queue = <<>>
  /\ WkGoto(w, "exited", wk[w].item, wk[w].attempt)
  /\ UNCHANGED <<maxQueueBytes, queue, queuedBytes, bytesFreed, shutdown, sub, outcome, stop>>

-----------------------------------------------------------------------------
(* Stop *)

Stop ==
  /\ stop = "none"
  /\ shutdown' = TRUE
  /\ stop' = "waiting"
  /\ UNCHANGED <<maxQueueBytes, queue, queuedBytes, bytesFreed, sub, wk, outcome>>

StopDone ==
  /\ stop = "waiting"
  /\ \A w \in Workers : wk[w].pc = "exited"
  /\ stop' = "stopped"
  /\ UNCHANGED <<maxQueueBytes, queue, queuedBytes, bytesFreed, shutdown, sub, wk, outcome>>

StopTimeout ==
  /\ stop = "waiting"
  /\ stop' = "timeout"
  /\ UNCHANGED <<maxQueueBytes, queue, queuedBytes, bytesFreed, shutdown, sub, wk, outcome>>

-----------------------------------------------------------------------------
\* The steps of a Submit call once it has begun, timers included.
SubmitStep(i) ==
  \/ Load(i) \/ Reserve(i)
  \/ Woken(i) \/ WaitTimeout(i) \/ WaitShutdown(i)
  \/ Enqueue(i) \/ SendTimeout(i) \/ SendShutdown(i)
  \/ ReturnBytes(i) \/ WakeAfterUndo(i)

WorkerStep(w) ==
  \/ Receive(w) \/ FreeBytes(w) \/ Wake(w)
  \/ ParseFail(w) \/ WriteOk(w) \/ WriteFail(w)
  \/ BackoffOver(w) \/ BackoffShutdown(w)
  \/ Drain(w) \/ Exit(w)

Next ==
  \/ \E i \in Items : Submit(i) \/ SubmitStep(i)
  \/ \E w \in Workers : WorkerStep(w)
  \/ Stop \/ StopDone \/ StopTimeout

\* A goroutine that can run runs, a timer fires, a write returns.  Nobody has
\* to call Submit or Stop.
Fairness ==
  /\ \A i \in Items : WF_vars(SubmitStep(i))
  /\ \A w \in Workers : WF_vars(WorkerStep(w))

Spec == Init /\ [][Next]_vars /\ Fairness

-----------------------------------------------------------------------------
(* Properties *)

Queued(i) == \E n \in DOMAIN queue : queue[n] = i
HeldBy(w, i) == wk[w].item = i

\* i has bytes reserved: its Submit has reserved and not given up, or it is in
\* the queue, or the worker that took it has not given the bytes back yet.
Holding(i) ==
  \/ sub[i].pc \in {"send", "undo"}
  \/ Queued(i)
  \/ \E w \in Workers : wk[w].pc = "free" /\ HeldBy(w, i)

\* An accepted item is in exactly one place - the queue, one worker, or
\* finished - and no other item is anywhere: nothing is processed twice,
\* nothing accepted disappears (Submit, worker and the drain loop).
OnePlace ==
  /\ \A m, n \in DOMAIN queue : queue[m] = queue[n] => m = n
  /\ \A v, w \in Workers :
       wk[v].item = wk[w].item /\ wk[v].item # NoItem => v = w
  /\ \A i \in Items : \A w \in Workers :
       HeldBy(w, i) => outcome[i] = "none" /\ ~Queued(i)
  /\ \A i \in Items : Queued(i) => outcome[i] = "none"
  /\ \A i \in Items :
       sub[i].pc = "accepted" <=>
         \/ Queued(i)
         \/ \E w \in Workers : HeldBy(w, i)
         \/ outcome[i] # "none"

\* A worker holds an item exactly while it works on one.
HoldsWhileBusy ==
  \A w \in Workers : wk[w].item = NoItem <=> wk[w].pc \in {"idle", "exited"}

\* Neither limit is ever exceeded, whatever the submitters race on: the
\* compare-and-swap of Submit and the capacity of the channel.
WithinLimits ==
  /\ Len(queue) <= QueueSize
  /\ Bounded => queuedBytes <= maxQueueBytes

\* However submitters, workers and Stop interleave: an accepted item is in one
\* place only, and both limits of Submit hold.
PoolInv == TypeOK /\ HoldsWhileBusy /\ OnePlace /\ WithinLimits

\* The counter is the sum of the reservations at every step of every race, so
\* the budget neither leaks (a roll-back forgotten) nor goes negative.
BytesAccounted ==
  queuedBytes =
    MapThenSumSet(LAMBDA i : Size[i], {i \in Items : Holding(i)})

\* The claim of releaseBytes that a coalesced wake-up never strands a waiter:
\* while a submitter waits for bytes a wake-up is there or coming, or another
\* call holds, or is about to reserve, bytes whose release will bring one.  (It
\* may still wait while its payload would fit: the wake-up can go to a larger
\* payload that waits again.)
NeverStranded ==
  \A i \in Items : sub[i].pc = "wait" =>
    \/ bytesFreed
    \/ \E j \in Items : sub[j].pc \in {"wake", "load", "cas"}
    \/ \E w \in Workers : wk[w].pc = "wake"
    \/ \E j \in Items \ {i} : Holding(j)

\* What Submit accepted before Stop is called gets its outcome - written,
\* dead-lettered or given up - even when Stop comes next: the drain loop
\* leaves nothing behind; and after Stop every worker ends.
AcceptedIsHandled ==
  /\ \A i \in Items :
       (sub[i].pc = "accepted" /\ ~shutdown) ~> (outcome[i] # "none")
  /\ shutdown ~> (\A w \in Workers : wk[w].pc = "exited")
=============================================================================
