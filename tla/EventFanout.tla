---------------------------- MODULE EventFanout ----------------------------
(***************************************************************************)
(* What follows an audit event (services.Record): the durable row, the     *)
(* event broker with its subscribers (internal/events), and the SIEM       *)
(* dispatcher with a queue and a worker per destination, reloaded while    *)
(* events flow (internal/siem).  Publishing holds the broker's read lock   *)
(* over the whole loop; dispatching holds the dispatcher's mutex and is    *)
(* one step.  Every event is one Record call.                              *)
(***************************************************************************)
EXTENDS Integers, Sequences, FiniteSets

CONSTANTS
  Events,      \* one Record call each
  Subs,        \* subscriptions, each opened and closed once
  Dests,       \* SIEM destinations
  Matches,     \* Matches[d]: the events that pass the filter of d
  Workers,     \* names for worker goroutines, each used once
  None,        \* no worker, no event
  BufSize,     \* buffer of a subscription
  QueueSize,   \* queueCapacity
  Attempts,    \* retryAttempts
  MaxEdits     \* bound on changes of the enabled destinations

\* A worker goroutine.
WorkerRec ==
  [dest : Dests, in : Seq(Events), done : BOOLEAN, event : Events \cup {None},
   attempt : 0..Attempts, gone : BOOLEAN, handled : SUBSET Events]

ASSUME FanoutAssumption ==
  /\ Matches \in [Dests -> SUBSET Events]
  /\ None \notin Events \cup Workers \cup WorkerRec
  /\ BufSize \in Nat \ {0} /\ QueueSize \in Nat \ {0}
  /\ Attempts \in Nat \ {0} /\ MaxEdits \in Nat

VARIABLES
  pc,        \* pc[e]: where Record(e) is
  rows,      \* events with a durable row
  audience,  \* audience[e]: the subscriptions Publish(e) found
  todo,      \* todo[e]: those it has still to serve
  sub,       \* sub[s]: none, open, closing, removed, closed
  buffer, received, dropped,   \* per subscription
  enabled,   \* destinations enabled in the store
  edits,
  workers,   \* workers[d]: the dispatcher's map
  worker,    \* worker[w]: a worker goroutine, or None before it is started
  reload,    \* the reload loop: what LoadEnabled returned, what is left of it
  stopping   \* ctx is cancelled

broker == <<audience, todo, sub, buffer, received, dropped>>
siem == <<enabled, edits, workers, worker, reload, stopping>>
vars == <<pc, rows, broker, siem>>

NewWorker(d) ==
  [dest |-> d, in |-> <<>>, done |-> FALSE, event |-> None, attempt |-> 0,
   gone |-> FALSE, handled |-> {}]
Loop(state) == [state |-> state, want |-> {}, left |-> {}]

TypeOK ==
  /\ pc \in [Events -> {"idle", "stored", "publishing", "published", "done", "failed"}]
  /\ rows \subseteq Events
  /\ audience \in [Events -> SUBSET Subs] /\ todo \in [Events -> SUBSET Subs]
  /\ sub \in [Subs -> {"none", "open", "closing", "removed", "closed"}]
  /\ buffer \in [Subs -> Seq(Events)] /\ received \in [Subs -> Seq(Events)]
  /\ \A s \in Subs : Len(buffer[s]) <= BufSize
  /\ dropped \in [Subs -> Nat]
  /\ enabled \subseteq Dests /\ edits \in 0..MaxEdits
  /\ workers \in [Dests -> Workers \cup {None}]
  /\ worker \in [Workers -> WorkerRec \cup {None}]
  /\ reload \in [state : {"resting", "running", "over"}, want : SUBSET Dests, left : SUBSET Dests]
  /\ stopping \in BOOLEAN

Init ==
  /\ pc = [e \in Events |-> "idle"] /\ rows = {}
  /\ audience = [e \in Events |-> {}] /\ todo = [e \in Events |-> {}]
  /\ sub = [s \in Subs |-> "none"]
  /\ buffer = [s \in Subs |-> <<>>] /\ received = [s \in Subs |-> <<>>]
  /\ dropped = [s \in Subs |-> 0]
  /\ enabled \in SUBSET Dests /\ edits = 0
  /\ workers = [d \in Dests |-> None]
  /\ worker = [w \in Workers |-> None]
  /\ reload = Loop("resting") /\ stopping = FALSE

(***************************************************************************)
(* Record.                                                                 *)
(***************************************************************************)
\* CreateAuditEvent fails, and nothing is told to anyone, or the row is written.
Store(e) ==
  /\ pc[e] = "idle"
  /\ \/ /\ rows' = rows \cup {e}
        /\ pc' = [pc EXCEPT ![e] = "stored"]
     \/ /\ pc' = [pc EXCEPT ![e] = "failed"]
        /\ UNCHANGED rows
  /\ UNCHANGED <<broker, siem>>

Publishing == {e \in Events : pc[e] = "publishing"}

\* Publish takes the read lock; the subscriptions cannot change under it.
Publish(e) ==
  /\ pc[e] = "stored"
  /\ audience' = [audience EXCEPT ![e] = {s \in Subs : sub[s] \in {"open", "closing"}}]
  /\ todo' = [todo EXCEPT ![e] = audience'[e]]
  /\ pc' = [pc EXCEPT ![e] = "publishing"]
  /\ UNCHANGED <<rows, sub, buffer, received, dropped, siem>>

\* One subscription of the loop: into its buffer, or dropped and counted.
Offer(e, s) ==
  /\ pc[e] = "publishing" /\ s \in todo[e]
  /\ todo' = [todo EXCEPT ![e] = @ \ {s}]
  /\ \/ /\ Len(buffer[s]) < BufSize
        /\ buffer' = [buffer EXCEPT ![s] = Append(@, e)]
        /\ UNCHANGED dropped
     \/ /\ Len(buffer[s]) >= BufSize
        /\ dropped' = [dropped EXCEPT ![s] = @ + 1]
        /\ UNCHANGED buffer
  /\ UNCHANGED <<pc, rows, audience, sub, received, siem>>

\* The read lock is released.
Published(e) ==
  /\ pc[e] = "publishing" /\ todo[e] = {}
  /\ pc' = [pc EXCEPT ![e] = "published"]
  /\ UNCHANGED <<rows, broker, siem>>

\* Dispatch, under the dispatcher's mutex: every matching worker of the map gets
\* the event unless its queue is full.
Dispatch(e) ==
  LET takes(w) ==
        /\ \E d \in Dests : workers[d] = w /\ e \in Matches[d]
        /\ Len(worker[w].in) < QueueSize
  IN
  /\ pc[e] = "published"
  /\ worker' = [w \in Workers |->
       IF takes(w) THEN [worker[w] EXCEPT !.in = Append(@, e)] ELSE worker[w]]
  /\ pc' = [pc EXCEPT ![e] = "done"]
  /\ UNCHANGED <<rows, broker, enabled, edits, workers, reload, stopping>>

(***************************************************************************)
(* Subscriptions.  The write lock waits until nobody publishes.            *)
(***************************************************************************)
Subscribe(s) ==
  /\ sub[s] = "none" /\ Publishing = {}
  /\ sub' = [sub EXCEPT ![s] = "open"]
  /\ UNCHANGED <<pc, rows, audience, todo, buffer, received, dropped, siem>>

Read(s) ==
  /\ sub[s] = "open" /\ buffer[s] # <<>>
  /\ received' = [received EXCEPT ![s] = Append(@, Head(buffer[s]))]
  /\ buffer' = [buffer EXCEPT ![s] = Tail(@)]
  /\ UNCHANGED <<pc, rows, audience, todo, sub, dropped, siem>>

\* Close: the closed flag, ...
Close(s) ==
  /\ sub[s] = "open"
  /\ sub' = [sub EXCEPT ![s] = "closing"]
  /\ UNCHANGED <<pc, rows, audience, todo, buffer, received, dropped, siem>>

\* Mutant of Unsubscribe: the entry is deleted without the write lock.
UnsubscribeUnlocked(s) ==
  /\ sub[s] = "closing"
  /\ sub' = [sub EXCEPT ![s] = "removed"]
  /\ UNCHANGED <<pc, rows, audience, todo, buffer, received, dropped, siem>>

\* ... unsubFn under the write lock, ...
Unsubscribe(s) ==
  /\ sub[s] = "closing" /\ Publishing = {}
  /\ sub' = [sub EXCEPT ![s] = "removed"]
  /\ UNCHANGED <<pc, rows, audience, todo, buffer, received, dropped, siem>>

\* ... and the channel.
CloseChannel(s) ==
  /\ sub[s] = "removed"
  /\ sub' = [sub EXCEPT ![s] = "closed"]
  /\ UNCHANGED <<pc, rows, audience, todo, buffer, received, dropped, siem>>

(***************************************************************************)
(* The reload loop of the dispatcher.                                      *)
(***************************************************************************)
\* An operator enables or disables a destination (SiemService, external here).
Edit(d) ==
  /\ edits < MaxEdits
  /\ edits' = edits + 1
  /\ enabled' = IF d \in enabled THEN enabled \ {d} ELSE enabled \cup {d}
  /\ UNCHANGED <<pc, rows, broker, workers, worker, reload, stopping>>

\* LoadEnabled; when it fails the reload ends and nothing has changed.
Load ==
  /\ reload.state = "resting"
  /\ reload' = [state |-> "running", want |-> enabled, left |-> enabled]
  /\ UNCHANGED <<pc, rows, broker, enabled, edits, workers, worker, stopping>>

\* A destination whose exporter cannot be built is passed over: a worker it has
\* goes on with the old config.
BuildFails(d) ==
  /\ d \in reload.left
  /\ reload' = [reload EXCEPT !.left = @ \ {d}]
  /\ UNCHANGED <<pc, rows, broker, enabled, edits, workers, worker, stopping>>

\* Under the mutex: a worker that exists keeps its queue and gets the new
\* config, else one is started.
Install(d) ==
  /\ d \in reload.left
  /\ reload' = [reload EXCEPT !.left = @ \ {d}]
  /\ \/ /\ workers[d] # None
        /\ UNCHANGED <<workers, worker>>
     \/ /\ workers[d] = None
        /\ \E w \in Workers :
             /\ worker[w] = None
             /\ workers' = [workers EXCEPT ![d] = w]
             /\ worker' = [worker EXCEPT ![w] = NewWorker(d)]
  /\ UNCHANGED <<pc, rows, broker, enabled, edits, stopping>>

\* Stop and forget the workers of a set of destinations.
StopWorkers(ds) ==
  /\ worker' = [w \in Workers |->
       IF \E d \in ds : workers[d] = w THEN [worker[w] EXCEPT !.done = TRUE]
       ELSE worker[w]]
  /\ workers' = [d \in Dests |-> IF d \in ds THEN None ELSE workers[d]]

\* The workers of destinations that are not wanted are stopped.
Sweep ==
  /\ reload.state = "running" /\ reload.left = {}
  /\ StopWorkers(Dests \ reload.want)
  /\ reload' = Loop("resting")
  /\ UNCHANGED <<pc, rows, broker, enabled, edits, stopping>>

Cancel ==
  /\ ~stopping
  /\ stopping' = TRUE
  /\ UNCHANGED <<pc, rows, broker, enabled, edits, workers, worker, reload>>

\* shutdownAll, by the reload loop once it is back at its select.
ShutdownAll ==
  /\ stopping /\ reload.state = "resting"
  /\ StopWorkers(Dests)
  /\ reload' = Loop("over")
  /\ UNCHANGED <<pc, rows, broker, enabled, edits, stopping>>

(***************************************************************************)
(* A worker.                                                               *)
(***************************************************************************)
Waiting(w) == worker[w] # None /\ ~worker[w].gone /\ worker[w].event = None

\* The select may pick the queue although done is closed.
Take(w) ==
  /\ Waiting(w) /\ worker[w].in # <<>>
  /\ worker' = [worker EXCEPT ![w] =
       [@ EXCEPT !.event = Head(worker[w].in), !.in = Tail(worker[w].in), !.attempt = 0]]
  /\ UNCHANGED <<pc, rows, broker, enabled, edits, workers, reload, stopping>>

\* What is still queued is lost.
Quit(w) ==
  /\ Waiting(w) /\ worker[w].done
  /\ worker' = [worker EXCEPT ![w] = [@ EXCEPT !.gone = TRUE]]
  /\ UNCHANGED <<pc, rows, broker, enabled, edits, workers, reload, stopping>>

Handled(r) == [r EXCEPT !.event = None, !.attempt = 0, !.handled = @ \cup {r.event}]

ExportOk(w) ==
  /\ worker[w] # None /\ worker[w].event # None
  /\ worker' = [worker EXCEPT ![w] = Handled(@)]
  /\ UNCHANGED <<pc, rows, broker, enabled, edits, workers, reload, stopping>>

\* Mutant of ExportFails: the attempts are not counted.
ExportFailsUncounted(w) ==
  /\ worker[w] # None /\ worker[w].event # None
  /\ worker' = [worker EXCEPT ![w] = [@ EXCEPT !.attempt = IF @ = Attempts - 1 THEN 0 ELSE @ + 1]]
  /\ UNCHANGED <<pc, rows, broker, enabled, edits, workers, reload, stopping>>

\* After the last attempt the event is given up.
ExportFails(w) ==
  /\ worker[w] # None /\ worker[w].event # None
  /\ worker' = [worker EXCEPT ![w] =
       IF worker[w].attempt = Attempts - 1 THEN Handled(@)
       ELSE [@ EXCEPT !.attempt = worker[w].attempt + 1]]
  /\ UNCHANGED <<pc, rows, broker, enabled, edits, workers, reload, stopping>>

Record(e) ==
  Store(e) \/ Publish(e) \/ (\E s \in Subs : Offer(e, s)) \/ Published(e) \/ Dispatch(e)
Closing(s) == Unsubscribe(s) \/ CloseChannel(s)
Reload == Sweep \/ \E d \in Dests : BuildFails(d) \/ Install(d)
Run(w) == Take(w) \/ Quit(w) \/ ExportOk(w) \/ ExportFails(w)

Next ==
  \/ \E e \in Events : Record(e)
  \/ \E s \in Subs : Subscribe(s) \/ Read(s) \/ Close(s) \/ Closing(s)
  \/ (\E d \in Dests : Edit(d)) \/ Load \/ Reload \/ Cancel \/ ShutdownAll
  \/ \E w \in Workers : Run(w)

\* A Record call that has written its row, a Close, a reload and a worker run on;
\* the loop's select cannot pass over a cancelled context for ever.  The
\* environment need not act.
Fairness ==
  /\ \A e \in Events : WF_vars(pc[e] # "idle" /\ Record(e))
  /\ \A s \in Subs : WF_vars(Closing(s))
  /\ WF_vars(Reload) /\ SF_vars(ShutdownAll)
  /\ \A w \in Workers : WF_vars(Run(w))

Spec == Init /\ [][Next]_vars
FairSpec == Spec /\ Fairness

-----------------------------------------------------------------------------
\* No channel is closed that a publisher is about to send on: a send would
\* panic (Close, Publish).
NoSendOnClosed ==
  \A e \in Publishing : \A s \in todo[e] : sub[s] \in {"open", "closing"}

\* What a subscription was offered it has received, has buffered or was counted
\* as dropped, and nothing twice (Publish, Dropped).
Accounted ==
  \A s \in Subs :
    LET offered == {e \in Events : s \in audience[e] \ todo[e]}
        kept == received[s] \o buffer[s]
    IN
    /\ {kept[n] : n \in 1..Len(kept)} \subseteq offered
    /\ Cardinality({kept[n] : n \in 1..Len(kept)}) = Len(kept)
    /\ Cardinality(offered) = Len(kept) + dropped[s]

\* Nobody hears of an event without a durable row (Record).
DurableFirst ==
  /\ \A e \in Events : audience[e] # {} => e \in rows
  /\ \A w \in Workers : worker[w] # None =>
       worker[w].handled \subseteq rows
         /\ \A n \in 1..Len(worker[w].in) : worker[w].in[n] \in rows

\* A worker that was not told to stop is the one in the map: none is leaked, and
\* none serves a destination twice (reload).
OneWorker ==
  \A w \in Workers : worker[w] # None =>
    (worker[w].done <=> workers[worker[w].dest] # w)

\* The type invariant, and what the fan-out promises at every moment.
FanoutInv == TypeOK /\ NoSendOnClosed /\ Accounted /\ DurableFirst /\ OneWorker

\* Publishing and exporting come to an end, whatever subscribers and operators
\* do: Record calls have returned, closed subscriptions are released, a worker
\* that was not stopped has exported or given up all it was given, and after
\* cancellation every worker is gone (Publish, Close, deliver, shutdownAll).
FanoutEnds ==
  <>[](/\ \A e \in Events : pc[e] \in {"idle", "done", "failed"}
       /\ \A s \in Subs : sub[s] \in {"none", "open", "closed"}
       /\ \A w \in Workers : worker[w] # None =>
            \/ worker[w].gone
            \/ ~stopping /\ ~worker[w].done /\ worker[w].in = <<>> /\ worker[w].event = None)
=============================================================================
