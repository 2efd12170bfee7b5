--------------------------- MODULE ConfigDelivery ---------------------------
(***************************************************************************)
(* Delivery of a stored config to one agent over OpAMP (internal/opamp):   *)
(* the message handler of every connection, the in-memory Agent record it  *)
(* shares with the config senders, the reconcile loop of every Squadron    *)
(* instance, disconnects noticed late, restarts, and what the store is     *)
(* told about the agent.                                                   *)
(*                                                                         *)
(* A config stands for its content, for its wire hash and for its          *)
(* canonical hash, which determine one another.  At most one Agent record  *)
(* is ever created by a connection, so the connection names the record; a  *)
(* handler keeps its record after the registry has dropped it.  The agent  *)
(* accepts remote config and always advertises so; a report carries        *)
(* everything ("full": with the description), only the remote config       *)
(* status, or nothing.  The agent, its transport and its store are         *)
(* external.                                                               *)
(***************************************************************************)
EXTENDS Naturals, Sequences

CONSTANTS
  MaxConns,     \* bound on connections, used one after the other
  Instances,    \* Squadron processes sharing the store
  First,        \* the one the agent reaches first
  Configs,      \* stored configs
  Stored,       \* the config stored for the agent, or its group, at first
  Adopted,      \* what adopt-on-supervise stores for a brownfield agent
  Empty,        \* the config with no content
  Default,      \* DefaultOTelConfig
  Local,        \* the agent's own config, never sent by Squadron
  Rejected,     \* configs the agent fails to apply
  None,         \* no config, record, row, status or connection
  MaxDown,      \* bound on messages underway when a report is taken up
  MaxChanges    \* bound on assignments, restarts and moves together

ASSUME DeliveryAssumption ==
  /\ MaxConns \in Nat /\ First \in Instances
  /\ Adopted \in Configs /\ Stored \in Configs \cup {None}
  /\ Rejected \subseteq Configs \cup {Empty, Default}
  /\ {Empty, Default, Local, None} \cap Configs = {}
  /\ None \notin Nat \cup Instances \cup {Empty, Default, Local}
  /\ Empty # Default /\ Local \notin {Empty, Default}
  /\ MaxDown \in Nat \ {0} /\ MaxChanges \in Nat

VARIABLES
  desired,    \* what resolveStoredConfig finds for the agent, or None
  known,      \* the agent has a row in the store
  online,     \* its status there
  owner,      \* its row in the connection registry: an instance, or None
  delivered,  \* its delivered_config_hash
  agent,      \* the agent process
  home,       \* home[k]: the instance connection k reached
  conn,       \* conn[k]: unused, open, broken, closing, closed
  up,         \* up[k]: the report on its way to the server, or None
  down,       \* down[k]: messages on their way to the agent
  rec,        \* rec[k]: the Agent record connection k created, or None
  live,       \* live[i]: the record in agentsById of instance i, or None
  fleet,      \* fleet[i]: the record in its agentsByFleetId, or None
  handler,    \* handler[k]: onMessage of connection k
  push,       \* push[i]: the push underway at instance i
  changes     \* assignments, restarts and moves to another instance so far

store == <<desired, known, online, owner, delivered>>
wire == <<home, conn, up, down>>
registry == <<live, fleet>>
vars == <<store, agent, wire, rec, registry, handler, push, changes>>

Conns == 1..MaxConns
Sent == Configs \cup {Empty, Default}
Status == [hash : Sent, failed : BOOLEAN]
Report == [desc : BOOLEAN, status : Status \cup {None}]
Reply == [config : Sent \cup {None}, full : BOOLEAN]
NoReply == [config |-> None, full |-> FALSE]
Record ==
  [seen : BOOLEAN, described : BOOLEAN, status : Status \cup {None},
   staged : Sent \cup {None}]
NewAgent == [seen |-> FALSE, described |-> FALSE, status |-> None, staged |-> None]

\* A nil pointer is none of the records it may stand in for.
ASSUME NoneAssumption == None \notin Status \cup Report \cup Record

IdleHandler ==
  [pc |-> "idle", to |-> None, report |-> None, config |-> None,
   reply |-> NoReply, stamp |-> FALSE]
IdlePush == [pc |-> "idle", to |-> None, config |-> None]

TypeOK ==
  /\ desired \in Configs \cup {None}
  /\ known \in BOOLEAN /\ online \in BOOLEAN
  /\ owner \in Instances \cup {None}
  /\ delivered \in Sent \cup {None}
  /\ agent \in [conn : Conns \cup {None}, running : Sent \cup {Local},
                status : Status \cup {None}, full : BOOLEAN, news : BOOLEAN]
  /\ home \in [Conns -> Instances \cup {None}]
  /\ conn \in [Conns -> {"unused", "open", "broken", "closing", "closed"}]
  /\ up \in [Conns -> Report \cup {None}]
  /\ down \in [Conns -> Seq(Reply)]
  /\ rec \in [Conns -> Record \cup {None}]
  /\ live \in [Instances -> Conns \cup {None}]
  /\ fleet \in [Instances -> Conns \cup {None}]
  /\ handler \in [Conns ->
       [pc : {"idle", "found", "stage", "reply"}, to : Conns \cup {None},
        report : Report \cup {None}, config : Sent \cup {None},
        reply : Reply, stamp : BOOLEAN]]
  /\ push \in [Instances ->
       [pc : {"idle", "push", "send"}, to : Conns \cup {None},
        config : Sent \cup {None}]]
  /\ changes \in 0..MaxChanges

-----------------------------------------------------------------------------
Init ==
  /\ desired = Stored
  /\ known = FALSE /\ online = FALSE /\ owner = None /\ delivered = None
  /\ agent = [conn |-> None, running |-> Local, status |-> None,
              full |-> FALSE, news |-> FALSE]
  /\ home = [k \in Conns |-> None]
  /\ conn = [k \in Conns |-> "unused"]
  /\ up = [k \in Conns |-> None]
  /\ down = [k \in Conns |-> <<>>]
  /\ rec = [k \in Conns |-> None]
  /\ live = [i \in Instances |-> None]
  /\ fleet = [i \in Instances |-> None]
  /\ handler = [k \in Conns |-> IdleHandler]
  /\ push = [i \in Instances |-> IdlePush]
  /\ changes = 0

(***************************************************************************)
(* The Agent record.                                                       *)
(***************************************************************************)
\* CustomInstanceConfig: the content behind remoteConfig, "" before there is one.
Custom(r) == IF r.staged = None THEN Empty ELSE r.staged

\* calcRemoteConfig, with CustomInstanceConfig = c.
Stage(r, c) == [r EXCEPT !.staged = c]

\* Mutant of Seen: the status is left alone once the staged config is acknowledged.
SeenUntilAcked(r, m) ==
  [r EXCEPT !.seen = TRUE,
            !.status = IF \/ m.status = None
                          \/ r.status # None /\ r.status.hash = r.staged
                       THEN r.status ELSE m.status]

\* updateStatusField: the status a report leaves behind.
Seen(r, m) ==
  [r EXCEPT !.seen = TRUE,
            !.status = IF m.status = None THEN r.status ELSE m.status]

\* processStatusUpdate: only the first report finds nothing staged, and is
\* answered with the config it then stages.
Updated(r, m) == Stage(Seen(r, m), Custom(r))

\* Mutant of Answer: only a new config is sent.
AnswerNew(r) == IF r.staged = None THEN Custom(r) ELSE None

\* The answer carries the staged config when it is new or the agent last
\* reported another one.
Answer(r) ==
  IF r.staged = None \/ (r.status # None /\ r.status.hash # r.staged)
  THEN Custom(r) ELSE None

\* appliedConfigHash: the agent has acknowledged the staged config.
Acked(r) == r.status # None /\ ~r.status.failed /\ r.status.hash = r.staged

\* resolveStoredConfig: the store is keyed by the fleet id, which a record
\* has once a description has come.
Resolve(r) == IF r.described THEN desired ELSE None

\* appliedConfigHashFromDesired.
AckedDesired(r) ==
  r.status # None /\ ~r.status.failed /\ Resolve(r) = r.status.hash

(***************************************************************************)
(* The agent and its connections (external).                               *)
(***************************************************************************)
Connect(k, i) ==
  /\ agent.conn = None /\ (k = 1 => i = First)
  /\ conn[k] = "unused" /\ \A q \in 1..(k - 1) : conn[q] # "unused"
  /\ changes' = changes + IF k > 1 /\ home[k - 1] # i THEN 1 ELSE 0
  /\ changes' <= MaxChanges
  /\ home' = [home EXCEPT ![k] = i]
  /\ conn' = [conn EXCEPT ![k] = "open"]
  /\ \E desc \in BOOLEAN :
       agent' = [agent EXCEPT !.conn = k, !.full = @ \/ desc, !.news = TRUE]
  /\ UNCHANGED <<store, up, down, rec, registry, handler, push>>

\* A heartbeat, the news of a config, or everything.
SendReport ==
  LET k == agent.conn IN
  /\ k # None /\ up[k] = None
  /\ up' = [up EXCEPT ![k] =
       [desc |-> agent.full,
        status |-> IF agent.full \/ agent.news THEN agent.status ELSE None]]
  /\ agent' = [agent EXCEPT !.full = FALSE, !.news = FALSE]
  /\ UNCHANGED <<home, store, conn, down, rec, registry, handler, push, changes>>

\* A config that cannot be applied is echoed like the others, as failed.
Apply ==
  LET k == agent.conn IN
  /\ k # None /\ down[k] # <<>>
  /\ LET m == Head(down[k]) IN
     agent' =
       IF m.config = None THEN [agent EXCEPT !.full = @ \/ m.full]
       ELSE [agent EXCEPT
               !.full = @ \/ m.full, !.news = TRUE,
               !.running = IF m.config \in Rejected THEN @ ELSE m.config,
               !.status = [hash |-> m.config, failed |-> m.config \in Rejected]]
  /\ down' = [down EXCEPT ![k] = Tail(@)]
  /\ UNCHANGED <<home, store, conn, up, rec, registry, handler, push, changes>>

\* The connection breaks; the server has yet to notice.
Break ==
  LET k == agent.conn IN
  /\ k # None /\ \E q \in Conns : conn[q] = "unused"
  /\ conn' = [conn EXCEPT ![k] = "broken"]
  /\ agent' = [agent EXCEPT !.conn = None]
  /\ up' = [up EXCEPT ![k] = None]
  /\ down' = [down EXCEPT ![k] = <<>>]
  /\ UNCHANGED <<home, store, rec, registry, handler, push, changes>>

\* conn.Send: an error is ignored.
Send(k, m) ==
  down' = IF conn[k] = "open" /\ m # NoReply
          THEN [down EXCEPT ![k] = Append(@, m)] ELSE down

(***************************************************************************)
(* onMessage.                                                              *)
(***************************************************************************)
\* FindOrCreateAgent: a record found keeps the connection it was created on.
RecordFor(k) == IF live[home[k]] = None THEN k ELSE live[home[k]]

FindOrCreateAgent(k) ==
  LET to == RecordFor(k) IN
  /\ conn[k] = "open" /\ up[k] # None /\ handler[k].pc = "idle"
  /\ Len(down[k]) < MaxDown
  /\ up' = [up EXCEPT ![k] = None]
  /\ live' = [live EXCEPT ![home[k]] = to]
  /\ rec' = IF live[home[k]] = None THEN [rec EXCEPT ![k] = NewAgent] ELSE rec
  /\ handler' = [handler EXCEPT ![k] =
       [IdleHandler EXCEPT !.pc = "found", !.to = to, !.report = up[k]]]
  /\ UNCHANGED <<home, store, agent, conn, down, fleet, push, changes>>

\* getConfigForAgent: the stored config; else the effective config the agent
\* reported is adopted (and stored) if it is worth it; else the default.
ConnectConfigs(r) ==
  IF Resolve(r) # None THEN {Resolve(r)} ELSE {Adopted, Default}

\* UpdateStatus, under the record's mutex, and persistAgent up to the comparison
\* in appliedConfigHash, which takes no mutex.  A first report that leaves
\* something out is answered with a request for everything.  The first
\* described report creates the row.
UpdateStatus(k, to, r, m) ==
  LET new == Updated(r, m)
      stamps == known /\ new.described
  IN
  /\ rec' = [rec EXCEPT ![to] = new]
  /\ known' = (known \/ new.described)
  /\ online' = (online \/ new.described)
  /\ delivered' = IF stamps /\ ~Acked(new) /\ AckedDesired(new)
                  THEN new.status.hash ELSE delivered
  /\ handler' = [handler EXCEPT ![k] =
       [pc |-> "reply", to |-> to, report |-> None, config |-> None,
        reply |-> [config |-> Answer(Seen(r, m)), full |-> ~r.seen /\ ~m.desc],
        stamp |-> stamps /\ Acked(new)]]

\* The rest of onMessage up to UpdateStatus.  A description gives the record its
\* fleet id, enters it in the index by fleet id, even when the registry has
\* dropped it meanwhile, and the instance as its owner; processAgentGrouping
\* then resolves the config to stage for a record that has none.  On the first
\* report the record has no status yet, hence no capability, and nothing is
\* staged.
SetFleetId(k) ==
  LET to == handler[k].to
      m == handler[k].report
      r == [rec[to] EXCEPT !.described = @ \/ m.desc]
      applies == m.desc /\ r.seen /\ Custom(r) = Empty
  IN
  /\ handler[k].pc = "found"
  /\ fleet' = IF m.desc THEN [fleet EXCEPT ![home[k]] = to] ELSE fleet
  /\ owner' = IF m.desc THEN home[k] ELSE owner
  /\ \/ /\ ~applies
        /\ UpdateStatus(k, to, r, m)
        /\ UNCHANGED desired
     \/ /\ applies
        /\ rec' = [rec EXCEPT ![to] = r]
        /\ \E c \in ConnectConfigs(r) :
             /\ handler' = [handler EXCEPT ![k] =
                  [IdleHandler EXCEPT !.pc = "stage", !.to = to, !.report = m,
                                      !.config = c]]
             /\ desired' = IF c = Adopted THEN Adopted ELSE desired
        /\ UNCHANGED <<known, online, delivered>>
  /\ UNCHANGED <<wire, agent, live, push, changes>>

\* processAgentGrouping stages what it has resolved and leaves the sending to
\* UpdateStatus.
StageOnConnect(k) ==
  LET h == handler[k] IN
  /\ h.pc = "stage"
  /\ UpdateStatus(k, h.to, Stage(rec[h.to], h.config), h.report)
  /\ UNCHANGED <<desired, owner, agent, wire, registry, push, changes>>

\* appliedConfigHash hashes CustomInstanceConfig as it is by then, the hash is
\* stored and the answer goes out on the connection of the report.
ReplyTo(k) ==
  LET h == handler[k] IN
  /\ h.pc = "reply"
  /\ delivered' = IF h.stamp THEN rec[h.to].staged ELSE delivered
  /\ Send(k, h.reply)
  /\ handler' = [handler EXCEPT ![k] = IdleHandler]
  /\ UNCHANGED <<home, desired, known, online, owner, agent, conn, up, rec, registry,
                 push, changes>>

(***************************************************************************)
(* onDisconnect, once the handler of the connection has returned.          *)
(***************************************************************************)
\* The agents registered under the connection are marked offline.
Disconnect(k) ==
  LET mine == live[home[k]] = k /\ rec[k].described IN
  /\ conn[k] = "broken" /\ handler[k].pc = "idle"
  /\ conn' = [conn EXCEPT ![k] = "closing"]
  /\ online' = (online /\ ~mine)
  /\ owner' = IF mine THEN None ELSE owner
  /\ UNCHANGED <<home, desired, known, delivered, agent, up, down, rec, registry, handler,
                 push, changes>>

\* RemoveConnection drops the record the connection created, whoever has used
\* it since, and whatever is under its fleet id; a handler that holds the record
\* goes on.
RemoveConnection(k) ==
  LET mine == live[home[k]] = k IN
  /\ conn[k] = "closing"
  /\ conn' = [conn EXCEPT ![k] = "closed"]
  /\ live' = IF mine THEN [live EXCEPT ![home[k]] = None] ELSE live
  /\ fleet' = IF mine /\ rec[k].described THEN [fleet EXCEPT ![home[k]] = None] ELSE fleet
  /\ rec' = IF \E q \in Conns : handler[q].to = k THEN rec
            ELSE [rec EXCEPT ![k] = None]
  /\ UNCHANGED <<home, store, agent, up, down, handler, push, changes>>

(***************************************************************************)
(* Pushing a config: the reconcile loop and operator requests.             *)
(***************************************************************************)
\* Mutant of Reconcile: no heartbeat of the connection registry.
ReconcileWithoutHeartbeat(i) ==
  LET r == rec[live[i]]
      missing == /\ r.seen /\ Resolve(r) # None
                 /\ r.status = None \/ r.status.hash # Resolve(r)
  IN
  /\ push[i].pc = "idle" /\ live[i] # None
  /\ push' = IF missing
             THEN [push EXCEPT ![i] = [IdlePush EXCEPT !.pc = "push", !.config = Resolve(r)]]
             ELSE push
  /\ UNCHANGED <<store, agent, wire, rec, registry, handler, changes>>

\* reconcileOnce: heartbeatOwner, and reconcileAgent up to the push.  The clone
\* it works on shares the record's Status.
Reconcile(i) ==
  LET r == rec[live[i]]
      missing == /\ r.seen /\ Resolve(r) # None
                 /\ r.status = None \/ r.status.hash # Resolve(r)
  IN
  /\ push[i].pc = "idle" /\ live[i] # None
  /\ owner' = IF r.described THEN i ELSE owner
  /\ push' = IF missing
             THEN [push EXCEPT ![i] = [IdlePush EXCEPT !.pc = "push", !.config = Resolve(r)]]
             ELSE push
  /\ UNCHANGED <<desired, known, online, delivered, agent, wire, rec, registry, handler, changes>>

\* HandleSendConfigToAgent: the config is stored, then pushed.
Assign(i, c) ==
  /\ changes < MaxChanges /\ known /\ c # desired /\ push[i].pc = "idle"
  /\ desired' = c
  /\ push' = [push EXCEPT ![i] = [IdlePush EXCEPT !.pc = "push", !.config = c]]
  /\ changes' = changes + 1
  /\ UNCHANGED <<known, online, owner, delivered, agent, wire, rec, registry, handler>>

\* SendConfigToAgentWithContext finds the record by its fleet id (FindAgent) and
\* stages the config under its mutex: an equal one is not sent again.  The wait
\* for a confirmation that follows changes nothing.
Push(i) ==
  LET k == fleet[i]
      c == push[i].config
      sends == k # None /\ rec[k].seen /\ rec[k].staged # c
  IN
  /\ push[i].pc = "push"
  /\ \/ /\ ~sends
        /\ push' = [push EXCEPT ![i] = IdlePush]
        /\ UNCHANGED rec
     \/ /\ sends
        /\ rec' = [rec EXCEPT ![k] = Stage(@, c)]
        /\ push' = [push EXCEPT ![i] = [@ EXCEPT !.pc = "send", !.to = k]]
  /\ UNCHANGED <<store, agent, wire, registry, handler, changes>>

\* SendToAgent, after the mutex is released, on the record's own connection.
PushSend(i) ==
  /\ push[i].pc = "send"
  /\ Send(push[i].to, [config |-> push[i].config, full |-> FALSE])
  /\ push' = [push EXCEPT ![i] = IdlePush]
  /\ UNCHANGED <<home, store, agent, conn, up, rec, registry, handler, changes>>

(***************************************************************************)
(* An instance stops at any point and starts again, with an empty registry.*)
(***************************************************************************)
Restart(i) ==
  LET here == {k \in Conns : home[k] = i} IN
  /\ changes < MaxChanges /\ agent.conn \in here
  /\ \E q \in Conns : conn[q] = "unused"
  /\ agent' = [agent EXCEPT !.conn = None]
  /\ conn' = [k \in Conns |->
       IF k \in here /\ conn[k] # "unused" THEN "closed" ELSE conn[k]]
  /\ up' = [k \in Conns |-> IF k \in here THEN None ELSE up[k]]
  /\ down' = [k \in Conns |-> IF k \in here THEN <<>> ELSE down[k]]
  /\ handler' = [k \in Conns |-> IF k \in here THEN IdleHandler ELSE handler[k]]
  /\ push' = [push EXCEPT ![i] = IdlePush]
  /\ live' = [live EXCEPT ![i] = None]
  /\ fleet' = [fleet EXCEPT ![i] = None]
  /\ changes' = changes + 1
  /\ UNCHANGED <<home, store, rec>>

Handle(k) ==
  FindOrCreateAgent(k) \/ SetFleetId(k) \/ StageOnConnect(k) \/ ReplyTo(k)

Close(k) == Disconnect(k) \/ RemoveConnection(k)

Next ==
  \/ SendReport \/ Apply \/ Break
  \/ \E k \in Conns : Handle(k) \/ Close(k)
  \/ \E k \in Conns, i \in Instances : Connect(k, i)
  \/ \E i \in Instances :
       \/ Reconcile(i) \/ Push(i) \/ PushSend(i) \/ Restart(i)
       \/ \E c \in Configs : Assign(i, c)

\* The agent keeps reconnecting, reporting and applying; handlers, pushes and
\* the reconcile loop run on; a broken connection is noticed in the end.
Fairness ==
  /\ WF_vars(\E k \in Conns, i \in Instances : Connect(k, i))
  /\ WF_vars(SendReport) /\ WF_vars(Apply)
  /\ \A k \in Conns : WF_vars(Handle(k)) /\ WF_vars(Close(k))
  /\ \A i \in Instances : WF_vars(Reconcile(i)) /\ WF_vars(Push(i) \/ PushSend(i))

Spec == Init /\ [][Next]_vars
FairSpec == Spec /\ Fairness

-----------------------------------------------------------------------------
\* The agent runs the stored config and the store says so.
Delivered ==
  desired \notin Rejected \cup {None} => agent.running = desired /\ delivered = desired

\* The index by fleet id does not lead to the record that serves the agent: a
\* handler has entered another one since.
Shadowed(i) == live[i] # None /\ rec[live[i]].described /\ fleet[i] # live[i]

\* Once the stored config stays as it is, the agent comes to run it and the
\* store says so, whatever was lost, reordered or restarted before - unless the
\* agent's record stays shadowed by a stale one, which ReconcileDelivers shows
\* to happen (reconciler.go, processStatusUpdate).
Converges ==
  <>[](agent.conn # None /\ ~Shadowed(home[agent.conn]) => Delivered)

\* What docs/high-availability.md promises without that exception: the
\* reconcile loop "is the delivery guarantee: a missed signal or an instance
\* restart still converges on the next tick".
ReconcileDelivers == <>[]Delivered

\* A connected agent is shown online and owned by the instance that holds its
\* connection in the end, although the other connection's end is noticed late
\* (onDisconnect, persistAgent, heartbeatOwner).
Registered ==
  <>[](agent.conn # None => online /\ owner = home[agent.conn])

\* A record in agentsById belongs to a connection whose end is still to be
\* handled, so that it cannot stay behind there (FindOrCreateAgent,
\* RemoveConnection).  In agentsByFleetId it can: see ReconcileDelivers.
NoLeak ==
  \A i \in Instances : live[i] # None =>
    home[live[i]] = i /\ conn[live[i]] \in {"open", "broken", "closing"}

\* Nothing is underway and the agent has nothing to report.
Quiet ==
  /\ agent.conn # None /\ ~agent.news
  /\ up[agent.conn] = None /\ down[agent.conn] = <<>>
  /\ \A k \in Conns : handler[k].pc = "idle"
  /\ \A i \in Instances : push[i].pc # "send"

\* A push of the config that is already staged sends nothing.  That is safe:
\* the staged config is the last one the agent was given, or the record knows
\* that it is not and the next report is answered with it.
StagedReaches ==
  Quiet /\ live[home[agent.conn]] = agent.conn =>
    LET r == rec[agent.conn] IN
    \/ agent.status # None /\ agent.status.hash = r.staged
    \/ r.status # None /\ r.status.hash # r.staged

\* The type invariant, and what the registry and the staged config promise.
DeliveryInv == TypeOK /\ NoLeak /\ StagedReaches

=============================================================================
