------------------------ MODULE ConfigDeliveryProofs ------------------------
(***************************************************************************)
(* What a registry and a staged config promise (ConfigDelivery), proved    *)
(* for any number of connections, instances and configs, whatever the      *)
(* agent rejects and however often connections break, instances restart    *)
(* and configs are assigned.                                               *)
(***************************************************************************)
EXTENDS ConfigDelivery, TLAPS

-----------------------------------------------------------------------------
(* What the proof knows of the connections and of their handlers.          *)

\* The agent holds the one connection that is open.
OpenConn == \A k \in Conns : conn[k] = "open" <=> agent.conn = k

\* Connections are used in their order, and the agent holds the latest.
InOrder ==
  \A p, q \in Conns :
    p < q /\ (conn[p] = "unused" \/ agent.conn = p) => conn[q] = "unused"

\* A connection that has been used has reached an instance.
Homes == \A k \in Conns : conn[k] # "unused" => home[k] \in Instances

\* A handler works on a record created on its connection or on an earlier one.
Handlers ==
  \A k \in Conns :
    /\ conn[k] = "unused" => handler[k].pc = "idle"
    /\ handler[k].pc # "idle" =>
         /\ handler[k].to \in Conns /\ handler[k].to <= k
         /\ rec[handler[k].to] # None
    /\ handler[k].pc \in {"found", "stage"} => handler[k].report # None

\* The registry and a push name records that exist.
Lives == \A i \in Instances : live[i] # None => rec[live[i]] # None

\* A record in the index by fleet id exists; until its connection is closed it
\* is the one in the index by id.
Fleets ==
  \A i \in Instances : fleet[i] # None =>
    /\ rec[fleet[i]] # None
    /\ conn[fleet[i]] # "closed" => live[i] = fleet[i] /\ rec[fleet[i]].described

\* So is the record that a handler holds.
Holders ==
  \A k \in Conns : handler[k].pc # "idle" /\ conn[handler[k].to] # "closed" =>
    live[home[k]] = handler[k].to

Sends == \A i \in Instances : push[i].pc = "send" => push[i].to \in Conns

\* While the handler of the agent's connection runs, its record is the one in
\* the registry, unless that is gone.
SameRecord ==
  \A k \in Conns : agent.conn = k /\ handler[k].pc # "idle" =>
    live[home[k]] \in {None, handler[k].to}

Wires ==
  /\ TypeOK /\ NoLeak /\ OpenConn /\ InOrder /\ Homes /\ Handlers
  /\ Lives /\ Fleets /\ Holders /\ Sends /\ SameRecord

-----------------------------------------------------------------------------
(* Types. *)

\* None is no connection, no config and no record.
LEMMA NoneFacts ==
  /\ \A k \in Conns : k # None /\ k \in Nat
  /\ \A i \in Instances : i # None
  /\ \A c \in Sent : c # None
  /\ \A s \in Status : s # None
  /\ \A m \in Report : m # None
  /\ \A r \in Record : r # None
BY DeliveryAssumption, NoneAssumption DEF Conns, Sent

\* A record that was reported to stays a record.
LEMMA RecordTypes ==
  ASSUME NEW r \in Record, NEW m \in Report, NEW c \in Sent
  PROVE  /\ Custom(r) \in Sent
         /\ Stage(r, c) \in Record
         /\ Seen(r, m) \in Record
         /\ Updated(r, m) \in Record
         /\ Answer(r) \in Sent \cup {None}
         /\ \A b \in BOOLEAN : [r EXCEPT !.described = b] \in Record
<1>1. Custom(r) \in Sent
  BY DEF Custom, Record, Sent
<1>2. \A x \in Sent, y \in Record : Stage(y, x) \in Record
  BY DEF Stage, Record
<1>3. Seen(r, m) \in Record
  BY DEF Seen, Record, Report
<1>4. Updated(r, m) \in Record
  BY <1>1, <1>2, <1>3 DEF Updated
<1>5. Answer(r) \in Sent \cup {None}
  BY <1>1 DEF Answer
<1>6. \A b \in BOOLEAN : [r EXCEPT !.described = b] \in Record
  BY DEF Record
<1> QED
  BY <1>1, <1>2, <1>3, <1>4, <1>5, <1>6

\* What a report leaves in the record.
LEMMA UpdatedFields ==
  ASSUME NEW r \in Record, NEW m \in Report
  PROVE  /\ Updated(r, m).status = IF m.status = None THEN r.status ELSE m.status
         /\ Updated(r, m).described = r.described
         /\ r.staged = None => Answer(Seen(r, m)) = Empty
<1>1. /\ Seen(r, m).status = (IF m.status = None THEN r.status ELSE m.status)
      /\ Seen(r, m).staged = r.staged /\ Seen(r, m).described = r.described
  BY DEF Seen, Record
<1>2. \A y \in Record : \A c : /\ Stage(y, c).status = y.status
                              /\ Stage(y, c).described = y.described
  BY DEF Stage, Record
<1>3. Seen(r, m) \in Record
  BY DEF Seen, Record, Report
<1> QED
  BY <1>1, <1>2, <1>3 DEF Updated, Answer, Custom

\* UpdateStatus keeps types; what it does to the record and to the handler.
LEMMA UpdateStatusOK ==
  ASSUME TypeOK, NEW k \in Conns, NEW to \in Conns, NEW r \in Record, NEW m \in Report,
         UpdateStatus(k, to, r, m)
  PROVE  /\ rec' \in [Conns -> Record \cup {None}]
         /\ known' \in BOOLEAN /\ online' \in BOOLEAN /\ delivered' \in Sent \cup {None}
         /\ handler' \in [Conns ->
              [pc : {"idle", "found", "stage", "reply"}, to : Conns \cup {None},
               report : Report \cup {None}, config : Sent \cup {None},
               reply : Reply, stamp : BOOLEAN]]
         /\ rec'[to] = Updated(r, m) /\ \A q \in Conns \ {to} : rec'[q] = rec[q]
         /\ handler'[k].pc = "reply" /\ handler'[k].to = to
         /\ handler'[k].reply.config = Answer(Seen(r, m))
         /\ \A q \in Conns \ {k} : handler'[q] = handler[q]
<1> DEFINE new == Updated(r, m)
           h == [pc |-> "reply", to |-> to, report |-> None, config |-> None,
                 reply |-> [config |-> Answer(Seen(r, m)), full |-> ~r.seen /\ ~m.desc],
                 stamp |-> known /\ new.described /\ Acked(new)]
<1>1. new \in Record /\ Answer(Seen(r, m)) \in Sent \cup {None}
  BY RecordTypes DEF Sent
<1>2. rec' = [rec EXCEPT ![to] = new] /\ handler' = [handler EXCEPT ![k] = h]
  BY DEF UpdateStatus
<1>3. h \in [pc : {"idle", "found", "stage", "reply"}, to : Conns \cup {None},
             report : Report \cup {None}, config : Sent \cup {None},
             reply : Reply, stamp : BOOLEAN]
  BY <1>1 DEF Reply, Acked, TypeOK
<1>4. h.pc = "reply" /\ h.to = to /\ h.reply.config = Answer(Seen(r, m))
  OBVIOUS
<1>5. known' \in BOOLEAN /\ online' \in BOOLEAN
  BY <1>1 DEF UpdateStatus, TypeOK, Record
<1>6. delivered' \in Sent \cup {None}
  <2> HIDE DEF new
  <2>1. AckedDesired(new) => new.status \in Status
    BY <1>1 DEF AckedDesired, Record
  <2> QED
    BY <1>1, <2>1 DEF UpdateStatus, TypeOK, Status, new
<1> HIDE DEF h
<1> QED
  BY <1>1, <1>2, <1>3, <1>4, <1>5, <1>6 DEF TypeOK

-----------------------------------------------------------------------------
(* The steps, one by one. *)

LEMMA ConnectOK ==
  ASSUME Wires, NEW k \in Conns, NEW i \in Instances, Connect(k, i) PROVE Wires'
<1> USE NoneFacts DEF Wires
<1>1. /\ agent.conn = None /\ conn[k] = "unused" /\ changes' \in 0..MaxChanges
      /\ home' = [home EXCEPT ![k] = i] /\ conn' = [conn EXCEPT ![k] = "open"]
      /\ agent' \in [conn : Conns \cup {None}, running : Sent \cup {Local},
                     status : Status \cup {None}, full : BOOLEAN, news : BOOLEAN]
      /\ agent'.conn = k
      /\ UNCHANGED <<desired, known, online, owner, delivered, up, down, rec, live, fleet, handler, push>>
  <2>1. changes' \in 0..MaxChanges
    BY DeliveryAssumption DEF Connect, TypeOK
  <2> QED
    BY <2>1 DEF Connect, TypeOK, store, registry
<1>2. TypeOK'
  BY <1>1 DEF TypeOK
<1>3. NoLeak'
  <2> SUFFICES ASSUME NEW j \in Instances, live[j] # None
               PROVE  home'[live[j]] = j /\ conn'[live[j]] \in {"open", "broken", "closing"}
    BY <1>1 DEF NoLeak
  <2>1. /\ live[j] \in Conns /\ home[live[j]] = j
        /\ conn[live[j]] \in {"open", "broken", "closing"}
    BY DEF NoLeak, TypeOK
  <2> QED
    BY <1>1, <2>1 DEF TypeOK
<1>4. OpenConn'
  BY <1>1 DEF OpenConn, TypeOK
<1>5. InOrder'
  <2>1. \A q \in 1..(k - 1) : conn[q] # "unused"
    BY DEF Connect
  <2> QED
    BY <1>1, <2>1 DEF InOrder, TypeOK, Conns
<1>6. Homes' /\ Handlers' /\ Lives' /\ Sends'
  BY <1>1 DEF Homes, Handlers, Lives, Sends, TypeOK
<1>7. SameRecord'
  BY <1>1 DEF SameRecord, Handlers
<1>8. Fleets'
  <2> SUFFICES ASSUME NEW j \in Instances, fleet[j] # None
               PROVE  /\ rec[fleet[j]] # None
                      /\ conn'[fleet[j]] # "closed" =>
                           live[j] = fleet[j] /\ rec[fleet[j]].described
    BY <1>1 DEF Fleets
  <2>1. fleet[j] \in Conns
    BY DEF TypeOK
  <2>2. fleet[j] # k
    BY <1>1, <2>1 DEF Fleets, NoLeak
  <2> QED
    BY <1>1, <2>1, <2>2 DEF Fleets, TypeOK
<1>9. Holders'
  <2> SUFFICES ASSUME NEW q \in Conns, handler[q].pc # "idle",
                      conn'[handler[q].to] # "closed"
               PROVE  live[home'[q]] = handler[q].to
    BY <1>1 DEF Holders
  <2>1. handler[q].to \in Conns /\ q # k /\ home[q] \in Instances
    BY <1>1 DEF Handlers, Homes
  <2>2. conn[handler[q].to] # "closed"
    BY <1>1, <2>1 DEF TypeOK
  <2> QED
    BY <1>1, <2>1, <2>2 DEF Holders, TypeOK
<1> QED
  BY <1>2, <1>3, <1>4, <1>5, <1>6, <1>7, <1>8, <1>9

LEMMA SendReportOK == ASSUME Wires, SendReport PROVE Wires'
<1> DEFINE k == agent.conn
           m == [desc |-> agent.full,
                 status |-> IF agent.full \/ agent.news THEN agent.status ELSE None]
<1> USE NoneFacts DEF Wires
<1>1. /\ k \in Conns /\ up' = [up EXCEPT ![k] = m] /\ m \in Report
      /\ UNCHANGED <<desired, known, online, owner, delivered, home, conn, down, rec, live, fleet,
                     handler, push, changes>>
  BY DEF SendReport, TypeOK, Report, store, registry
<1>2. /\ agent' \in [conn : Conns \cup {None}, running : Sent \cup {Local},
                     status : Status \cup {None}, full : BOOLEAN, news : BOOLEAN]
      /\ agent'.conn = agent.conn
  BY DEF SendReport, TypeOK
<1> HIDE DEF m
<1>3. TypeOK'
  BY <1>1, <1>2 DEF TypeOK
<1> QED
  BY <1>1, <1>2, <1>3 DEF NoLeak, OpenConn, InOrder, Homes, Handlers, Lives, Fleets, Holders, Sends, SameRecord

LEMMA ApplyOK == ASSUME Wires, Apply PROVE Wires'
<1> DEFINE k == agent.conn
           m == Head(down[k])
<1> USE NoneFacts DEF Wires
<1>1. k \in Conns /\ down[k] \in Seq(Reply) /\ down[k] # <<>>
  BY DEF Apply, TypeOK
<1>2. m \in Reply /\ Tail(down[k]) \in Seq(Reply)
  BY <1>1
<1>3. /\ down' = [down EXCEPT ![k] = Tail(down[k])]
      /\ UNCHANGED <<desired, known, online, owner, delivered, home, conn, up, rec, live, fleet,
                     handler, push, changes>>
  BY DEF Apply, store, registry
<1>4. /\ agent' \in [conn : Conns \cup {None}, running : Sent \cup {Local},
                     status : Status \cup {None}, full : BOOLEAN, news : BOOLEAN]
      /\ agent'.conn = agent.conn
  <2>1. m.config \in Sent \cup {None} /\ m.full \in BOOLEAN
    BY <1>2 DEF Reply
  <2>2. m.config # None => [hash |-> m.config, failed |-> m.config \in Rejected] \in Status
    BY <2>1 DEF Status
  <2> HIDE DEF m
  <2>3. CASE m.config = None
    BY <2>1, <2>3 DEF Apply, TypeOK, m
  <2>4. CASE m.config # None
    BY <2>1, <2>2, <2>4 DEF Apply, TypeOK, m
  <2> QED
    BY <2>3, <2>4
<1>5. TypeOK'
  BY <1>1, <1>2, <1>3, <1>4 DEF TypeOK
<1> QED
  BY <1>3, <1>4, <1>5 DEF NoLeak, OpenConn, InOrder, Homes, Handlers, Lives, Fleets, Holders, Sends, SameRecord

LEMMA BreakOK == ASSUME Wires, Break PROVE Wires'
<1> DEFINE k == agent.conn
<1> USE NoneFacts DEF Wires
<1>1. /\ k \in Conns /\ conn' = [conn EXCEPT ![k] = "broken"]
      /\ up' = [up EXCEPT ![k] = None] /\ down' = [down EXCEPT ![k] = <<>>]
      /\ UNCHANGED <<desired, known, online, owner, delivered, home, rec, live, fleet,
                     handler, push, changes>>
  BY DEF Break, TypeOK, store, registry
<1>2. /\ agent' \in [conn : Conns \cup {None}, running : Sent \cup {Local},
                     status : Status \cup {None}, full : BOOLEAN, news : BOOLEAN]
      /\ agent'.conn = None
  BY DEF Break, TypeOK
<1>3. TypeOK'
  BY <1>1, <1>2 DEF TypeOK
<1>4. conn[k] = "open"
  BY <1>1 DEF OpenConn
<1>5. NoLeak' /\ OpenConn' /\ SameRecord'
  BY <1>1, <1>2, <1>4 DEF NoLeak, OpenConn, SameRecord, TypeOK
<1>i. InOrder'
  BY <1>1, <1>2, <1>4 DEF InOrder, TypeOK
<1>6. Homes' /\ Handlers' /\ Lives' /\ Sends'
  BY <1>1, <1>4 DEF Homes, Handlers, Lives, Sends, TypeOK
<1>7. Fleets' /\ Holders'
  BY <1>1, <1>4 DEF Fleets, Holders, Handlers, TypeOK
<1> QED
  BY <1>3, <1>5, <1>i, <1>6, <1>7

\* The record a report is for: one of the agent's earlier connections, or a new
\* one on this connection.
LEMMA RecordForOK ==
  ASSUME Wires, NEW k \in Conns, conn[k] = "open"
  PROVE  /\ home[k] \in Instances /\ agent.conn = k
         /\ RecordFor(k) \in Conns /\ RecordFor(k) <= k
         /\ live[home[k]] # None => RecordFor(k) = live[home[k]] /\ rec[RecordFor(k)] \in Record
         /\ live[home[k]] = None => RecordFor(k) = k
         /\ home[RecordFor(k)] = home[k]
         /\ conn[RecordFor(k)] \in {"open", "broken", "closing"}
<1> USE NoneFacts DEF Wires
<1>1. home[k] \in Instances /\ agent.conn = k
  BY DEF Homes, OpenConn
<1>2. CASE live[home[k]] = None
  BY <1>1, <1>2 DEF RecordFor, Conns
<1>3. CASE live[home[k]] # None
  <2> DEFINE t == live[home[k]]
  <2>1. /\ t \in Conns /\ rec[t] \in Record /\ home[t] = home[k]
        /\ conn[t] \in {"open", "broken", "closing"}
    BY <1>1, <1>3 DEF NoLeak, Lives, TypeOK
  <2>2. ~(k < t)
    <3> SUFFICES ASSUME k < t PROVE FALSE
      OBVIOUS
    <3> QED
      BY <1>1, <2>1 DEF InOrder
  <2> QED
    BY <1>1, <1>3, <2>1, <2>2 DEF RecordFor, Conns
<1> QED
  BY <1>2, <1>3

HandlerType ==
  [pc : {"idle", "found", "stage", "reply"}, to : Conns \cup {None},
   report : Report \cup {None}, config : Sent \cup {None},
   reply : Reply, stamp : BOOLEAN]

\* What FindOrCreateAgent does.
LEMMA FindFacts ==
  ASSUME Wires, NEW k \in Conns, FindOrCreateAgent(k)
  PROVE  /\ conn[k] = "open" /\ up[k] \in Report /\ handler[k].pc = "idle"
         /\ rec' \in [Conns -> Record \cup {None}] /\ rec'[RecordFor(k)] \in Record
         /\ \A q \in Conns \ {k} : rec'[q] = rec[q]
         /\ live[home[k]] # None => rec'[k] = rec[k]
         /\ live[home[k]] = None => ~rec'[k].seen /\ rec'[k].staged = None
         /\ handler' \in [Conns -> HandlerType]
         /\ handler'[k].pc = "found" /\ handler'[k].to = RecordFor(k)
         /\ handler'[k].report = up[k]
         /\ \A q \in Conns \ {k} : handler'[q] = handler[q]
         /\ up' = [up EXCEPT ![k] = None] /\ live' = [live EXCEPT ![home[k]] = RecordFor(k)]
         /\ UNCHANGED <<home, desired, known, online, owner, delivered, agent, conn, down,
                        fleet, push, changes>>
<1> DEFINE to == RecordFor(k)
           h == [IdleHandler EXCEPT !.pc = "found", !.to = to, !.report = up[k]]
<1> USE NoneFacts DEF Wires
<1>1. conn[k] = "open" /\ up[k] \in Report /\ handler[k].pc = "idle"
  BY DEF FindOrCreateAgent, TypeOK
<1>2. to \in Conns /\ (live[home[k]] # None => rec[to] \in Record)
      /\ (live[home[k]] = None => to = k)
  BY <1>1, RecordForOK
<1>3. NewAgent \in Record /\ NewAgent.seen = FALSE /\ NewAgent.staged = None
  BY DEF NewAgent, Record
<1>4. h \in HandlerType /\ h.pc = "found" /\ h.to = to /\ h.report = up[k]
  BY <1>1, <1>2 DEF HandlerType, IdleHandler, NoReply, Reply
<1>5. /\ handler' = [handler EXCEPT ![k] = h]
      /\ rec' = IF live[home[k]] = None THEN [rec EXCEPT ![k] = NewAgent] ELSE rec
  BY DEF FindOrCreateAgent
<1> HIDE DEF h, to
<1>6. /\ handler' \in [Conns -> HandlerType] /\ handler'[k] = h
      /\ \A q \in Conns \ {k} : handler'[q] = handler[q]
  BY <1>4, <1>5 DEF TypeOK, HandlerType
<1>7. /\ rec' \in [Conns -> Record \cup {None}] /\ rec'[to] \in Record
      /\ \A q \in Conns \ {k} : rec'[q] = rec[q]
      /\ live[home[k]] # None => rec'[k] = rec[k]
      /\ live[home[k]] = None => ~rec'[k].seen /\ rec'[k].staged = None
  BY <1>2, <1>3, <1>5 DEF TypeOK
<1>8. /\ up' = [up EXCEPT ![k] = None] /\ live' = [live EXCEPT ![home[k]] = to]
      /\ UNCHANGED <<home, desired, known, online, owner, delivered, agent, conn, down,
                     fleet, push, changes>>
  BY DEF FindOrCreateAgent, store, to
<1> QED
  BY <1>1, <1>4, <1>6, <1>7, <1>8 DEF to

LEMMA FindOK == ASSUME Wires, NEW k \in Conns, FindOrCreateAgent(k) PROVE Wires'
<1> DEFINE to == RecordFor(k)
<1> USE NoneFacts DEF Wires
<1>1. /\ conn[k] = "open" /\ up[k] \in Report /\ handler[k].pc = "idle"
      /\ rec' \in [Conns -> Record \cup {None}] /\ rec'[to] \in Record
      /\ \A q \in Conns \ {k} : rec'[q] = rec[q]
      /\ live[home[k]] # None => rec'[k] = rec[k]
      /\ handler' \in [Conns -> HandlerType]
      /\ handler'[k].pc = "found" /\ handler'[k].to = to /\ handler'[k].report = up[k]
      /\ \A q \in Conns \ {k} : handler'[q] = handler[q]
      /\ up' = [up EXCEPT ![k] = None] /\ live' = [live EXCEPT ![home[k]] = to]
      /\ UNCHANGED <<home, desired, known, online, owner, delivered, agent, conn, down,
                     fleet, push, changes>>
  BY FindFacts
<1>2. /\ home[k] \in Instances /\ agent.conn = k /\ to \in Conns /\ to <= k
      /\ home[to] = home[k] /\ conn[to] \in {"open", "broken", "closing"}
      /\ live[home[k]] # None => to = live[home[k]]
      /\ live[home[k]] = None => to = k
  BY <1>1, RecordForOK
<1> HIDE DEF to
<1>3. TypeOK'
  BY <1>1, <1>2 DEF TypeOK, HandlerType
<1>4. \A t \in Conns : rec[t] # None => rec'[t] # None
  BY <1>1, <1>2
<1>5. NoLeak' /\ Lives'
  <2> SUFFICES ASSUME NEW i \in Instances, live'[i] # None
               PROVE  /\ home[live'[i]] = i /\ conn[live'[i]] \in {"open", "broken", "closing"}
                      /\ rec'[live'[i]] # None
    BY <1>1 DEF NoLeak, Lives
  <2>1. CASE i = home[k]
    BY <1>1, <1>2, <2>1 DEF TypeOK
  <2>2. CASE i # home[k]
    BY <1>1, <1>2, <1>4, <2>2 DEF TypeOK, NoLeak, Lives
  <2> QED
    BY <2>1, <2>2
<1>6. Handlers'
  <2> SUFFICES ASSUME NEW q \in Conns
               PROVE  /\ conn[q] = "unused" => handler'[q].pc = "idle"
                      /\ handler'[q].pc # "idle" =>
                           /\ handler'[q].to \in Conns /\ handler'[q].to <= q
                           /\ rec'[handler'[q].to] # None
                      /\ handler'[q].pc \in {"found", "stage"} => handler'[q].report # None
    BY <1>1 DEF Handlers
  <2>2. CASE q = k
    BY <1>1, <1>2, <2>2
  <2>3. CASE q # k
    BY <1>1, <1>4, <2>3 DEF Handlers
  <2> QED
    BY <2>2, <2>3
<1>7. OpenConn' /\ InOrder' /\ Homes' /\ Sends'
  BY <1>1 DEF OpenConn, InOrder, Homes, Sends
<1>8. SameRecord'
  BY <1>1, <1>2 DEF SameRecord, TypeOK
<1>9. Fleets'
  <2> SUFFICES ASSUME NEW i \in Instances, fleet[i] # None
               PROVE  /\ rec'[fleet[i]] # None
                      /\ conn[fleet[i]] # "closed" =>
                           live'[i] = fleet[i] /\ rec'[fleet[i]].described
    BY <1>1 DEF Fleets
  <2>1. fleet[i] \in Conns /\ rec[fleet[i]] # None
    BY DEF Fleets, TypeOK
  <2>2. ASSUME conn[fleet[i]] # "closed"
        PROVE  live'[i] = fleet[i] /\ rec'[fleet[i]] = rec[fleet[i]] /\ rec[fleet[i]].described
    <3>1. live[i] = fleet[i] /\ rec[fleet[i]].described /\ home[fleet[i]] = i
      BY <2>1, <2>2 DEF Fleets, NoLeak
    <3>2. live'[i] = live[i]
      BY <1>1, <1>2, <3>1, <2>1 DEF TypeOK
    <3>3. rec'[fleet[i]] = rec[fleet[i]]
      BY <1>1, <1>2, <3>1, <2>1
    <3> QED
      BY <3>1, <3>2, <3>3
  <2> QED
    BY <1>4, <2>1, <2>2
<1>10. Holders'
  <2> SUFFICES ASSUME NEW q \in Conns, handler'[q].pc # "idle",
                      conn[handler'[q].to] # "closed"
               PROVE  live'[home[q]] = handler'[q].to
    BY <1>1 DEF Holders
  <2>1. CASE q = k
    BY <1>1, <1>2, <2>1 DEF TypeOK
  <2>2. CASE q # k
    <3>1. /\ live[home[q]] = handler[q].to /\ handler'[q] = handler[q]
          /\ handler[q].to \in Conns /\ home[q] \in Instances
      BY <1>1, <2>2 DEF Holders, Handlers, Homes
    <3> QED
      BY <1>1, <1>2, <3>1 DEF TypeOK
  <2> QED
    BY <2>1, <2>2
<1> QED
  BY <1>3, <1>5, <1>6, <1>7, <1>8, <1>9, <1>10

\* What the rest of onMessage up to UpdateStatus does.
LEMMA SetFleetIdFacts ==
  ASSUME Wires, NEW k \in Conns, SetFleetId(k)
  PROVE  /\ handler[k].pc = "found" /\ handler[k].to \in Conns
         /\ rec[handler[k].to] \in Record /\ handler[k].report \in Report
         /\ rec' \in [Conns -> Record \cup {None}] /\ rec'[handler[k].to] \in Record
         /\ \A q \in Conns \ {handler[k].to} : rec'[q] = rec[q]
         /\ handler' \in [Conns -> HandlerType]
         /\ handler'[k].pc \in {"stage", "reply"} /\ handler'[k].to = handler[k].to
         /\ handler'[k].pc = "stage" => handler'[k].report = handler[k].report
         /\ \A q \in Conns \ {k} : handler'[q] = handler[q]
         /\ desired' \in Configs \cup {None}
         /\ known' \in BOOLEAN /\ online' \in BOOLEAN /\ delivered' \in Sent \cup {None}
         /\ rec'[handler[k].to].status =
              IF handler'[k].pc = "reply" /\ handler[k].report.status # None
              THEN handler[k].report.status ELSE rec[handler[k].to].status
         /\ rec[handler[k].to].described \/ handler[k].report.desc
              => rec'[handler[k].to].described
         /\ ~rec[handler[k].to].seen /\ rec[handler[k].to].staged = None =>
              handler'[k].pc = "reply" /\ handler'[k].reply.config # None
<1> DEFINE m == handler[k].report
           to == handler[k].to
           old == rec[to]
           r == [old EXCEPT !.described = @ \/ m.desc]
           applies == m.desc /\ r.seen /\ Custom(r) = Empty
<1> USE NoneFacts DEF Wires
<1>1. handler[k].pc = "found" /\ m \in Report /\ to \in Conns /\ old \in Record
  <2>1. handler[k].pc = "found"
    BY DEF SetFleetId
  <2>2. m # None /\ to \in Conns /\ old # None
    BY <2>1 DEF Handlers
  <2>3. m \in Report \cup {None}
    BY DEF TypeOK
  <2>4. old \in Record \cup {None}
    BY <2>2 DEF TypeOK
  <2> QED
    BY <2>1, <2>2, <2>3, <2>4
<1>5. /\ r \in Record /\ r.seen = old.seen /\ r.staged = old.staged /\ r.status = old.status
      /\ r.described = (old.described \/ m.desc)
  <2>1. (old.described \/ m.desc) \in BOOLEAN
    BY <1>1 DEF Record, Report
  <2> HIDE DEF old, m
  <2> QED
    BY <1>1, <2>1 DEF Record
<1>6. CASE ~applies /\ UpdateStatus(k, to, r, m) /\ UNCHANGED desired
  <2> HIDE DEF r, m, to, old
  <2>1. /\ rec' \in [Conns -> Record \cup {None}]
        /\ known' \in BOOLEAN /\ online' \in BOOLEAN /\ delivered' \in Sent \cup {None}
        /\ handler' \in [Conns -> HandlerType]
        /\ rec'[to] = Updated(r, m) /\ \A q \in Conns \ {to} : rec'[q] = rec[q]
        /\ handler'[k].pc = "reply" /\ handler'[k].to = to
        /\ handler'[k].reply.config = Answer(Seen(r, m))
        /\ \A q \in Conns \ {k} : handler'[q] = handler[q]
    BY <1>1, <1>5, <1>6, UpdateStatusOK DEF HandlerType
  <2>2. Updated(r, m) \in Record
    BY <1>1, <1>5, RecordTypes DEF Sent
  <2>3. /\ Updated(r, m).status = IF m.status = None THEN r.status ELSE m.status
        /\ Updated(r, m).described = r.described
    BY <1>1, <1>5, UpdatedFields
  <2>4. r.staged = None => Answer(Seen(r, m)) = Empty
    BY <1>1, <1>5, UpdatedFields
  <2>5. rec'[to].described = (old.described \/ m.desc)
    BY <1>5, <2>1, <2>3
  <2>6. rec'[to].status = IF m.status # None THEN m.status ELSE old.status
    BY <1>5, <2>1, <2>3
  <2>7. old.staged = None => handler'[k].reply.config # None
    BY <1>5, <2>1, <2>4 DEF Sent
  <2>8. old.described \/ m.desc => rec'[to].described
    BY <2>5, Zenon
  <2>9. desired' \in Configs \cup {None} /\ rec'[to] \in Record
    BY <1>6, <2>1, <2>2 DEF TypeOK
  <2> QED
    BY <1>1, <2>1, <2>6, <2>7, <2>8, <2>9 DEF m, to, old
<1>7. CASE /\ applies
           /\ rec' = [rec EXCEPT ![to] = r]
           /\ \E c \in ConnectConfigs(r) :
                /\ handler' = [handler EXCEPT ![k] =
                     [IdleHandler EXCEPT !.pc = "stage", !.to = to, !.report = m,
                                         !.config = c]]
                /\ desired' = IF c = Adopted THEN Adopted ELSE desired
           /\ UNCHANGED <<known, online, delivered>>
  <2> HIDE DEF r, m, to
  <2>1. PICK c \in ConnectConfigs(r) :
          /\ handler' = [handler EXCEPT ![k] =
               [IdleHandler EXCEPT !.pc = "stage", !.to = to, !.report = m, !.config = c]]
          /\ desired' = IF c = Adopted THEN Adopted ELSE desired
    BY <1>7
  <2>2. c \in Sent
    BY <1>5, DeliveryAssumption DEF ConnectConfigs, Resolve, Sent, TypeOK
  <2> DEFINE h == [IdleHandler EXCEPT !.pc = "stage", !.to = to, !.report = m, !.config = c]
  <2>3. h \in HandlerType /\ h.pc = "stage" /\ h.to = to /\ h.report = m
    BY <1>1, <2>2 DEF HandlerType, IdleHandler, NoReply, Reply
  <2> HIDE DEF h
  <2>4. handler' = [handler EXCEPT ![k] = h]
    BY <2>1 DEF h
  <2>5. /\ handler' \in [Conns -> HandlerType] /\ handler'[k] = h
        /\ \A q \in Conns \ {k} : handler'[q] = handler[q]
    BY <2>3, <2>4 DEF TypeOK, HandlerType
  <2>6. /\ rec' \in [Conns -> Record \cup {None}] /\ rec'[to] = r
        /\ \A q \in Conns \ {to} : rec'[q] = rec[q]
    BY <1>7, <1>1, <1>5 DEF TypeOK
  <2>7. old.seen
    BY <1>5, <1>7
  <2>8. desired' \in Configs \cup {None}
    BY <2>1, DeliveryAssumption DEF TypeOK
  <2>9. /\ known' \in BOOLEAN /\ online' \in BOOLEAN /\ delivered' \in Sent \cup {None}
    BY <1>7 DEF TypeOK
  <2>10. rec'[to].described = (old.described \/ m.desc) /\ rec'[to].status = old.status
    BY <1>5, <2>6
  <2>11. old.described \/ m.desc => rec'[to].described
    BY <2>10, Zenon
  <2> QED
    BY <1>1, <1>5, <2>3, <2>5, <2>6, <2>7, <2>8, <2>9, <2>10, <2>11 DEF m, to, old
<1> QED
  BY <1>6, <1>7 DEF SetFleetId

LEMMA SetFleetIdOK == ASSUME Wires, NEW k \in Conns, SetFleetId(k) PROVE Wires'
<1> DEFINE to == handler[k].to
           m == handler[k].report
<1> USE NoneFacts DEF Wires
<1>1. /\ handler[k].pc = "found" /\ to \in Conns /\ rec[to] \in Record
      /\ rec' \in [Conns -> Record \cup {None}] /\ rec'[to] \in Record
      /\ \A q \in Conns \ {to} : rec'[q] = rec[q]
      /\ handler' \in [Conns -> HandlerType]
      /\ handler'[k].pc \in {"stage", "reply"} /\ handler'[k].to = to
      /\ handler'[k].pc = "stage" => handler'[k].report = m
      /\ \A q \in Conns \ {k} : handler'[q] = handler[q]
      /\ desired' \in Configs \cup {None}
      /\ known' \in BOOLEAN /\ online' \in BOOLEAN /\ delivered' \in Sent \cup {None}
      /\ rec[to].described \/ m.desc => rec'[to].described
  BY SetFleetIdFacts
<1>2. home[k] \in Instances /\ m # None /\ to <= k
  BY <1>1 DEF Homes, Handlers
<1>3. /\ UNCHANGED <<agent, home, conn, up, down, live, push, changes>>
      /\ owner' \in Instances \cup {None}
      /\ fleet' = IF m.desc THEN [fleet EXCEPT ![home[k]] = to] ELSE fleet
  BY <1>2 DEF SetFleetId, TypeOK, wire
<1> HIDE DEF to, m
<1>4. TypeOK'
  BY <1>1, <1>2, <1>3 DEF TypeOK, HandlerType
<1>5. \A t \in Conns : rec[t] # None => rec'[t] # None
  BY <1>1
<1>6. NoLeak' /\ OpenConn' /\ InOrder' /\ Homes' /\ Sends' /\ Lives'
  BY <1>3, <1>5 DEF NoLeak, OpenConn, InOrder, Homes, Sends, Lives, TypeOK
<1>7. ASSUME NEW q \in Conns, handler'[q].pc # "idle"
      PROVE  handler[q].pc # "idle" /\ handler'[q].to = handler[q].to
  BY <1>1, <1>7 DEF to
<1>8. Handlers'
  <2>1. ASSUME NEW q \in Conns, handler'[q].pc \in {"found", "stage"}
        PROVE  handler'[q].report # None
    BY <1>1, <1>2, <2>1 DEF Handlers
  <2> QED
    BY <1>1, <1>3, <1>5, <1>7, <2>1 DEF Handlers
<1>9. SameRecord' /\ Holders'
  BY <1>3, <1>7 DEF SameRecord, Holders
<1>10. Fleets'
  <2> SUFFICES ASSUME NEW i \in Instances, fleet'[i] # None
               PROVE  /\ rec'[fleet'[i]] # None
                      /\ conn[fleet'[i]] # "closed" =>
                           live[i] = fleet'[i] /\ rec'[fleet'[i]].described
    BY <1>3 DEF Fleets
  <2>1. CASE m.desc /\ i = home[k]
    <3>1. fleet'[i] = to
      BY <1>3, <2>1 DEF TypeOK
    <3>2. conn[to] # "closed" => live[home[k]] = to
      BY <1>1 DEF Holders, to
    <3> QED
      BY <1>1, <2>1, <3>1, <3>2
  <2>2. CASE ~(m.desc /\ i = home[k])
    <3>1. fleet'[i] = fleet[i] /\ fleet[i] \in Conns
      BY <1>3, <2>2 DEF TypeOK
    <3>2. rec[fleet[i]].described => rec'[fleet[i]].described
      BY <1>1, <3>1
    <3> QED
      BY <1>5, <3>1, <3>2 DEF Fleets
  <2> QED
    BY <2>1, <2>2
<1> QED
  BY <1>4, <1>6, <1>8, <1>9, <1>10

\* Steps that change neither connections nor the registry keep the rest, when
\* records do not vanish and the handlers that run keep theirs.
LEMMA KeepsWires ==
  ASSUME Wires, TypeOK', UNCHANGED <<agent, home, conn, live, fleet>>,
         \A t \in Conns : rec[t] # None =>
           rec'[t] # None /\ (rec[t].described => rec'[t].described),
         \A q \in Conns : \/ handler'[q] = handler[q]
                          \/ handler'[q].pc = "idle"
                          \/ handler'[q].pc = "reply" /\ handler[q].pc = "stage"
                             /\ handler'[q].to = handler[q].to,
         \A i \in Instances : push'[i].pc = "send" => push'[i].to \in Conns
  PROVE  Wires'
<1> USE DEF Wires
<1>1. NoLeak' /\ OpenConn' /\ InOrder' /\ Homes' /\ Sends'
  BY DEF NoLeak, OpenConn, InOrder, Homes, Sends
<1>2. Lives'
  BY NoneFacts DEF Lives, TypeOK
<1>3. ASSUME NEW q \in Conns, handler'[q].pc # "idle"
      PROVE  /\ handler[q].pc # "idle" /\ handler'[q].to = handler[q].to
             /\ handler'[q].pc \in {"found", "stage"} => handler'[q] = handler[q]
  BY <1>3
<1>4. Handlers'
  BY <1>3 DEF Handlers
<1>5. SameRecord' /\ Holders'
  BY <1>3 DEF SameRecord, Holders
<1>6. Fleets'
  <2> SUFFICES ASSUME NEW i \in Instances, fleet[i] # None
               PROVE  /\ rec'[fleet[i]] # None
                      /\ conn[fleet[i]] # "closed" =>
                           live[i] = fleet[i] /\ rec'[fleet[i]].described
    BY DEF Fleets
  <2>1. fleet[i] \in Conns
    BY DEF TypeOK
  <2>2. /\ rec[fleet[i]] # None
        /\ conn[fleet[i]] # "closed" => live[i] = fleet[i] /\ rec[fleet[i]].described
    BY DEF Fleets
  <2> QED
    BY <2>1, <2>2
<1> QED
  BY <1>1, <1>2, <1>4, <1>5, <1>6

LEMMA StageOnConnectOK ==
  ASSUME Wires, NEW k \in Conns, StageOnConnect(k)
  PROVE  /\ Wires'
         /\ handler[k].to \in Conns /\ rec[handler[k].to] \in Record
         /\ handler[k].report \in Report
         /\ rec'[handler[k].to].status = IF handler[k].report.status = None
                                         THEN rec[handler[k].to].status
                                         ELSE handler[k].report.status
         /\ \A q \in Conns \ {handler[k].to} : rec'[q] = rec[q]
         /\ handler'[k].pc = "reply" /\ \A q \in Conns \ {k} : handler'[q] = handler[q]
<1> DEFINE h == handler[k]
           r == Stage(rec[h.to], h.config)
<1> USE NoneFacts DEF Wires
<1>1. /\ h.pc = "stage" /\ h.to \in Conns /\ rec[h.to] \in Record /\ h.report \in Report
      /\ h.config \in Sent \cup {None}
  BY DEF StageOnConnect, Handlers, TypeOK
<1>2. r \in Record /\ r.status = rec[h.to].status /\ r.described = rec[h.to].described
  BY <1>1 DEF Stage, Record
<1>3. UpdateStatus(k, h.to, r, h.report) /\ UNCHANGED <<desired, owner, agent, wire, registry, push, changes>>
  BY DEF StageOnConnect
<1> HIDE DEF r
<1>4. /\ rec' \in [Conns -> Record \cup {None}]
      /\ known' \in BOOLEAN /\ online' \in BOOLEAN /\ delivered' \in Sent \cup {None}
      /\ handler' \in [Conns -> HandlerType]
      /\ rec'[h.to] = Updated(r, h.report) /\ \A q \in Conns \ {h.to} : rec'[q] = rec[q]
      /\ handler'[k].pc = "reply" /\ handler'[k].to = h.to
      /\ \A q \in Conns \ {k} : handler'[q] = handler[q]
  BY <1>1, <1>2, <1>3, UpdateStatusOK DEF HandlerType
<1>5. /\ Updated(r, h.report) \in Record
      /\ Updated(r, h.report).status = IF h.report.status = None THEN r.status ELSE h.report.status
      /\ Updated(r, h.report).described = r.described
  BY <1>1, <1>2, RecordTypes, UpdatedFields DEF Sent
<1>6. TypeOK'
  BY <1>3, <1>4 DEF TypeOK, HandlerType, wire, registry
<1>70. \A t \in Conns : rec[t] # None =>
         rec'[t] # None /\ (rec[t].described => rec'[t].described)
  BY <1>2, <1>4, <1>5
<1>7. Wires'
  BY <1>1, <1>3, <1>4, <1>6, <1>70, KeepsWires DEF wire, registry, Sends
<1> QED
  BY <1>1, <1>2, <1>4, <1>5, <1>7

\* conn.Send appends to what is on its way, on an open connection.
LEMMA SendOK ==
  ASSUME TypeOK, NEW k \in Conns, NEW m \in Reply, Send(k, m)
  PROVE  /\ down' \in [Conns -> Seq(Reply)]
         /\ \A q \in Conns \ {k} : down'[q] = down[q]
         /\ down'[k] = down[k] \/ down'[k] = Append(down[k], m)
         /\ conn[k] = "open" /\ m # NoReply => down'[k] = Append(down[k], m)
BY DEF Send, TypeOK

LEMMA ReplyToOK == ASSUME Wires, NEW k \in Conns, ReplyTo(k) PROVE Wires'
<1> DEFINE h == handler[k]
<1> USE NoneFacts DEF Wires
<1>1. h.to \in Conns /\ rec[h.to] \in Record /\ h.reply \in Reply
  BY DEF ReplyTo, Handlers, TypeOK
<1>2. down' \in [Conns -> Seq(Reply)]
  BY <1>1, SendOK DEF ReplyTo
<1>3. delivered' \in Sent \cup {None}
  BY <1>1 DEF ReplyTo, TypeOK, Record
<1>4. IdleHandler \in HandlerType /\ IdleHandler.pc = "idle"
  BY DEF IdleHandler, HandlerType, NoReply, Reply
<1>5. /\ handler' \in [Conns -> HandlerType] /\ handler'[k].pc = "idle"
      /\ \A q \in Conns \ {k} : handler'[q] = handler[q]
  BY <1>4 DEF ReplyTo, TypeOK, HandlerType
<1>6. TypeOK'
  BY <1>2, <1>3, <1>5 DEF ReplyTo, TypeOK, HandlerType, registry
<1> QED
  BY <1>5, <1>6, KeepsWires DEF ReplyTo, Sends, registry

LEMMA DisconnectOK == ASSUME Wires, NEW k \in Conns, Disconnect(k) PROVE Wires'
<1> USE NoneFacts DEF Wires
<1>1. /\ conn[k] = "broken" /\ conn' = [conn EXCEPT ![k] = "closing"]
      /\ online' \in BOOLEAN /\ owner' \in Instances \cup {None}
      /\ UNCHANGED <<home, desired, known, delivered, agent, up, down, rec, live, fleet, handler, push, changes>>
  BY DEF Disconnect, TypeOK, registry
<1>2. TypeOK'
  BY <1>1 DEF TypeOK
<1>3. NoLeak' /\ OpenConn' /\ InOrder' /\ Homes'
  BY <1>1 DEF NoLeak, OpenConn, InOrder, Homes, TypeOK
<1>4. Handlers' /\ Lives' /\ Sends' /\ SameRecord'
  BY <1>1 DEF Handlers, Lives, Sends, SameRecord, TypeOK
<1>5. Fleets' /\ Holders'
  BY <1>1 DEF Fleets, Holders, Handlers, TypeOK
<1> QED
  BY <1>2, <1>3, <1>4, <1>5

LEMMA RemoveConnectionOK == ASSUME Wires, NEW k \in Conns, RemoveConnection(k) PROVE Wires'
<1> USE NoneFacts DEF Wires
<1>1. /\ conn[k] = "closing" /\ conn' = [conn EXCEPT ![k] = "closed"] /\ home[k] \in Instances
      /\ live' = IF live[home[k]] = k THEN [live EXCEPT ![home[k]] = None] ELSE live
      /\ fleet' = IF live[home[k]] = k /\ rec[k].described
                  THEN [fleet EXCEPT ![home[k]] = None] ELSE fleet
      /\ rec' = IF \E q \in Conns : handler[q].to = k THEN rec ELSE [rec EXCEPT ![k] = None]
      /\ UNCHANGED <<home, desired, known, online, owner, delivered, agent, up, down, handler,
                     push, changes>>
  BY DEF RemoveConnection, Homes, store
<1>2. /\ live' \in [Instances -> Conns \cup {None}] /\ rec' \in [Conns -> Record \cup {None}]
      /\ \A i \in Instances : live'[i] \in {None, live[i]} /\ live'[i] # k
      /\ \A q \in Conns \ {k} : rec'[q] = rec[q]
      /\ \A q \in Conns : handler[q].to \in Conns => rec'[handler[q].to] = rec[handler[q].to]
  <2>1. \A i \in Instances : live'[i] # k
    BY <1>1 DEF NoLeak, TypeOK
  <2> QED
    BY <1>1, <2>1 DEF TypeOK
<1>20. /\ fleet' \in [Instances -> Conns \cup {None}]
       /\ \A i \in Instances : fleet'[i] \in {None, fleet[i]}
  BY <1>1 DEF TypeOK
<1>3. TypeOK'
  BY <1>1, <1>2, <1>20 DEF TypeOK
<1>4. NoLeak' /\ Lives'
  <2> SUFFICES ASSUME NEW i \in Instances, live'[i] # None
               PROVE  /\ home[live'[i]] = i /\ conn'[live'[i]] \in {"open", "broken", "closing"}
                      /\ rec'[live'[i]] # None
    BY <1>1 DEF NoLeak, Lives
  <2>1. live'[i] = live[i] /\ live[i] \in Conns /\ live[i] # k
    BY <1>2 DEF TypeOK
  <2> QED
    BY <1>1, <1>2, <2>1 DEF NoLeak, Lives, TypeOK
<1>5. OpenConn' /\ InOrder' /\ Homes' /\ Sends'
  BY <1>1 DEF OpenConn, InOrder, Homes, Sends, TypeOK
<1>6. Handlers'
  BY <1>1, <1>2 DEF Handlers, TypeOK
<1>7. SameRecord'
  <2> SUFFICES ASSUME NEW q \in Conns, agent.conn = q, handler[q].pc # "idle"
               PROVE  live'[home[q]] \in {None, handler[q].to}
    BY <1>1 DEF SameRecord
  <2>1. home[q] \in Instances
    BY DEF OpenConn, Homes
  <2> QED
    BY <1>2, <2>1 DEF SameRecord
<1>8. Fleets'
  <2> SUFFICES ASSUME NEW i \in Instances, fleet'[i] # None
               PROVE  /\ rec'[fleet'[i]] # None
                      /\ conn'[fleet'[i]] # "closed" =>
                           live'[i] = fleet'[i] /\ rec'[fleet'[i]].described
    BY DEF Fleets
  <2>1. fleet'[i] = fleet[i] /\ fleet[i] \in Conns
    BY <1>1, <1>20 DEF TypeOK
  <2>2. fleet[i] # k
    <3> SUFFICES ASSUME fleet[i] = k PROVE FALSE
      OBVIOUS
    <3>1. live[i] = k /\ rec[k].described
      BY <1>1, <2>1 DEF Fleets
    <3>2. home[k] = i
      BY <3>1 DEF NoLeak
    <3> QED
      BY <1>1, <2>1, <3>1, <3>2 DEF TypeOK
  <2>3. rec'[fleet[i]] = rec[fleet[i]] /\ rec[fleet[i]] # None
    BY <1>2, <2>1, <2>2 DEF Fleets
  <2>4. ASSUME conn'[fleet[i]] # "closed" PROVE live'[i] = fleet[i] /\ rec[fleet[i]].described
    <3>1. conn[fleet[i]] # "closed"
      BY <1>1, <2>1, <2>2, <2>4 DEF TypeOK
    <3>2. live[i] = fleet[i] /\ rec[fleet[i]].described
      BY <2>1, <3>1 DEF Fleets
    <3> QED
      BY <1>1, <2>2, <3>2 DEF TypeOK
  <2> QED
    BY <2>1, <2>3, <2>4
<1>9. Holders'
  <2> SUFFICES ASSUME NEW q \in Conns, handler[q].pc # "idle",
                      conn'[handler[q].to] # "closed"
               PROVE  live'[home[q]] = handler[q].to
    BY <1>1 DEF Holders
  <2>1. handler[q].to \in Conns /\ handler[q].to # k /\ home[q] \in Instances
    BY <1>1 DEF Handlers, Homes, TypeOK
  <2>2. conn[handler[q].to] # "closed"
    BY <1>1, <2>1 DEF TypeOK
  <2>3. live[home[q]] = handler[q].to
    BY <2>2 DEF Holders
  <2> QED
    BY <1>1, <2>1, <2>3 DEF TypeOK
<1> QED
  BY <1>3, <1>4, <1>5, <1>6, <1>7, <1>8, <1>9

\* Pushes and assignments change neither records nor connections, but for the
\* config that is staged.
LEMMA PushOK ==
  ASSUME Wires, NEW i \in Instances,
         Reconcile(i) \/ Push(i) \/ PushSend(i) \/ \E c \in Configs : Assign(i, c)
  PROVE  Wires'
<1> USE NoneFacts DEF Wires
<1> DEFINE PushType == [pc : {"idle", "push", "send"}, to : Conns \cup {None},
                        config : Sent \cup {None}]
<1>1. IdlePush \in PushType /\ IdlePush.pc = "idle"
  BY DEF IdlePush
<1>2. \A c \in Sent \cup {None} : /\ [IdlePush EXCEPT !.pc = "push", !.config = c] \in PushType
                                  /\ [IdlePush EXCEPT !.pc = "push", !.config = c].pc = "push"
  BY DEF IdlePush
<1>3. push \in [Instances -> PushType]
  BY DEF TypeOK
<1> DEFINE p == push'[i]
<1>4. ASSUME push' \in [Instances -> PushType], push'[i].pc = "send" => push'[i].to \in Conns,
             \A j \in Instances \ {i} : push'[j] = push[j]
      PROVE  \A j \in Instances : push'[j].pc = "send" => push'[j].to \in Conns
  BY <1>4 DEF Sends
<1>5. CASE Reconcile(i)
  <2>1. /\ push' \in [Instances -> PushType]
        /\ (push'[i].pc = "send" => push'[i].to \in Conns)
        /\ \A j \in Instances \ {i} : push'[j] = push[j]
    <3>1. Resolve(rec[live[i]]) \in Sent \cup {None}
      BY DEF Resolve, TypeOK, Sent
    <3> HIDE DEF PushType
    <3> QED
      BY <1>5, <1>2, <1>3, <3>1 DEF Reconcile
  <2>2. /\ owner' \in Instances \cup {None}
        /\ UNCHANGED <<desired, known, online, delivered, agent, home, conn, up, down, rec, live, fleet,
                       handler, changes>>
    BY <1>5 DEF Reconcile, TypeOK, wire, registry
  <2>3. TypeOK'
    BY <2>1, <2>2 DEF TypeOK
  <2> QED
    BY <1>4, <2>1, <2>2, <2>3, KeepsWires
<1>6. ASSUME NEW c \in Configs, Assign(i, c) PROVE Wires'
  <2>1. /\ push' \in [Instances -> PushType]
        /\ (push'[i].pc = "send" => push'[i].to \in Conns)
        /\ \A j \in Instances \ {i} : push'[j] = push[j]
    <3>1. c \in Sent \cup {None}
      BY DEF Sent
    <3> HIDE DEF PushType
    <3> QED
      BY <1>6, <1>2, <1>3, <3>1 DEF Assign
  <2>2. /\ desired' \in Configs \cup {None} /\ changes' \in 0..MaxChanges
        /\ UNCHANGED <<known, online, owner, delivered, agent, home, conn, up, down, rec, live, fleet,
                       handler>>
    <3>1. changes' \in 0..MaxChanges
      <4>1. changes < MaxChanges /\ changes' = changes + 1 /\ changes \in 0..MaxChanges
        BY <1>6 DEF Assign, TypeOK
      <4>2. MaxChanges \in Nat
        BY DeliveryAssumption
      <4> QED
        BY <4>1, <4>2
    <3> QED
      BY <1>6, <3>1 DEF Assign, TypeOK, wire, registry
  <2>3. TypeOK'
    BY <2>1, <2>2 DEF TypeOK
  <2> QED
    BY <1>4, <2>1, <2>2, <2>3, KeepsWires
<1>7. CASE Push(i)
  <2> DEFINE k == fleet[i]
             c == push[i].config
             sends == k # None /\ rec[k].seen /\ rec[k].staged # c
  <2>1. UNCHANGED <<desired, known, online, owner, delivered, agent, home, conn, up, down, live,
                    fleet, handler, changes>>
    BY <1>7 DEF Push, wire, store, registry
  <2>2. CASE ~sends /\ push' = [push EXCEPT ![i] = IdlePush] /\ UNCHANGED rec
    <3>1. /\ push' \in [Instances -> PushType]
          /\ (push'[i].pc = "send" => push'[i].to \in Conns)
          /\ \A j \in Instances \ {i} : push'[j] = push[j]
      BY <2>2, <1>1, <1>3
    <3>2. TypeOK'
      BY <2>1, <2>2, <3>1 DEF TypeOK
    <3> QED
      BY <1>4, <2>1, <2>2, <3>1, <3>2, KeepsWires
  <2>3. CASE /\ sends /\ rec' = [rec EXCEPT ![k] = Stage(@, c)]
             /\ push' = [push EXCEPT ![i] = [@ EXCEPT !.pc = "send", !.to = k]]
    <3>1. k \in Conns /\ rec[k] \in Record /\ c \in Sent \cup {None}
      BY <2>3 DEF TypeOK, Fleets
    <3>2. Stage(rec[k], c) \in Record /\ Stage(rec[k], c).described = rec[k].described
      BY <3>1 DEF Stage, Record
    <3>3. /\ rec' \in [Conns -> Record \cup {None}]
          /\ \A t \in Conns : rec[t] # None =>
               rec'[t] # None /\ (rec[t].described => rec'[t].described)
      BY <2>3, <3>1, <3>2 DEF TypeOK
    <3>4. /\ push' \in [Instances -> PushType]
          /\ (push'[i].pc = "send" => push'[i].to \in Conns)
          /\ \A j \in Instances \ {i} : push'[j] = push[j]
      BY <2>3, <3>1, <1>3
    <3>5. TypeOK'
      BY <2>1, <3>3, <3>4 DEF TypeOK
    <3> QED
      BY <1>4, <2>1, <3>3, <3>4, <3>5, KeepsWires
  <2> QED
    BY <1>7, <2>2, <2>3 DEF Push
<1>8. CASE PushSend(i)
  <2>1. push[i].to \in Conns /\ [config |-> push[i].config, full |-> FALSE] \in Reply
    BY <1>8 DEF PushSend, Sends, TypeOK, Reply
  <2>2. down' \in [Conns -> Seq(Reply)]
    BY <1>8, <2>1, SendOK DEF PushSend
  <2>3. /\ push' \in [Instances -> PushType]
        /\ (push'[i].pc = "send" => push'[i].to \in Conns)
        /\ \A j \in Instances \ {i} : push'[j] = push[j]
    BY <1>8, <1>1, <1>3 DEF PushSend
  <2>4. UNCHANGED <<desired, known, online, owner, delivered, agent, home, conn, up, rec, live, fleet,
                    handler, changes>>
    BY <1>8 DEF PushSend, store, registry
  <2>5. TypeOK'
    BY <2>2, <2>3, <2>4 DEF TypeOK
  <2> QED
    BY <1>4, <2>3, <2>4, <2>5, KeepsWires
<1> QED
  BY <1>5, <1>6, <1>7, <1>8

LEMMA RestartOK == ASSUME Wires, NEW i \in Instances, Restart(i) PROVE Wires'
<1> DEFINE here == {k \in Conns : home[k] = i}
<1> USE NoneFacts DEF Wires
<1>1. /\ agent.conn \in here
      /\ conn' = [k \in Conns |-> IF k \in here /\ conn[k] # "unused" THEN "closed" ELSE conn[k]]
      /\ up' = [k \in Conns |-> IF k \in here THEN None ELSE up[k]]
      /\ down' = [k \in Conns |-> IF k \in here THEN <<>> ELSE down[k]]
      /\ handler' = [k \in Conns |-> IF k \in here THEN IdleHandler ELSE handler[k]]
      /\ push' = [push EXCEPT ![i] = IdlePush]
      /\ live' = [live EXCEPT ![i] = None] /\ fleet' = [fleet EXCEPT ![i] = None]
      /\ UNCHANGED <<home, desired, known, online, owner, delivered, rec>>
  BY DEF Restart, store
<1>2. /\ agent' \in [conn : Conns \cup {None}, running : Sent \cup {Local},
                     status : Status \cup {None}, full : BOOLEAN, news : BOOLEAN]
      /\ agent'.conn = None /\ changes' \in 0..MaxChanges
  <2>1. changes' \in 0..MaxChanges
    BY DeliveryAssumption DEF Restart, TypeOK
  <2> QED
    BY <2>1 DEF Restart, TypeOK
<1>3. IdleHandler \in HandlerType /\ IdleHandler.pc = "idle" /\ IdlePush.pc = "idle"
      /\ IdlePush \in [pc : {"idle", "push", "send"}, to : Conns \cup {None}, config : Sent \cup {None}]
  BY DEF IdleHandler, HandlerType, NoReply, Reply, IdlePush
<1>4. TypeOK'
  BY <1>1, <1>2, <1>3 DEF TypeOK, HandlerType
<1>5. NoLeak' /\ Lives'
  BY <1>1 DEF NoLeak, Lives, TypeOK
<1>6. OpenConn' /\ InOrder' /\ Homes'
  BY <1>1, <1>2 DEF OpenConn, InOrder, Homes, TypeOK
<1>7. Handlers' /\ Sends'
  BY <1>1, <1>3 DEF Handlers, Sends, TypeOK
<1>8. SameRecord'
  BY <1>2 DEF SameRecord
<1>9. Fleets'
  <2> SUFFICES ASSUME NEW j \in Instances, fleet'[j] # None
               PROVE  /\ rec[fleet'[j]] # None
                      /\ conn'[fleet'[j]] # "closed" =>
                           live'[j] = fleet'[j] /\ rec[fleet'[j]].described
    BY <1>1 DEF Fleets
  <2>1. j # i /\ fleet'[j] = fleet[j] /\ fleet[j] \in Conns /\ live'[j] = live[j]
    BY <1>1 DEF TypeOK
  <2>2. conn'[fleet[j]] # "closed" => conn[fleet[j]] # "closed"
    BY <1>1, <2>1
  <2> QED
    BY <2>1, <2>2 DEF Fleets
<1>10. Holders'
  <2> SUFFICES ASSUME NEW q \in Conns, handler'[q].pc # "idle",
                      conn'[handler'[q].to] # "closed"
               PROVE  live'[home[q]] = handler'[q].to
    BY <1>1 DEF Holders
  <2>1. home[q] # i /\ handler'[q] = handler[q]
    BY <1>1, <1>3
  <2>2. handler[q].to \in Conns /\ home[q] \in Instances
    BY <2>1 DEF Handlers, Homes
  <2>3. conn[handler[q].to] # "closed"
    BY <1>1, <2>1, <2>2
  <2> QED
    BY <1>1, <2>1, <2>2, <2>3 DEF Holders, TypeOK
<1> QED
  BY <1>4, <1>5, <1>6, <1>7, <1>8, <1>9, <1>10

\* Every step keeps what Wires says.
LEMMA WiresStep == ASSUME Wires, [Next]_vars PROVE Wires'
<1>1. CASE UNCHANGED vars
  BY <1>1 DEF vars, store, wire, registry, Wires, TypeOK, NoLeak, OpenConn, InOrder, Homes, Handlers,
              Lives, Fleets, Holders, Sends, SameRecord
<1>2. CASE Next
  <2>1. ASSUME NEW k \in Conns, Handle(k) \/ Close(k) PROVE Wires'
    BY <2>1, FindOK, SetFleetIdOK, StageOnConnectOK, ReplyToOK, DisconnectOK, RemoveConnectionOK
       DEF Handle, Close
  <2>2. ASSUME NEW i \in Instances,
               \/ Reconcile(i) \/ Push(i) \/ PushSend(i) \/ Restart(i)
               \/ \E c \in Configs : Assign(i, c)
        PROVE  Wires'
    BY <2>2, PushOK, RestartOK
  <2> QED
    BY <1>2, <2>1, <2>2, SendReportOK, ApplyOK, BreakOK, ConnectOK DEF Next
<1> QED
  BY <1>1, <1>2

LEMMA WiresInit == ASSUME Init PROVE Wires
<1> USE NoneFacts
<1>1. IdleHandler \in HandlerType /\ IdleHandler.pc = "idle" /\ IdlePush.pc = "idle"
      /\ IdlePush \in [pc : {"idle", "push", "send"}, to : Conns \cup {None}, config : Sent \cup {None}]
  BY DEF IdleHandler, HandlerType, NoReply, Reply, IdlePush
<1>2. 0 \in 0..MaxChanges
  BY DeliveryAssumption
<1>3. TypeOK
  <2>1. /\ desired \in Configs \cup {None} /\ known \in BOOLEAN /\ online \in BOOLEAN
        /\ owner \in Instances \cup {None} /\ delivered \in Sent \cup {None}
    BY DeliveryAssumption DEF Init
  <2>2. agent \in [conn : Conns \cup {None}, running : Sent \cup {Local},
                   status : Status \cup {None}, full : BOOLEAN, news : BOOLEAN]
    BY DEF Init
  <2>3. /\ home \in [Conns -> Instances \cup {None}]
        /\ conn \in [Conns -> {"unused", "open", "broken", "closing", "closed"}]
        /\ up \in [Conns -> Report \cup {None}] /\ down \in [Conns -> Seq(Reply)]
        /\ rec \in [Conns -> Record \cup {None}] /\ live \in [Instances -> Conns \cup {None}]
        /\ fleet \in [Instances -> Conns \cup {None}]
    BY DEF Init
  <2>4. /\ handler \in [Conns -> HandlerType]
        /\ push \in [Instances -> [pc : {"idle", "push", "send"}, to : Conns \cup {None},
                                   config : Sent \cup {None}]]
    BY <1>1 DEF Init
  <2> QED
    BY <1>2, <2>1, <2>2, <2>3, <2>4 DEF Init, TypeOK, HandlerType
<1>4. NoLeak /\ OpenConn /\ InOrder /\ Homes /\ Lives
  BY DEF Init, NoLeak, OpenConn, InOrder, Homes, Lives
<1>5. Handlers /\ Sends /\ SameRecord /\ Fleets /\ Holders
  BY <1>1 DEF Init, Handlers, Sends, SameRecord, Fleets, Holders
<1> QED
  BY <1>3, <1>4, <1>5 DEF Wires

-----------------------------------------------------------------------------
(* What the agent last told the record, and what it has still to be told.   *)

\* The last status the server has been sent on connection k: on its way, taken
\* up by the handler, or in the record.
Latest(k) ==
  IF up[k] # None /\ up[k].status # None THEN up[k].status
  ELSE IF handler[k].pc \in {"found", "stage"} /\ handler[k].report.status # None
       THEN handler[k].report.status ELSE rec[k].status

\* A config is on its way to the agent, or the record is new and the report its
\* handler holds will be answered with one.
OnItsWay(k) ==
  \/ handler[k].pc = "found" /\ handler[k].to = k /\ ~rec[k].seen /\ rec[k].staged = None
  \/ handler[k].pc = "reply" /\ handler[k].reply.config # None
  \/ \E j \in 1..Len(down[k]) : down[k][j].config # None

\* An agent served by its own record has a config on its way to it, or has
\* applied one and told the record, or is about to.
HeardOn(k) ==
  \/ OnItsWay(k)
  \/ agent.status # None /\ (agent.news \/ Latest(k) = agent.status)

Heard == \A k \in Conns : agent.conn = k /\ live[home[k]] = k => HeardOn(k)

DeliveryStrong == Wires /\ Heard

\* A step that leaves the agent, the handler of its connection and the status in
\* its record alone, and takes nothing from the connection.
LEMMA HeardKept ==
  ASSUME Wires, NEW k \in Conns, HeardOn(k), UNCHANGED agent,
         up'[k] = up[k], handler'[k] = handler[k], rec'[k].status = rec[k].status,
         OnItsWay(k) => OnItsWay(k)'
  PROVE  HeardOn(k)'
<1>1. Latest(k)' = Latest(k)
  BY DEF Latest
<1> QED
  BY <1>1 DEF HeardOn

\* Appending to what is on its way loses nothing of it.
LEMMA SentIsOnItsWay ==
  ASSUME TypeOK, NEW q \in Conns, NEW m \in Reply, Send(q, m), NEW k \in Conns
  PROVE  /\ (\E j \in 1..Len(down[k]) : down[k][j].config # None)
              => \E j \in 1..Len(down'[k]) : down'[k][j].config # None
         /\ q = k /\ conn[k] = "open" /\ m.config # None
              => \E j \in 1..Len(down'[k]) : down'[k][j].config # None
<1>1. /\ \A p \in Conns \ {q} : down'[p] = down[p]
      /\ down'[q] = down[q] \/ down'[q] = Append(down[q], m)
      /\ conn[q] = "open" /\ m # NoReply => down'[q] = Append(down[q], m)
      /\ down[k] \in Seq(Reply)
  BY SendOK DEF TypeOK
<1>2. CASE down'[k] = Append(down[k], m)
  <2>1. /\ Len(down'[k]) = Len(down[k]) + 1 /\ down'[k][Len(down[k]) + 1] = m
        /\ \A j \in 1..Len(down[k]) : down'[k][j] = down[k][j]
        /\ Len(down[k]) \in Nat
    BY <1>1, <1>2
  <2>2. m.config # None => \E j \in 1..Len(down'[k]) : down'[k][j].config # None
    BY <2>1
  <2>3. ASSUME NEW j \in 1..Len(down[k]), down[k][j].config # None
        PROVE  \E p \in 1..Len(down'[k]) : down'[k][p].config # None
    <3>1. j \in 1..Len(down'[k]) /\ down'[k][j].config # None
      BY <2>1, <2>3
    <3> QED
      BY <3>1
  <2> QED
    BY <2>2, <2>3
<1>3. CASE down'[k] = down[k]
  <2>1. m.config # None => m # NoReply
    BY DEF NoReply
  <2> QED
    BY <1>1, <1>2, <1>3, <2>1
<1> QED
  BY <1>1, <1>2, <1>3

\* The records in the registry are used by connections, and the open one is the
\* latest: a record of the agent's own connection is worked on by no other.
LEMMA OwnRecord ==
  ASSUME Wires, NEW k \in Conns, agent.conn = k
  PROVE  /\ conn[k] = "open" /\ home[k] \in Instances
         /\ live[home[k]] = k => rec[k] \in Record
         /\ \A q \in Conns \ {k} : handler[q].pc # "idle" => handler[q].to # k
<1> USE NoneFacts DEF Wires
<1>1. conn[k] = "open" /\ home[k] \in Instances
  BY DEF OpenConn, Homes
<1>2. live[home[k]] = k => rec[k] \in Record
  BY <1>1 DEF Lives, TypeOK
<1>3. ASSUME NEW q \in Conns \ {k}, handler[q].pc # "idle" PROVE handler[q].to # k
  <2>1. ~(k < q)
    BY <1>3 DEF InOrder, Handlers
  <2>2. handler[q].to \in Conns /\ handler[q].to <= q
    BY <1>3 DEF Handlers
  <2> QED
    BY <2>1, <2>2, <1>3 DEF Conns
<1> QED
  BY <1>1, <1>2, <1>3

\* A report that is taken up leaves the last status where Latest finds it; a
\* record that is created will be answered with the empty config.
LEMMA FindHeard ==
  ASSUME Wires, Heard, NEW q \in Conns, FindOrCreateAgent(q), NEW k \in Conns,
         agent'.conn = k, live'[home'[k]] = k
  PROVE  HeardOn(k)'
<1> USE NoneFacts
<1>1. /\ conn[q] = "open" /\ up[q] \in Report /\ handler[q].pc = "idle"
      /\ live[home[q]] # None => rec'[q] = rec[q]
      /\ live[home[q]] = None => ~rec'[q].seen /\ rec'[q].staged = None
      /\ handler'[q].pc = "found" /\ handler'[q].to = RecordFor(q)
      /\ handler'[q].report = up[q]
      /\ up' = [up EXCEPT ![q] = None] /\ live' = [live EXCEPT ![home[q]] = RecordFor(q)]
      /\ UNCHANGED <<home, agent, conn, down>>
  BY FindFacts
<1>2. /\ home[q] \in Instances /\ agent.conn = q
      /\ live[home[q]] # None => RecordFor(q) = live[home[q]]
  BY <1>1, RecordForOK
<1>4. k = q /\ RecordFor(k) = k /\ up'[k] = None
  BY <1>1, <1>2 DEF Wires, TypeOK
<1>5. CASE live[home[k]] = None
  BY <1>1, <1>4, <1>5 DEF HeardOn, OnItsWay
<1>6. CASE live[home[k]] # None
  <2>1. HeardOn(k)
    BY <1>2, <1>4, <1>6 DEF Heard
  <2>2. Latest(k)' = Latest(k)
    BY <1>1, <1>4, <1>6 DEF Latest
  <2>3. OnItsWay(k) => OnItsWay(k)'
    BY <1>1, <1>4 DEF OnItsWay
  <2> QED
    BY <1>1, <2>1, <2>2, <2>3 DEF HeardOn
<1> QED
  BY <1>5, <1>6

LEMMA SetFleetIdHeard ==
  ASSUME Wires, Heard, NEW q \in Conns, SetFleetId(q), NEW k \in Conns,
         agent'.conn = k, live'[home'[k]] = k
  PROVE  HeardOn(k)'
<1> USE NoneFacts
<1>1. /\ handler[q].pc = "found" /\ handler[q].report \in Report
      /\ \A p \in Conns \ {handler[q].to} : rec'[p] = rec[p]
      /\ handler'[q].pc \in {"stage", "reply"}
      /\ handler'[q].pc = "stage" => handler'[q].report = handler[q].report
      /\ \A p \in Conns \ {q} : handler'[p] = handler[p]
      /\ rec'[handler[q].to].status =
           IF handler'[q].pc = "reply" /\ handler[q].report.status # None
           THEN handler[q].report.status ELSE rec[handler[q].to].status
      /\ ~rec[handler[q].to].seen /\ rec[handler[q].to].staged = None =>
           handler'[q].pc = "reply" /\ handler'[q].reply.config # None
  BY SetFleetIdFacts
<1>2. UNCHANGED <<agent, home, conn, up, down, live>>
  BY DEF SetFleetId, wire
<1>3. agent.conn = k /\ live[home[k]] = k /\ HeardOn(k)
  BY <1>2 DEF Heard
<1>4. CASE q = k
  <2>1. handler[k].to = k
    BY <1>1, <1>3, <1>4 DEF Wires, SameRecord
  <2>2. Latest(k)' = Latest(k)
    BY <1>1, <1>2, <1>4, <2>1 DEF Latest
  <2>3. OnItsWay(k) => OnItsWay(k)'
    BY <1>1, <1>2, <1>4, <2>1 DEF OnItsWay
  <2> QED
    BY <1>2, <1>3, <2>2, <2>3 DEF HeardOn
<1>5. CASE q # k
  <2>1. handler[q].to # k
    BY <1>1, <1>3, <1>5, OwnRecord
  <2>2. rec'[k] = rec[k] /\ handler'[k] = handler[k]
    BY <1>1, <1>5, <2>1
  <2>3. OnItsWay(k) => OnItsWay(k)'
    BY <1>2, <2>2 DEF OnItsWay
  <2> QED
    BY <1>2, <1>3, <2>2, <2>3, HeardKept
<1> QED
  BY <1>4, <1>5

LEMMA StageOnConnectHeard ==
  ASSUME Wires, Heard, NEW q \in Conns, StageOnConnect(q), NEW k \in Conns,
         agent'.conn = k, live'[home'[k]] = k
  PROVE  HeardOn(k)'
<1> USE NoneFacts
<1>1. /\ handler[q].report \in Report
      /\ rec'[handler[q].to].status = IF handler[q].report.status = None
                                      THEN rec[handler[q].to].status
                                      ELSE handler[q].report.status
      /\ \A p \in Conns \ {handler[q].to} : rec'[p] = rec[p]
      /\ handler'[q].pc = "reply" /\ \A p \in Conns \ {q} : handler'[p] = handler[p]
  BY StageOnConnectOK
<1>2. handler[q].pc = "stage" /\ UNCHANGED <<agent, home, conn, up, down, live>>
  BY DEF StageOnConnect, wire, registry
<1>3. agent.conn = k /\ live[home[k]] = k /\ HeardOn(k)
  BY <1>2 DEF Heard
<1>4. CASE q = k
  <2>1. handler[k].to = k
    BY <1>2, <1>3, <1>4 DEF Wires, SameRecord
  <2>2. Latest(k)' = Latest(k)
    BY <1>1, <1>2, <1>4, <2>1 DEF Latest
  <2>3. OnItsWay(k) => OnItsWay(k)'
    BY <1>2, <1>4 DEF OnItsWay
  <2> QED
    BY <1>2, <1>3, <2>2, <2>3 DEF HeardOn
<1>5. CASE q # k
  <2>1. handler[q].to # k
    BY <1>2, <1>3, <1>5, OwnRecord
  <2>2. rec'[k] = rec[k] /\ handler'[k] = handler[k]
    BY <1>1, <1>5, <2>1
  <2>3. OnItsWay(k) => OnItsWay(k)'
    BY <1>2, <2>2 DEF OnItsWay
  <2> QED
    BY <1>2, <1>3, <2>2, <2>3, HeardKept
<1> QED
  BY <1>4, <1>5

\* The answer is on the connection once the handler has returned.
LEMMA ReplyToHeard ==
  ASSUME Wires, Heard, NEW q \in Conns, ReplyTo(q), NEW k \in Conns,
         agent'.conn = k, live'[home'[k]] = k
  PROVE  HeardOn(k)'
<1>1. /\ handler[q].pc = "reply" /\ handler[q].reply \in Reply /\ Send(q, handler[q].reply)
      /\ handler' = [handler EXCEPT ![q] = IdleHandler]
      /\ UNCHANGED <<agent, home, conn, up, rec, live>>
  BY DEF ReplyTo, Wires, TypeOK, registry
<1>2. agent.conn = k /\ live[home[k]] = k /\ HeardOn(k)
  BY <1>1 DEF Heard
<1>3. TypeOK
  BY DEF Wires
<1>4. CASE q = k
  <2>1. conn[k] = "open"
    BY <1>2, OwnRecord
  <2>2. OnItsWay(k) => OnItsWay(k)'
    BY <1>1, <1>3, <1>4, <2>1, SentIsOnItsWay DEF OnItsWay
  <2>3. handler'[k].pc = "idle"
    BY <1>1, <1>4 DEF Wires, TypeOK, IdleHandler
  <2>4. Latest(k)' = Latest(k)
    BY <1>1, <1>4, <2>3 DEF Latest
  <2> QED
    BY <1>1, <1>2, <2>2, <2>4 DEF HeardOn
<1>5. CASE q # k
  <2>1. handler'[k] = handler[k]
    BY <1>1, <1>3, <1>5 DEF TypeOK
  <2>2. OnItsWay(k) => OnItsWay(k)'
    BY <1>1, <1>3, <2>1, SentIsOnItsWay DEF OnItsWay
  <2> QED
    BY <1>1, <1>2, <2>1, <2>2, HeardKept
<1> QED
  BY <1>4, <1>5

\* An agent that takes a config has news of it; otherwise the rest is still on
\* its way.
LEMMA ApplyHeard ==
  ASSUME Wires, Heard, Apply, NEW k \in Conns, agent'.conn = k, live'[home'[k]] = k
  PROVE  HeardOn(k)'
<1> DEFINE m == Head(down[k])
<1> USE NoneFacts
<1>1. /\ agent.conn \in Conns /\ down[agent.conn] \in Seq(Reply) /\ down[agent.conn] # <<>>
      /\ down' = [down EXCEPT ![agent.conn] = Tail(@)]
      /\ UNCHANGED <<home, conn, up, rec, live, handler>>
  BY DEF Apply, Wires, TypeOK, registry
<1>2. agent.conn = k
  BY DEF Apply, Wires, TypeOK
<1>3. HeardOn(k)
  BY <1>1, <1>2 DEF Heard
<1>4. m \in Reply
  BY <1>1, <1>2
<1>5. CASE m.config = None
  <2>1. agent'.status = agent.status /\ agent'.news = agent.news
    BY <1>2, <1>5 DEF Apply, Wires, TypeOK
  <2>2. Latest(k)' = Latest(k)
    BY <1>1 DEF Latest
  <2>3. ASSUME NEW j \in 1..Len(down[k]), down[k][j].config # None
        PROVE  \E p \in 1..Len(down'[k]) : down'[k][p].config # None
    <3>1. /\ down'[k] = Tail(down[k]) /\ Len(down'[k]) = Len(down[k]) - 1
          /\ Len(down[k]) \in Nat /\ down[k][1] = m
          /\ \A p \in 1..Len(down'[k]) : down'[k][p] = down[k][p + 1]
      BY <1>1, <1>2 DEF Wires, TypeOK
    <3>2. j # 1
      BY <1>5, <2>3, <3>1
    <3>3. j - 1 \in 1..Len(down'[k]) /\ down'[k][j - 1].config # None
      BY <2>3, <3>1, <3>2
    <3> QED
      BY <3>3
  <2>4. OnItsWay(k) => OnItsWay(k)'
    BY <1>1, <2>3 DEF OnItsWay
  <2> QED
    BY <1>3, <2>1, <2>2, <2>4 DEF HeardOn
<1>6. CASE m.config # None
  <2>1. m.config \in Sent
    BY <1>4, <1>6 DEF Reply
  <2>2. [hash |-> m.config, failed |-> m.config \in Rejected] \in Status
    BY <2>1 DEF Status
  <2>3. /\ agent'.news
        /\ agent'.status = [hash |-> m.config, failed |-> m.config \in Rejected]
    BY <1>2, <1>6 DEF Apply, Wires, TypeOK
  <2> QED
    BY <2>2, <2>3 DEF HeardOn
<1> QED
  BY <1>5, <1>6

\* A report carries the agent's status when there is news of it.
LEMMA SendReportHeard ==
  ASSUME Wires, Heard, SendReport, NEW k \in Conns, agent'.conn = k, live'[home'[k]] = k
  PROVE  HeardOn(k)'
<1> USE NoneFacts
<1>1. agent.conn = k /\ agent'.status = agent.status /\ up[k] = None
  BY DEF SendReport, Wires, TypeOK
<1>2. /\ UNCHANGED <<home, conn, down, rec, live, handler>>
      /\ up'[k] = [desc |-> agent.full,
                   status |-> IF agent.full \/ agent.news THEN agent.status ELSE None]
  BY <1>1 DEF SendReport, Wires, TypeOK, registry
<1>3. HeardOn(k)
  BY <1>1, <1>2 DEF Heard
<1>4. up'[k] # None
  <2>1. up'[k] \in Report
    BY <1>2 DEF Report, Wires, TypeOK
  <2> QED
    BY <2>1
<1>5. OnItsWay(k) => OnItsWay(k)'
  BY <1>2 DEF OnItsWay
<1>6. ASSUME agent.status # None, agent.news \/ Latest(k) = agent.status
      PROVE  Latest(k)' = agent.status
  BY <1>1, <1>2, <1>4, <1>6 DEF Latest
<1> QED
  BY <1>1, <1>3, <1>5, <1>6 DEF HeardOn

\* A push changes what is staged and adds to what is on its way.
LEMMA PushHeard ==
  ASSUME Wires, Heard, NEW i \in Instances,
         Reconcile(i) \/ Push(i) \/ PushSend(i) \/ \E c \in Configs : Assign(i, c),
         NEW k \in Conns, agent'.conn = k, live'[home'[k]] = k
  PROVE  HeardOn(k)'
<1> USE NoneFacts
<1>1. UNCHANGED <<agent, home, conn, up, live, handler>>
  BY DEF Reconcile, Push, PushSend, Assign, wire, registry
<1>2. agent.conn = k /\ live[home[k]] = k /\ HeardOn(k)
  BY <1>1 DEF Heard
<1>3. rec[k] \in Record
  BY <1>2, OwnRecord
<1>4. rec'[k].status = rec[k].status /\ (~rec[k].seen => rec'[k] = rec[k])
  <2>1. CASE Push(i)
    <3>1. CASE UNCHANGED rec
      BY <3>1
    <3>2. CASE /\ fleet[i] # None /\ rec[fleet[i]].seen
               /\ rec' = [rec EXCEPT ![fleet[i]] = Stage(@, push[i].config)]
      <4>1. Stage(rec[k], push[i].config).status = rec[k].status
        BY <1>3 DEF Stage, Record
      <4> QED
        BY <3>2, <4>1 DEF Wires, TypeOK
    <3> QED
      BY <2>1, <3>1, <3>2 DEF Push
  <2> QED
    BY <2>1 DEF Reconcile, PushSend, Assign
<1>5. OnItsWay(k) => OnItsWay(k)'
  <2>1. CASE PushSend(i)
    <3>1. push[i].to \in Conns /\ [config |-> push[i].config, full |-> FALSE] \in Reply
      BY <2>1 DEF PushSend, Wires, Sends, TypeOK, Reply
    <3>2. TypeOK
      BY DEF Wires
    <3> QED
      BY <1>1, <1>4, <2>1, <3>1, <3>2, SentIsOnItsWay DEF PushSend, OnItsWay
  <2>2. CASE ~PushSend(i)
    <3>1. UNCHANGED down
      BY <2>2 DEF Reconcile, Push, Assign, wire
    <3> QED
      BY <1>1, <1>4, <3>1 DEF OnItsWay
  <2> QED
    BY <2>1, <2>2
<1> QED
  BY <1>1, <1>2, <1>4, <1>5, HeardKept

\* The end of another connection does not touch the agent's record.
LEMMA CloseHeard ==
  ASSUME Wires, Heard, NEW q \in Conns, Close(q), NEW k \in Conns,
         agent'.conn = k, live'[home'[k]] = k
  PROVE  HeardOn(k)'
<1> USE NoneFacts
<1>1. UNCHANGED <<agent, home, up, down, handler>> /\ conn[q] \in {"broken", "closing"}
  BY DEF Close, Disconnect, RemoveConnection
<1>2. agent.conn = k /\ conn[k] = "open" /\ home[k] \in Instances /\ q # k
  BY <1>1, OwnRecord
<1>3. live[home[k]] = k /\ rec'[k] = rec[k]
  <2>1. CASE Disconnect(q)
    BY <1>1, <2>1 DEF Disconnect, registry
  <2>2. CASE RemoveConnection(q)
    BY <1>1, <1>2, <2>2 DEF RemoveConnection, Wires, TypeOK, Homes
  <2> QED
    BY <2>1, <2>2 DEF Close
<1>4. HeardOn(k)
  BY <1>2, <1>3 DEF Heard
<1>5. OnItsWay(k) => OnItsWay(k)'
  BY <1>1, <1>3 DEF OnItsWay
<1> QED
  BY <1>1, <1>3, <1>4, <1>5, HeardKept

\* No record is in the registry under a connection that was never used.
LEMMA NewConnection ==
  ASSUME Wires, NEW q \in Conns, NEW i \in Instances, Connect(q, i), NEW k \in Conns,
         agent'.conn = k, live'[home'[k]] = k
  PROVE  FALSE
<1>1. k = q /\ home'[k] = i /\ conn[k] = "unused" /\ live' = live
  BY DEF Connect, Wires, TypeOK, registry
<1> QED
  BY <1>1, NoneFacts DEF Wires, NoLeak

LEMMA HeardStep == ASSUME Wires, Heard, [Next]_vars PROVE Heard'
<1> SUFFICES ASSUME NEW k \in Conns, agent'.conn = k, live'[home'[k]] = k
             PROVE  HeardOn(k)'
  BY DEF Heard
<1>1. CASE UNCHANGED vars
  <2>1. HeardOn(k)
    BY <1>1 DEF Heard, vars, wire, registry
  <2> QED
    BY <1>1, <2>1 DEF HeardOn, OnItsWay, Latest, vars, wire, registry
<1>2. CASE Break \/ \E i \in Instances : Restart(i)
  <2>1. agent'.conn = None
    BY <1>2 DEF Break, Restart, Wires, TypeOK
  <2> QED
    BY <2>1, NoneFacts
<1>3. CASE \E q \in Conns : Handle(q) \/ Close(q)
  BY <1>3, FindHeard, SetFleetIdHeard, StageOnConnectHeard, ReplyToHeard, CloseHeard DEF Handle
<1>4. CASE \E q \in Conns, i \in Instances : Connect(q, i)
  BY <1>4, NewConnection
<1>5. CASE \E i \in Instances : \/ Reconcile(i) \/ Push(i) \/ PushSend(i)
                                \/ \E c \in Configs : Assign(i, c)
  BY <1>5, PushHeard
<1> QED
  BY <1>1, <1>2, <1>3, <1>4, <1>5, ApplyHeard, SendReportHeard DEF Next

\* When nothing is underway the record knows what the agent was last given.
LEMMA HeardReaches == ASSUME Wires, Heard PROVE StagedReaches
<1> SUFFICES ASSUME Quiet, live[home[agent.conn]] = agent.conn
             PROVE  LET r == rec[agent.conn] IN
                    \/ agent.status # None /\ agent.status.hash = r.staged
                    \/ r.status # None /\ r.status.hash # r.staged
  BY DEF StagedReaches
<1>1. /\ agent.conn \in Conns /\ ~agent.news /\ up[agent.conn] = None
      /\ down[agent.conn] = <<>> /\ handler[agent.conn].pc = "idle"
  BY DEF Quiet, Wires, TypeOK
<1>2. ~OnItsWay(agent.conn) /\ Latest(agent.conn) = rec[agent.conn].status
  BY <1>1 DEF OnItsWay, Latest
<1>3. HeardOn(agent.conn)
  BY <1>1 DEF Heard
<1> QED
  BY <1>1, <1>2, <1>3 DEF HeardOn

\* Whatever breaks, restarts or is assigned, a record in agentsById belongs to a
\* connection whose end is still to be handled (in agentsByFleetId it need not),
\* and a staged config is the last
\* one the agent was given or is known not to be, so that the push that finds it
\* staged already may send nothing (FindOrCreateAgent, RemoveConnection,
\* processStatusUpdate, SendConfigToAgentWithContext).
THEOREM DeliveryHolds == Spec => []DeliveryInv
<1>1. Init => DeliveryStrong
  <2> SUFFICES ASSUME Init PROVE Wires /\ Heard
    BY DEF DeliveryStrong
  <2>1. agent.conn = None
    BY DEF Init
  <2>2. Heard
    BY <2>1, NoneFacts DEF Heard
  <2> QED
    BY <2>2, WiresInit
<1>2. DeliveryStrong /\ [Next]_vars => DeliveryStrong'
  BY WiresStep, HeardStep DEF DeliveryStrong
<1>3. DeliveryStrong => DeliveryInv
  BY HeardReaches DEF DeliveryStrong, DeliveryInv, Wires
<1> QED
  BY <1>1, <1>2, <1>3, PTL DEF Spec

=============================================================================
