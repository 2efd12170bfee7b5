------------------------- MODULE EventFanoutProofs -------------------------
(***************************************************************************)
(* FanoutInv holds for any number of events, subscriptions, destinations   *)
(* and workers, any buffer and queue, any number of retries and edits.     *)
(* The two halves of the fan-out are proved one after the other.           *)
(*                                                                         *)
(* The broker: an event has an audience only once Publish ran, what is     *)
(* left to do is a part of the audience, and what a subscription kept has  *)
(* no event twice, so that every offer adds one to either side of the      *)
(* account (EventInv, KeptInv).                                            *)
(*                                                                         *)
(* The dispatcher: the map leads to a started worker of that destination,  *)
(* and what a worker holds has a row (MapInv, WorkerInv).                  *)
(***************************************************************************)
EXTENDS EventFanout, SequenceTheorems, FiniteSetTheorems, TLAPS

BrokerType ==
  /\ pc \in [Events -> {"idle", "stored", "publishing", "published", "done", "failed"}]
  /\ rows \subseteq Events
  /\ audience \in [Events -> SUBSET Subs] /\ todo \in [Events -> SUBSET Subs]
  /\ sub \in [Subs -> {"none", "open", "closing", "removed", "closed"}]
  /\ buffer \in [Subs -> Seq(Events)] /\ received \in [Subs -> Seq(Events)]
  /\ \A s \in Subs : Len(buffer[s]) <= BufSize
  /\ dropped \in [Subs -> Nat]

EventInv ==
  \A e \in Events :
    /\ pc[e] \in {"idle", "stored", "failed"} => audience[e] = {}
    /\ pc[e] \in {"stored", "publishing", "published", "done"} => e \in rows
    /\ todo[e] \subseteq audience[e]

Offered(s) == {e \in Events : s \in audience[e] \ todo[e]}
Kept(s) == received[s] \o buffer[s]

Account(s) ==
  /\ IsFiniteSet(Offered(s))
  /\ \A n \in 1..Len(Kept(s)) : Kept(s)[n] \in Offered(s)
  /\ \A m, n \in 1..Len(Kept(s)) : Kept(s)[m] = Kept(s)[n] => m = n
  /\ Cardinality(Offered(s)) = Len(Kept(s)) + dropped[s]

KeptInv == \A s \in Subs : Account(s)

BrokerInv == BrokerType /\ NoSendOnClosed /\ EventInv /\ KeptInv

-----------------------------------------------------------------------------
(* Sequences. *)

\* The elements of received[s] \o buffer[s], by position.
LEMMA ConcatAt ==
  ASSUME NEW q \in Seq(Events), NEW r \in Seq(Events)
  PROVE  /\ q \o r \in Seq(Events)
         /\ Len(q) \in Nat /\ Len(r) \in Nat
         /\ Len(q \o r) = Len(q) + Len(r)
         /\ \A n \in 1..Len(q) : (q \o r)[n] = q[n]
         /\ \A n \in 1..Len(r) : (q \o r)[Len(q) + n] = r[n]
         /\ \A n \in (Len(q) + 1)..(Len(q) + Len(r)) : (q \o r)[n] = r[n - Len(q)]
  OBVIOUS

\* One more element in the buffer is one more at the end.
LEMMA ConcatAppend ==
  ASSUME NEW q \in Seq(Events), NEW r \in Seq(Events), NEW e \in Events
  PROVE  /\ Len(q \o Append(r, e)) = Len(q \o r) + 1
         /\ Len(q \o r) \in Nat
         /\ \A n \in 1..Len(q \o r) : (q \o Append(r, e))[n] = (q \o r)[n]
         /\ (q \o Append(r, e))[Len(q \o r) + 1] = e
<1>1. /\ Append(r, e) \in Seq(Events) /\ Len(Append(r, e)) = Len(r) + 1
      /\ \A n \in 1..Len(r) : Append(r, e)[n] = r[n]
      /\ Append(r, e)[Len(r) + 1] = e
  OBVIOUS
<1>2. Len(q) \in Nat /\ Len(r) \in Nat /\ Len(q \o r) = Len(q) + Len(r)
      /\ Len(q \o Append(r, e)) = Len(q) + Len(r) + 1
  BY <1>1
<1>3. (q \o Append(r, e))[Len(q) + (Len(r) + 1)] = e
  BY <1>1, <1>2, ConcatAt
<1>4. ASSUME NEW n \in 1..Len(q \o r) PROVE (q \o Append(r, e))[n] = (q \o r)[n]
  <2>1. CASE n \in 1..Len(q)
    BY <2>1, <1>1, ConcatAt
  <2>2. CASE n \in (Len(q) + 1)..(Len(q) + Len(r))
    <3>1. n - Len(q) \in 1..Len(r) /\ n \in (Len(q) + 1)..(Len(q) + Len(Append(r, e)))
      BY <2>2, <1>1, <1>2
    <3>2. (q \o r)[n] = r[n - Len(q)]
      BY <2>2, ConcatAt
    <3>3. (q \o Append(r, e))[n] = Append(r, e)[n - Len(q)]
      BY <3>1, <1>1, ConcatAt
    <3> QED BY <3>1, <3>2, <3>3, <1>1
  <2> QED BY <2>1, <2>2, <1>2
<1> QED BY <1>2, <1>3, <1>4

\* Reading moves the border between the two.
LEMMA ConcatRead ==
  ASSUME NEW q \in Seq(Events), NEW r \in Seq(Events), r # <<>>
  PROVE  /\ Append(q, Head(r)) \in Seq(Events) /\ Tail(r) \in Seq(Events)
         /\ Len(Tail(r)) <= Len(r)
         /\ Len(Append(q, Head(r)) \o Tail(r)) = Len(q \o r)
         /\ \A n \in 1..Len(q \o r) : (Append(q, Head(r)) \o Tail(r))[n] = (q \o r)[n]
<1>1. /\ Head(r) \in Events /\ Head(r) = r[1] /\ Tail(r) \in Seq(Events)
      /\ Len(q) \in Nat /\ Len(r) \in Nat \ {0} /\ Len(Tail(r)) = Len(r) - 1
      /\ \A n \in 1..(Len(r) - 1) : Tail(r)[n] = r[n + 1]
  OBVIOUS
<1>2. PICK h \in Events : h = Head(r)
  BY <1>1
<1>3. /\ Append(q, h) \in Seq(Events) /\ Len(Append(q, h)) = Len(q) + 1
      /\ \A n \in 1..Len(q) : Append(q, h)[n] = q[n]
      /\ Append(q, h)[Len(q) + 1] = h
  OBVIOUS
<1>4. PICK t \in Seq(Events) : t = Tail(r)
  BY <1>1
<1>5. /\ Len(q \o r) = Len(q) + Len(r)
      /\ Len(Append(q, h) \o t) = (Len(q) + 1) + (Len(r) - 1)
  BY <1>1, <1>3, <1>4, ConcatAt
<1>6. ASSUME NEW n \in 1..Len(q \o r) PROVE (Append(q, h) \o t)[n] = (q \o r)[n]
  <2>1. CASE n \in 1..Len(q)
    <3>1. n \in 1..Len(Append(q, h))
      BY <2>1, <1>1, <1>3
    <3>2. (Append(q, h) \o t)[n] = Append(q, h)[n]
      BY <3>1, <1>3, ConcatAt
    <3> QED BY <2>1, <3>2, <1>3, ConcatAt
  <2>2. CASE n = Len(q) + 1
    <3>1. n \in 1..Len(Append(q, h)) /\ n \in (Len(q) + 1)..(Len(q) + Len(r)) /\ n - Len(q) = 1
      BY <2>2, <1>1, <1>3
    <3>2. (Append(q, h) \o t)[n] = Append(q, h)[n]
      BY <3>1, <1>3, ConcatAt
    <3>3. (q \o r)[n] = r[n - Len(q)]
      BY <3>1, ConcatAt
    <3> QED BY <2>2, <3>1, <3>2, <3>3, <1>1, <1>2, <1>3
  <2>3. CASE n \in (Len(q) + 2)..(Len(q) + Len(r))
    <3>1. /\ n \in (Len(Append(q, h)) + 1)..(Len(Append(q, h)) + Len(t))
          /\ n \in (Len(q) + 1)..(Len(q) + Len(r))
          /\ n - Len(Append(q, h)) \in 1..(Len(r) - 1)
          /\ (n - Len(Append(q, h))) + 1 = n - Len(q)
      BY <2>3, <1>1, <1>3, <1>4
    <3>2. (Append(q, h) \o t)[n] = t[n - Len(Append(q, h))]
      BY <3>1, <1>3, ConcatAt
    <3>3. (q \o r)[n] = r[n - Len(q)]
      BY <3>1, ConcatAt
    <3>4. t[n - Len(Append(q, h))] = r[(n - Len(Append(q, h))) + 1]
      BY <3>1, <1>1, <1>4
    <3> QED BY <3>1, <3>2, <3>3, <3>4
  <2> QED BY <2>1, <2>2, <2>3, <1>1, <1>5
<1> QED BY <1>1, <1>2, <1>3, <1>4, <1>5, <1>6

\* A sequence without repetition has as many elements as positions.
LEMMA NoRepetition ==
  ASSUME NEW q \in Seq(Events), \A m, n \in 1..Len(q) : q[m] = q[n] => m = n
  PROVE  Cardinality({q[n] : n \in 1..Len(q)}) = Len(q)
<1> DEFINE T == {q[n] : n \in 1..Len(q)}
<1>1. Len(q) \in Nat /\ q = [n \in 1..Len(q) |-> q[n]]
  OBVIOUS
<1>2. q \in [1..Len(q) -> T]
  BY <1>1
<1>3. q \in Injection(1..Len(q), T)
  BY <1>2 DEF Injection, IsInjective
<1>4. q \in Surjection(1..Len(q), T)
  BY <1>2 DEF Surjection
<1>5. IsFiniteSet(1..Len(q)) /\ Cardinality(1..Len(q)) = Len(q)
  <2>1. PICK k \in Nat : k = Len(q)
    BY <1>1
  <2>2. 1 \in Int /\ k \in Int /\ (IF 1 > k THEN 0 ELSE k - 1 + 1) = k
    OBVIOUS
  <2>3. IsFiniteSet(1..k) /\ Cardinality(1..k) = k
    BY <2>2, FS_Interval
  <2> QED BY <2>1, <2>3
<1> HIDE DEF T
<1>6. Cardinality(T) = Cardinality(1..Len(q))
  BY <1>3, <1>4, <1>5, FS_Surjection
<1> QED BY <1>5, <1>6 DEF T

LEMMA AccountsAreRight ==
  ASSUME BrokerType, KeptInv PROVE Accounted
<1> SUFFICES ASSUME NEW s \in Subs
             PROVE  /\ {Kept(s)[n] : n \in 1..Len(Kept(s))} \subseteq Offered(s)
                    /\ Cardinality({Kept(s)[n] : n \in 1..Len(Kept(s))}) = Len(Kept(s))
                    /\ Cardinality(Offered(s)) = Len(Kept(s)) + dropped[s]
  BY DEF Accounted, Kept, Offered
<1>1. Account(s)
  BY DEF KeptInv
<1>2. Kept(s) \in Seq(Events)
  BY DEF BrokerType, Kept
<1>3. Cardinality({Kept(s)[n] : n \in 1..Len(Kept(s))}) = Len(Kept(s))
  BY <1>1, <1>2, NoRepetition DEF Account
<1> QED BY <1>1, <1>3 DEF Account

-----------------------------------------------------------------------------
(* The broker. *)

\* A step after which a subscription was offered and kept what it was before.
LEMMA SameAccount ==
  ASSUME NEW s \in Subs, Account(s), BrokerType,
         \A e \in Events : s \in (audience[e] \ todo[e])' <=> s \in audience[e] \ todo[e],
         Len(Kept(s)') = Len(Kept(s)),
         \A n \in 1..Len(Kept(s)) : Kept(s)'[n] = Kept(s)[n],
         dropped'[s] = dropped[s]
  PROVE  Account(s)'
<1>1. Offered(s)' = Offered(s)
  BY DEF Offered
<1> QED BY <1>1 DEF Account

LEMMA SameAccounts ==
  ASSUME BrokerType, KeptInv, UNCHANGED <<received, buffer, dropped>>,
         \A s \in Subs, e \in Events :
           s \in (audience[e] \ todo[e])' <=> s \in audience[e] \ todo[e]
  PROVE  KeptInv'
<1>1. \A s \in Subs : Kept(s)' = Kept(s)
  BY DEF Kept
<1> QED BY <1>1, SameAccount DEF KeptInv

\* A step of a Record call before and after the loop of Publish.
LEMMA PcMoves ==
  ASSUME BrokerInv, NEW e \in Events,
         NEW p \in {"idle", "stored", "publishing", "published", "done", "failed"},
         pc' = [pc EXCEPT ![e] = p], UNCHANGED broker,
         rows' \subseteq Events, rows \subseteq rows',
         p \in {"stored", "published", "done"} => e \in rows',
         p # "publishing",
         p \in {"idle", "stored", "failed"} => pc[e] \in {"idle", "stored", "failed"}
  PROVE  BrokerInv'
<1>1. UNCHANGED <<audience, todo, sub, buffer, received, dropped>>
  BY DEF broker
<1>2. pc'[e] = p /\ \A x \in Events \ {e} : pc'[x] = pc[x]
  BY DEF BrokerInv, BrokerType
<1>3. BrokerType'
  BY <1>1 DEF BrokerInv, BrokerType
<1>4. NoSendOnClosed'
  BY <1>1, <1>2 DEF BrokerInv, NoSendOnClosed, Publishing
<1>5. EventInv'
  BY <1>1, <1>2 DEF BrokerInv, EventInv
<1>6. KeptInv'
  BY <1>1, SameAccounts DEF BrokerInv
<1> QED BY <1>3, <1>4, <1>5, <1>6 DEF BrokerInv

\* Publish finds its audience.
LEMMA PublishStep ==
  ASSUME BrokerInv, NEW e \in Events, Publish(e) PROVE BrokerInv'
<1> DEFINE A == {s \in Subs : sub[s] \in {"open", "closing"}}
<1>1. /\ pc[e] = "stored" /\ UNCHANGED <<rows, sub, buffer, received, dropped>>
      /\ pc'[e] = "publishing" /\ \A x \in Events \ {e} : pc'[x] = pc[x]
      /\ audience'[e] = A /\ \A x \in Events \ {e} : audience'[x] = audience[x]
      /\ todo'[e] = A /\ \A x \in Events \ {e} : todo'[x] = todo[x]
  BY DEF Publish, BrokerInv, BrokerType
<1>2. audience[e] = {} /\ e \in rows
  BY <1>1 DEF BrokerInv, EventInv
<1>3. BrokerType'
  BY <1>1 DEF Publish, BrokerInv, BrokerType
<1>4. NoSendOnClosed'
  BY <1>1 DEF BrokerInv, NoSendOnClosed, Publishing
<1>5. EventInv'
  BY <1>1, <1>2 DEF BrokerInv, EventInv
<1>6. KeptInv'
  BY <1>1, <1>2, SameAccounts DEF BrokerInv
<1> QED BY <1>3, <1>4, <1>5, <1>6 DEF BrokerInv

\* One subscription is served: it keeps the event, or the drop is counted.
LEMMA OfferAccount ==
  ASSUME BrokerInv, NEW e \in Events, NEW s \in Subs, Offer(e, s)
  PROVE  Account(s)'
<1>1. /\ s \in todo[e] /\ s \in audience[e] /\ UNCHANGED <<audience, received>>
      /\ todo'[e] = todo[e] \ {s} /\ \A x \in Events \ {e} : todo'[x] = todo[x]
  BY DEF Offer, BrokerInv, BrokerType, EventInv
<1>2. e \notin Offered(s) /\ Offered(s)' = Offered(s) \cup {e}
  BY <1>1 DEF Offered
<1>3. Account(s) /\ Kept(s) \in Seq(Events) /\ Len(Kept(s)) \in Nat /\ dropped[s] \in Nat
  BY DEF BrokerInv, BrokerType, KeptInv, Kept
<1>4. /\ IsFiniteSet(Offered(s)')
      /\ Cardinality(Offered(s)') = Len(Kept(s)) + dropped[s] + 1
  BY <1>2, <1>3, FS_AddElement DEF Account
<1>5. CASE buffer' = [buffer EXCEPT ![s] = Append(@, e)] /\ UNCHANGED dropped
  <2>1. Kept(s)' = received[s] \o Append(buffer[s], e)
    BY <1>1, <1>5 DEF Kept, BrokerInv, BrokerType
  <2>2. /\ Len(Kept(s)') = Len(Kept(s)) + 1
        /\ \A n \in 1..Len(Kept(s)) : Kept(s)'[n] = Kept(s)[n]
        /\ Kept(s)'[Len(Kept(s)) + 1] = e
    BY <2>1, ConcatAppend DEF Kept, BrokerInv, BrokerType
  <2>3. \A n \in 1..Len(Kept(s)') : Kept(s)'[n] \in Offered(s)'
    BY <2>2, <1>2, <1>3 DEF Account
  <2>4. \A m, n \in 1..Len(Kept(s)') : Kept(s)'[m] = Kept(s)'[n] => m = n
    <3> SUFFICES ASSUME NEW m \in 1..(Len(Kept(s)) + 1), NEW n \in 1..(Len(Kept(s)) + 1),
                        Kept(s)'[m] = Kept(s)'[n]
                 PROVE  m = n
      BY <2>2
    <3>1. CASE m \in 1..Len(Kept(s)) /\ n \in 1..Len(Kept(s))
      BY <3>1, <2>2, <1>3 DEF Account
    <3>2. CASE m = Len(Kept(s)) + 1 /\ n \in 1..Len(Kept(s))
      BY <3>2, <2>2, <1>2, <1>3 DEF Account
    <3>3. CASE n = Len(Kept(s)) + 1 /\ m \in 1..Len(Kept(s))
      BY <3>3, <2>2, <1>2, <1>3 DEF Account
    <3> QED BY <3>1, <3>2, <3>3, <1>3
  <2>5. Cardinality(Offered(s)') = Len(Kept(s)') + dropped'[s]
    BY <2>2, <1>3, <1>4, <1>5
  <2> QED BY <1>4, <2>3, <2>4, <2>5 DEF Account
<1>6. CASE dropped' = [dropped EXCEPT ![s] = @ + 1] /\ UNCHANGED buffer
  <2>1. Kept(s)' = Kept(s) /\ dropped'[s] = dropped[s] + 1
    BY <1>1, <1>6 DEF Kept, BrokerInv, BrokerType
  <2>2. Cardinality(Offered(s)') = Len(Kept(s)') + dropped'[s]
    BY <2>1, <1>3, <1>4
  <2> QED BY <2>1, <2>2, <1>2, <1>3, <1>4 DEF Account
<1> QED BY <1>5, <1>6 DEF Offer

LEMMA OfferStep ==
  ASSUME BrokerInv, NEW e \in Events, NEW s \in Subs, Offer(e, s) PROVE BrokerInv'
<1>1. /\ UNCHANGED <<pc, rows, audience, sub, received>>
      /\ todo'[e] = todo[e] \ {s} /\ \A x \in Events \ {e} : todo'[x] = todo[x]
  BY DEF Offer, BrokerInv, BrokerType
<1>2. \A t \in Subs \ {s} : buffer'[t] = buffer[t] /\ dropped'[t] = dropped[t]
  BY DEF Offer, BrokerInv, BrokerType
<1>3. BrokerType'
  <2>1. \A t \in Subs : buffer'[t] \in Seq(Events) /\ Len(buffer'[t]) <= BufSize
    <3>1. CASE Len(buffer[s]) < BufSize /\ buffer' = [buffer EXCEPT ![s] = Append(@, e)]
      <4>1. buffer[s] \in Seq(Events) /\ buffer'[s] = Append(buffer[s], e)
        BY <3>1 DEF BrokerInv, BrokerType
      <4>2. buffer'[s] \in Seq(Events) /\ Len(buffer'[s]) = Len(buffer[s]) + 1
            /\ Len(buffer[s]) \in Nat
        BY <4>1
      <4>3. Len(buffer'[s]) <= BufSize
        BY <3>1, <4>2, FanoutAssumption
      <4> QED BY <4>2, <4>3, <1>2 DEF BrokerInv, BrokerType
    <3>2. CASE UNCHANGED buffer
      BY <3>2 DEF BrokerInv, BrokerType
    <3> QED BY <3>1, <3>2 DEF Offer
  <2>2. DOMAIN buffer' = Subs /\ buffer' = [t \in DOMAIN buffer' |-> buffer'[t]]
    BY DEF Offer, BrokerInv, BrokerType
  <2>3. buffer' \in [Subs -> Seq(Events)]
    BY <2>1, <2>2
  <2>4. todo' \in [Events -> SUBSET Subs]
    BY DEF Offer, BrokerInv, BrokerType
  <2>5. dropped' \in [Subs -> Nat]
    <3>1. dropped \in [Subs -> Nat]
      BY DEF BrokerInv, BrokerType
    <3>2. CASE dropped' = [dropped EXCEPT ![s] = @ + 1]
      BY <3>1, <3>2
    <3> QED BY <3>1, <3>2 DEF Offer
  <2> QED BY <1>1, <2>1, <2>3, <2>4, <2>5 DEF BrokerInv, BrokerType
<1>4. NoSendOnClosed'
  BY <1>1 DEF BrokerInv, NoSendOnClosed, Publishing
<1>5. EventInv'
  BY <1>1 DEF BrokerInv, EventInv
<1>6. KeptInv'
  <2>1. ASSUME NEW t \in Subs \ {s} PROVE Account(t)'
    <3>1. Kept(t)' = Kept(t)
      BY <1>1, <1>2 DEF Kept
    <3>2. Account(t)
      BY DEF BrokerInv, KeptInv
    <3> QED BY <3>1, <3>2, <1>1, <1>2, SameAccount DEF BrokerInv
  <2> QED BY <2>1, OfferAccount DEF KeptInv
<1> QED BY <1>3, <1>4, <1>5, <1>6 DEF BrokerInv

\* Subscribing and closing change one subscription, never one that a publisher
\* has still to serve.
LEMMA SubMoves ==
  ASSUME BrokerInv, NEW s \in Subs,
         NEW p \in {"none", "open", "closing", "removed", "closed"},
         sub' = [sub EXCEPT ![s] = p],
         UNCHANGED <<pc, rows, audience, todo, buffer, received, dropped>>,
         p \in {"open", "closing"} \/ Publishing = {} \/ sub[s] \notin {"open", "closing"}
  PROVE  BrokerInv'
<1>1. sub'[s] = p /\ \A t \in Subs \ {s} : sub'[t] = sub[t]
  BY DEF BrokerInv, BrokerType
<1>2. BrokerType'
  BY DEF BrokerInv, BrokerType
<1>3. NoSendOnClosed'
  BY <1>1 DEF BrokerInv, NoSendOnClosed, Publishing
<1>4. EventInv'
  BY DEF BrokerInv, EventInv
<1>5. KeptInv'
  BY SameAccounts DEF BrokerInv
<1> QED BY <1>2, <1>3, <1>4, <1>5 DEF BrokerInv

LEMMA ReadStep ==
  ASSUME BrokerInv, NEW s \in Subs, Read(s) PROVE BrokerInv'
<1>1. /\ UNCHANGED <<pc, rows, audience, todo, sub, dropped>>
      /\ \A t \in Subs \ {s} : buffer'[t] = buffer[t] /\ received'[t] = received[t]
      /\ received[s] \in Seq(Events) /\ buffer[s] \in Seq(Events) /\ buffer[s] # <<>>
      /\ received'[s] = Append(received[s], Head(buffer[s]))
      /\ buffer'[s] = Tail(buffer[s])
  BY DEF Read, BrokerInv, BrokerType
<1>2. /\ received'[s] \in Seq(Events) /\ buffer'[s] \in Seq(Events)
      /\ Len(buffer'[s]) <= Len(buffer[s])
      /\ Len(Kept(s)') = Len(Kept(s))
      /\ \A n \in 1..Len(Kept(s)) : Kept(s)'[n] = Kept(s)[n]
  <2>1. PICK q \in Seq(Events), r \in Seq(Events) : q = received[s] /\ r = buffer[s] /\ r # <<>>
    BY <1>1
  <2>2. Kept(s) = q \o r /\ Kept(s)' = Append(q, Head(r)) \o Tail(r)
    BY <1>1, <2>1 DEF Kept
  <2>3. /\ Append(q, Head(r)) \in Seq(Events) /\ Tail(r) \in Seq(Events)
        /\ Len(Tail(r)) <= Len(r)
        /\ Len(Append(q, Head(r)) \o Tail(r)) = Len(q \o r)
        /\ \A n \in 1..Len(q \o r) : (Append(q, Head(r)) \o Tail(r))[n] = (q \o r)[n]
    BY <2>1, ConcatRead
  <2>4. received'[s] = Append(q, Head(r)) /\ buffer'[s] = Tail(r)
    BY <1>1, <2>1
  <2> QED BY <2>1, <2>2, <2>3, <2>4
<1>3. BrokerType'
  <2>1. /\ DOMAIN buffer' = Subs /\ buffer' = [t \in DOMAIN buffer' |-> buffer'[t]]
        /\ DOMAIN received' = Subs /\ received' = [t \in DOMAIN received' |-> received'[t]]
    BY DEF Read, BrokerInv, BrokerType
  <2>2. \A t \in Subs : /\ buffer'[t] \in Seq(Events) /\ received'[t] \in Seq(Events)
                        /\ Len(buffer'[t]) <= BufSize
    <3>1. /\ Len(buffer[s]) \in Nat /\ Len(buffer'[s]) \in Nat /\ Len(buffer[s]) <= BufSize
          /\ BufSize \in Nat
      BY <1>1, <1>2, FanoutAssumption DEF BrokerInv, BrokerType
    <3>2. Len(buffer'[s]) <= BufSize
      BY <3>1, <1>2
    <3>3. ASSUME NEW t \in Subs \ {s}
          PROVE  /\ buffer'[t] \in Seq(Events) /\ received'[t] \in Seq(Events)
                 /\ Len(buffer'[t]) <= BufSize
      BY <1>1 DEF BrokerInv, BrokerType
    <3> QED BY <3>2, <3>3, <1>2
  <2>3. buffer' \in [Subs -> Seq(Events)] /\ received' \in [Subs -> Seq(Events)]
    BY <2>1, <2>2
  <2> QED BY <1>1, <2>2, <2>3 DEF BrokerInv, BrokerType
<1>4. NoSendOnClosed' /\ EventInv'
  BY <1>1 DEF BrokerInv, NoSendOnClosed, EventInv, Publishing
<1>5. KeptInv'
  <2>1. ASSUME NEW t \in Subs \ {s} PROVE Account(t)'
    <3>1. Kept(t)' = Kept(t)
      BY <1>1 DEF Kept
    <3>2. Account(t)
      BY DEF BrokerInv, KeptInv
    <3> QED BY <3>1, <3>2, <1>1, SameAccount DEF BrokerInv
  <2>2. Account(s)'
    BY <1>1, <1>2, SameAccount DEF BrokerInv, KeptInv
  <2> QED BY <2>1, <2>2 DEF KeptInv
<1> QED BY <1>3, <1>4, <1>5 DEF BrokerInv

\* What the dispatcher does on its own is invisible here.
LEMMA BrokerUntouched ==
  ASSUME BrokerInv, UNCHANGED <<pc, rows, broker>> PROVE BrokerInv'
<1>1. UNCHANGED <<pc, rows, audience, todo, sub, buffer, received, dropped>>
  BY DEF broker
<1>2. BrokerType'
  BY <1>1 DEF BrokerInv, BrokerType
<1>3. NoSendOnClosed' /\ EventInv'
  BY <1>1 DEF BrokerInv, NoSendOnClosed, EventInv, Publishing
<1>4. KeptInv'
  BY <1>1, SameAccounts DEF BrokerInv
<1> QED BY <1>2, <1>3, <1>4 DEF BrokerInv

LEMMA BrokerStep ==
  ASSUME BrokerInv, [Next]_vars PROVE BrokerInv'
<1>1. ASSUME NEW e \in Events, Record(e) PROVE BrokerInv'
  <2>1. rows \subseteq Events /\ (pc[e] \in {"publishing", "published"} => e \in rows)
    BY DEF BrokerInv, BrokerType, EventInv
  <2>2. CASE Store(e)
    BY <2>1, <2>2, PcMoves DEF Store
  <2>3. CASE Published(e)
    BY <2>1, <2>3, PcMoves DEF Published
  <2>4. CASE Dispatch(e)
    BY <2>1, <2>4, PcMoves DEF Dispatch
  <2> QED BY <1>1, <2>2, <2>3, <2>4, PublishStep, OfferStep DEF Record
<1>2. ASSUME NEW s \in Subs, Subscribe(s) \/ Close(s) \/ Closing(s) PROVE BrokerInv'
  BY <1>2, SubMoves DEF Subscribe, Close, Closing, Unsubscribe, CloseChannel
<1>3. ASSUME NEW s \in Subs, Read(s) PROVE BrokerInv'
  BY <1>3, ReadStep
<1>4. CASE (\E d \in Dests : Edit(d)) \/ Load \/ Reload \/ Cancel \/ ShutdownAll
  BY <1>4, BrokerUntouched DEF Edit, Load, Reload, Sweep, BuildFails, Install, Cancel, ShutdownAll
<1>5. CASE \E w \in Workers : Run(w)
  BY <1>5, BrokerUntouched DEF Run, Take, Quit, ExportOk, ExportFails
<1>6. CASE UNCHANGED vars
  BY <1>6, BrokerUntouched DEF vars
<1> QED BY <1>1, <1>2, <1>3, <1>4, <1>5, <1>6 DEF Next

-----------------------------------------------------------------------------
(* The dispatcher. *)

SiemType ==
  /\ enabled \subseteq Dests /\ edits \in 0..MaxEdits
  /\ workers \in [Dests -> Workers \cup {None}]
  /\ worker \in [Workers -> WorkerRec \cup {None}]
  /\ reload \in [state : {"resting", "running", "over"}, want : SUBSET Dests, left : SUBSET Dests]
  /\ stopping \in BOOLEAN

\* A worker that was started: it has an attempt left, and all it was given has
\* a row.
Sound(r, stored) ==
  /\ r \in WorkerRec /\ r.attempt < Attempts
  /\ r.handled \subseteq stored /\ r.event \in stored \cup {None}
  /\ \A n \in 1..Len(r.in) : r.in[n] \in stored

WorkerInv == \A w \in Workers : worker[w] # None => Sound(worker[w], rows)

MapInv ==
  \A d \in Dests : workers[d] # None =>
    worker[workers[d]] # None /\ worker[workers[d]].dest = d

SiemInv == SiemType /\ WorkerInv /\ MapInv /\ OneWorker

\* Steps of the dispatcher that leave its workers alone, and steps of others.
LEMMA WorkersUntouched ==
  ASSUME SiemInv, rows \subseteq rows', UNCHANGED <<workers, worker>>, SiemType'
  PROVE  SiemInv'
<1>1. WorkerInv'
  BY DEF SiemInv, WorkerInv, Sound
<1>2. MapInv' /\ OneWorker'
  BY DEF SiemInv, MapInv, OneWorker
<1> QED BY <1>1, <1>2 DEF SiemInv

\* Steps that change what workers hold, not which are started or told to stop.
LEMMA WorkersWork ==
  ASSUME SiemInv, SiemType', UNCHANGED workers,
         \A w \in Workers :
           \/ worker[w] = None /\ worker'[w] = None
           \/ /\ worker[w] # None /\ Sound(worker'[w], rows')
              /\ worker'[w].dest = worker[w].dest /\ worker'[w].done = worker[w].done
  PROVE  SiemInv'
<1>1. \A w \in Workers : worker'[w] # None <=> worker[w] # None
  BY FanoutAssumption DEF Sound
<1>2. WorkerInv'
  BY <1>1 DEF WorkerInv
<1>3. MapInv'
  BY <1>1, FanoutAssumption DEF SiemInv, SiemType, MapInv
<1>4. OneWorker'
  BY <1>1 DEF SiemInv, OneWorker
<1> QED BY <1>2, <1>3, <1>4 DEF SiemInv

LEMMA DispatchStep ==
  ASSUME BrokerInv, SiemInv, NEW e \in Events, Dispatch(e) PROVE SiemInv'
<1>1. e \in rows /\ UNCHANGED <<rows, enabled, edits, workers, reload, stopping>>
  BY DEF Dispatch, BrokerInv, EventInv
<1>2. \A w \in Workers : \/ worker'[w] = worker[w]
                         \/ /\ \E d \in Dests : workers[d] = w
                            /\ worker'[w] = [worker[w] EXCEPT !.in = Append(@, e)]
  BY DEF Dispatch
<1>3. ASSUME NEW w \in Workers, NEW d \in Dests, workers[d] = w,
             worker'[w] = [worker[w] EXCEPT !.in = Append(@, e)]
      PROVE  /\ worker[w] # None /\ Sound(worker'[w], rows')
             /\ worker'[w].dest = worker[w].dest /\ worker'[w].done = worker[w].done
  <2>1. worker[w] # None /\ worker[w] \in WorkerRec
    BY <1>3, FanoutAssumption DEF SiemInv, SiemType, MapInv
  <2>2. worker[w].in \in Seq(Events) /\ Sound(worker[w], rows)
    BY <2>1 DEF WorkerRec, SiemInv, WorkerInv
  <2>3. worker'[w] \in WorkerRec
    <3>0. PICK p \in Seq(Events) : p = worker[w].in
      BY <2>2
    <3>1. PICK q \in Seq(Events) : q = Append(p, e)
      <4>1. Append(p, e) \in Seq(Events)
        OBVIOUS
      <4> QED BY <4>1
    <3>2. worker'[w] = [worker[w] EXCEPT !.in = q]
      BY <1>3, <3>0, <3>1
    <3> QED BY <2>1, <3>2 DEF WorkerRec
  <2>4. /\ worker'[w].in = Append(worker[w].in, e) /\ worker'[w].attempt = worker[w].attempt
        /\ worker'[w].handled = worker[w].handled /\ worker'[w].event = worker[w].event
        /\ worker'[w].dest = worker[w].dest /\ worker'[w].done = worker[w].done
    BY <1>3, <2>1 DEF WorkerRec
  <2>5. \A n \in 1..Len(worker'[w].in) : worker'[w].in[n] \in rows
    BY <1>1, <2>2, <2>4 DEF Sound
  <2> QED BY <1>1, <2>1, <2>2, <2>3, <2>4, <2>5 DEF Sound
<1>4. \A w \in Workers :
        \/ worker[w] = None /\ worker'[w] = None
        \/ /\ worker[w] # None /\ Sound(worker'[w], rows')
           /\ worker'[w].dest = worker[w].dest /\ worker'[w].done = worker[w].done
  BY <1>1, <1>2, <1>3 DEF SiemInv, WorkerInv, Sound
<1>5. worker' \in [Workers -> WorkerRec \cup {None}]
  <2>1. worker' = [w \in Workers |-> worker'[w]]
    BY DEF Dispatch
  <2> QED BY <1>4, <2>1 DEF Sound
<1>6. SiemType'
  BY <1>1, <1>5 DEF SiemInv, SiemType
<1> QED BY <1>1, <1>4, <1>6, WorkersWork

\* One worker goes on with its record r.
LEMMA WorkerGoesOn ==
  ASSUME SiemInv, NEW w \in Workers, worker[w] # None, NEW r \in WorkerRec,
         worker' = [worker EXCEPT ![w] = r], Sound(r, rows),
         r.dest = worker[w].dest, r.done = worker[w].done,
         UNCHANGED <<rows, enabled, edits, workers, reload, stopping>>
  PROVE  SiemInv'
<1>1. worker'[w] = r /\ \A v \in Workers \ {w} : worker'[v] = worker[v]
  BY DEF SiemInv, SiemType
<1>2. SiemType'
  BY DEF SiemInv, SiemType
<1>3. Sound(worker'[w], rows')
  BY <1>1 DEF Sound
<1>4. \A v \in Workers \ {w} : worker'[v] # None => Sound(worker'[v], rows')
  BY <1>1 DEF SiemInv, WorkerInv, Sound
<1> QED BY <1>1, <1>2, <1>3, <1>4, WorkersWork

LEMMA RunStep ==
  ASSUME SiemInv, NEW w \in Workers, Run(w) PROVE SiemInv'
<1> DEFINE r == worker[w]
<1>1. /\ r # None /\ r \in WorkerRec /\ Sound(r, rows)
      /\ UNCHANGED <<rows, enabled, edits, workers, reload, stopping>>
  BY FanoutAssumption
     DEF Run, Take, Quit, ExportOk, ExportFails, Waiting, SiemInv, SiemType, WorkerInv
<1>2. /\ r.in \in Seq(Events) /\ r.attempt \in 0..Attempts /\ Attempts \in Nat \ {0}
      /\ r.handled \in SUBSET Events /\ r.event \in Events \cup {None}
  BY <1>1, FanoutAssumption DEF WorkerRec
<1>3. CASE Take(w)
  <2> DEFINE t == [r EXCEPT !.event = Head(r.in), !.in = Tail(r.in), !.attempt = 0]
  <2>1. worker' = [worker EXCEPT ![w] = t] /\ r.in # <<>>
    BY <1>3 DEF Take
  <2>2. /\ Head(r.in) \in Events /\ Head(r.in) = r.in[1] /\ 1 \in 1..Len(r.in)
        /\ Tail(r.in) \in Seq(Events) /\ Len(Tail(r.in)) = Len(r.in) - 1
        /\ \A n \in 1..Len(Tail(r.in)) : Tail(r.in)[n] = r.in[n + 1] /\ n + 1 \in 1..Len(r.in)
    BY <1>2, <2>1
  <2>3. t \in WorkerRec
    <3>1. PICK h \in Events, q \in Seq(Events) : h = Head(r.in) /\ q = Tail(r.in)
      BY <2>2
    <3>2. t = [r EXCEPT !.event = h, !.in = q, !.attempt = 0] /\ 0 \in 0..Attempts
      BY <1>2, <3>1
    <3> QED BY <1>1, <3>2 DEF WorkerRec
  <2>4. /\ t.event = Head(r.in) /\ t.in = Tail(r.in) /\ t.attempt = 0
        /\ t.handled = r.handled /\ t.dest = r.dest /\ t.done = r.done
    BY <1>1 DEF WorkerRec
  <2> HIDE DEF t
  <2>5. Sound(t, rows)
    BY <1>1, <1>2, <2>2, <2>3, <2>4 DEF Sound
  <2> QED BY <1>1, <2>1, <2>3, <2>4, <2>5, WorkerGoesOn
<1>4. CASE Quit(w)
  <2> DEFINE t == [r EXCEPT !.gone = TRUE]
  <2>1. worker' = [worker EXCEPT ![w] = t]
    BY <1>4 DEF Quit
  <2>2. t \in WorkerRec
    BY <1>1 DEF WorkerRec
  <2>3. /\ t.event = r.event /\ t.in = r.in /\ t.attempt = r.attempt
        /\ t.handled = r.handled /\ t.dest = r.dest /\ t.done = r.done
    BY <1>1 DEF WorkerRec
  <2> HIDE DEF t
  <2>4. Sound(t, rows)
    BY <1>1, <2>2, <2>3 DEF Sound
  <2> QED BY <1>1, <2>1, <2>2, <2>3, <2>4, WorkerGoesOn
<1>5. ASSUME r.event # None, worker' = [worker EXCEPT ![w] = Handled(@)] PROVE SiemInv'
  <2> DEFINE t == Handled(r)
  <2>1. worker' = [worker EXCEPT ![w] = t]
    BY <1>5 DEF SiemInv, SiemType
  <2>2. t \in WorkerRec
    <3>1. PICK H \in SUBSET Events : H = r.handled \cup {r.event}
      BY <1>2, <1>5
    <3>2. t = [r EXCEPT !.event = None, !.attempt = 0, !.handled = H] /\ 0 \in 0..Attempts
      BY <1>2, <3>1 DEF Handled
    <3> QED BY <1>1, <3>2 DEF WorkerRec
  <2>3. /\ t.event = None /\ t.in = r.in /\ t.attempt = 0
        /\ t.handled = r.handled \cup {r.event} /\ t.dest = r.dest /\ t.done = r.done
    BY <1>1 DEF WorkerRec, Handled
  <2> HIDE DEF t
  <2>4. Sound(t, rows)
    BY <1>1, <1>2, <1>5, <2>2, <2>3 DEF Sound
  <2> QED BY <1>1, <2>1, <2>2, <2>3, <2>4, WorkerGoesOn
<1>6. CASE ExportOk(w)
  BY <1>5, <1>6 DEF ExportOk
<1>7. CASE ExportFails(w)
  <2>1. CASE r.attempt = Attempts - 1
    BY <1>5, <1>7, <2>1 DEF ExportFails
  <2>2. CASE r.attempt # Attempts - 1
    <3> DEFINE t == [r EXCEPT !.attempt = r.attempt + 1]
    <3>1. worker' = [worker EXCEPT ![w] = t]
      <4>1. worker' = [worker EXCEPT ![w] = IF r.attempt = Attempts - 1 THEN Handled(r) ELSE t]
        BY <1>7 DEF ExportFails
      <4>2. (IF r.attempt = Attempts - 1 THEN Handled(r) ELSE t) = t
        BY <2>2
      <4> QED BY <4>1, <4>2, Zenon
    <3>2. r.attempt + 1 \in 0..Attempts /\ r.attempt + 1 < Attempts
      BY <1>1, <1>2, <2>2 DEF Sound
    <3>3. t \in WorkerRec
      BY <1>1, <3>2 DEF WorkerRec
    <3>4. /\ t.event = r.event /\ t.in = r.in /\ t.attempt = r.attempt + 1
          /\ t.handled = r.handled /\ t.dest = r.dest /\ t.done = r.done
      BY <1>1 DEF WorkerRec
    <3> HIDE DEF t
    <3>5. Sound(t, rows)
      BY <1>1, <3>2, <3>3, <3>4 DEF Sound
    <3> QED BY <1>1, <3>1, <3>3, <3>4, <3>5, WorkerGoesOn
  <2> QED BY <2>1, <2>2
<1> QED BY <1>3, <1>4, <1>6, <1>7 DEF Run

LEMMA InstallStep ==
  ASSUME SiemInv, NEW d \in Dests, Install(d) PROVE SiemInv'
<1>1. /\ reload' \in [state : {"resting", "running", "over"}, want : SUBSET Dests, left : SUBSET Dests]
      /\ UNCHANGED <<rows, enabled, edits, stopping>>
  BY DEF Install, SiemInv, SiemType
<1>2. CASE UNCHANGED <<workers, worker>>
  BY <1>1, <1>2, WorkersUntouched DEF SiemInv, SiemType
<1>3. CASE /\ workers[d] = None
           /\ \E w \in Workers : /\ worker[w] = None
                                 /\ workers' = [workers EXCEPT ![d] = w]
                                 /\ worker' = [worker EXCEPT ![w] = NewWorker(d)]
  <2>1. PICK w \in Workers : /\ worker[w] = None
                             /\ workers' = [workers EXCEPT ![d] = w]
                             /\ worker' = [worker EXCEPT ![w] = NewWorker(d)]
    BY <1>3
  <2>2. /\ workers'[d] = w /\ \A c \in Dests \ {d} : workers'[c] = workers[c]
        /\ worker'[w] = NewWorker(d) /\ \A v \in Workers \ {w} : worker'[v] = worker[v]
    BY <2>1 DEF SiemInv, SiemType
  <2>3. /\ NewWorker(d) \in WorkerRec /\ NewWorker(d).dest = d /\ ~NewWorker(d).done
        /\ NewWorker(d).attempt = 0 /\ NewWorker(d).handled = {} /\ NewWorker(d).event = None
        /\ NewWorker(d).in = <<>>
    BY FanoutAssumption DEF NewWorker, WorkerRec
  <2>4. NewWorker(d) # None
    BY <2>3, FanoutAssumption
  <2>5. Sound(NewWorker(d), rows')
    BY <2>3, FanoutAssumption DEF Sound, NewWorker
  <2>6. SiemType'
    BY <1>1, <2>1, <2>3 DEF SiemInv, SiemType
  <2>7. WorkerInv'
    BY <1>1, <2>2, <2>5 DEF SiemInv, WorkerInv, Sound
  <2>8. \A c \in Dests : workers[c] # w
    BY <2>1, FanoutAssumption DEF SiemInv, MapInv
  <2>9. MapInv'
    <3>1. ASSUME NEW c \in Dests \ {d}, workers'[c] # None
          PROVE  worker'[workers'[c]] # None /\ worker'[workers'[c]].dest = c
      <4>1. workers[c] \in Workers \ {w} /\ worker[workers[c]] # None /\ worker[workers[c]].dest = c
        BY <3>1, <2>2, <2>8 DEF SiemInv, SiemType, MapInv
      <4> QED BY <4>1, <2>2
    <3> QED BY <3>1, <2>2, <2>3, <2>4 DEF MapInv
  <2>10. OneWorker'
    <3>1. worker'[w].done <=> workers'[worker'[w].dest] # w
      BY <2>2, <2>3
    <3>2. ASSUME NEW v \in Workers \ {w}, worker'[v] # None
          PROVE  worker'[v].done <=> workers'[worker'[v].dest] # v
      <4>1. worker[v] # None /\ worker'[v] = worker[v] /\ worker[v].dest \in Dests
        BY <3>2, <2>2 DEF SiemInv, WorkerInv, Sound, WorkerRec
      <4>2. worker[v].done <=> workers[worker[v].dest] # v
        BY <4>1 DEF SiemInv, OneWorker
      <4>3. CASE worker[v].dest = d
        BY <4>1, <4>2, <4>3, <2>2, <1>3, FanoutAssumption
      <4>4. CASE worker[v].dest # d
        BY <4>1, <4>2, <4>4, <2>2
      <4> QED BY <4>3, <4>4
    <3> QED BY <3>1, <3>2 DEF OneWorker
  <2> QED BY <2>6, <2>7, <2>9, <2>10 DEF SiemInv
<1> QED BY <1>2, <1>3 DEF Install

\* A worker that is told to stop leaves the map in the same step.
LEMMA StopStep ==
  ASSUME SiemInv, NEW D \in SUBSET Dests, StopWorkers(D),
         reload' \in [state : {"resting", "running", "over"}, want : SUBSET Dests, left : SUBSET Dests],
         UNCHANGED <<rows, enabled, edits, stopping>>
  PROVE  SiemInv'
<1>1. /\ \A d \in Dests : workers'[d] = IF d \in D THEN None ELSE workers[d]
      /\ workers' \in [Dests -> Workers \cup {None}]
      /\ worker' = [w \in Workers |-> worker'[w]]
  BY DEF StopWorkers, SiemInv, SiemType
<1>2. ASSUME NEW w \in Workers, \E d \in D : workers[d] = w
      PROVE  /\ worker[w] # None /\ worker'[w] # None /\ Sound(worker'[w], rows')
             /\ worker'[w].done /\ worker'[w].dest = worker[w].dest
             /\ workers'[worker[w].dest] = None
  <2>1. PICK d \in D : workers[d] = w
    BY <1>2
  <2>2. worker[w] # None /\ worker[w].dest = d /\ Sound(worker[w], rows) /\ worker[w] \in WorkerRec
    BY <2>1, FanoutAssumption DEF SiemInv, MapInv, WorkerInv, Sound
  <2>3. worker'[w] = [worker[w] EXCEPT !.done = TRUE]
    BY <1>2 DEF StopWorkers
  <2>4. worker'[w] \in WorkerRec
    BY <2>2, <2>3 DEF WorkerRec
  <2>5. /\ worker'[w].done = TRUE /\ worker'[w].dest = worker[w].dest
        /\ worker'[w].in = worker[w].in /\ worker'[w].event = worker[w].event
        /\ worker'[w].handled = worker[w].handled /\ worker'[w].attempt = worker[w].attempt
    BY <2>2, <2>3 DEF WorkerRec
  <2>6. Sound(worker'[w], rows')
    BY <2>2, <2>4, <2>5 DEF Sound
  <2> QED BY <2>1, <2>2, <2>4, <2>5, <2>6, <1>1, FanoutAssumption
<1>3. ASSUME NEW w \in Workers, ~\E d \in D : workers[d] = w
      PROVE  /\ worker'[w] = worker[w]
             /\ worker[w] # None => /\ Sound(worker'[w], rows') /\ worker[w].dest \in Dests
                                    /\ worker[w].done <=> workers'[worker[w].dest] # w
  <2>1. worker'[w] = worker[w]
    BY <1>3 DEF StopWorkers
  <2>2. ASSUME worker[w] # None
        PROVE  /\ Sound(worker'[w], rows') /\ worker[w].dest \in Dests
               /\ worker[w].done <=> workers'[worker[w].dest] # w
    <3>1. Sound(worker[w], rows) /\ worker[w].dest \in Dests
      BY <2>2 DEF SiemInv, WorkerInv, Sound, WorkerRec
    <3>2. worker[w].done <=> workers[worker[w].dest] # w
      BY <2>2 DEF SiemInv, OneWorker
    <3>3. workers'[worker[w].dest] # w <=> workers[worker[w].dest] # w
      BY <1>1, <1>3, <3>1, FanoutAssumption
    <3>4. Sound(worker'[w], rows')
      BY <2>1, <3>1 DEF Sound
    <3> QED BY <3>1, <3>2, <3>3, <3>4
  <2> QED BY <2>1, <2>2
<1>4. WorkerInv'
  BY <1>2, <1>3 DEF WorkerInv
<1>5. SiemType'
  <2>1. \A w \in Workers : worker'[w] \in WorkerRec \cup {None}
    BY <1>4 DEF WorkerInv, Sound
  <2> QED BY <1>1, <2>1 DEF SiemInv, SiemType
<1>6. MapInv'
  <2> SUFFICES ASSUME NEW d \in Dests, workers'[d] # None
               PROVE  worker'[workers'[d]] # None /\ worker'[workers'[d]].dest = d
    BY DEF MapInv
  <2>1. d \notin D /\ workers'[d] = workers[d] /\ workers[d] \in Workers
    BY <1>1 DEF SiemInv, SiemType
  <2>2. worker[workers[d]] # None /\ worker[workers[d]].dest = d
    BY <2>1 DEF SiemInv, MapInv
  <2> QED BY <2>1, <2>2, <1>2, <1>3
<1>7. OneWorker'
  <2> SUFFICES ASSUME NEW w \in Workers, worker'[w] # None
               PROVE  worker'[w].done <=> workers'[worker'[w].dest] # w
    BY DEF OneWorker
  <2>1. CASE \E d \in D : workers[d] = w
    BY <2>1, <1>2, FanoutAssumption
  <2>2. CASE ~\E d \in D : workers[d] = w
    BY <2>2, <1>3
  <2> QED BY <2>1, <2>2
<1> QED BY <1>4, <1>5, <1>6, <1>7 DEF SiemInv

LEMMA SiemStep ==
  ASSUME BrokerInv, SiemInv, [Next]_vars PROVE SiemInv'
<1>1. ASSUME rows \subseteq rows', UNCHANGED siem PROVE SiemInv'
  BY <1>1, WorkersUntouched DEF siem, SiemInv, SiemType
<1>2. ASSUME NEW e \in Events, Record(e) PROVE SiemInv'
  BY <1>1, <1>2, DispatchStep DEF Record, Store, Publish, Offer, Published
<1>3. CASE \E s \in Subs : Subscribe(s) \/ Read(s) \/ Close(s) \/ Closing(s)
  BY <1>1, <1>3 DEF Subscribe, Read, Close, Closing, Unsubscribe, CloseChannel
<1>4. ASSUME NEW d \in Dests, Edit(d) PROVE SiemInv'
  <2>1. UNCHANGED <<rows, workers, worker, reload, stopping>>
    BY <1>4 DEF Edit
  <2>2. enabled' \subseteq Dests /\ edits' \in 0..MaxEdits
    BY <1>4, FanoutAssumption DEF Edit, SiemInv, SiemType
  <2> QED BY <2>1, <2>2, WorkersUntouched DEF SiemInv, SiemType
<1>5. CASE Load \/ (\E d \in Dests : BuildFails(d)) \/ Cancel
  <2>1. UNCHANGED <<rows, enabled, edits, workers, worker>>
    BY <1>5 DEF Load, BuildFails, Cancel
  <2>2. reload' \in [state : {"resting", "running", "over"}, want : SUBSET Dests, left : SUBSET Dests]
    <3>1. CASE Load
      BY <3>1 DEF Load, SiemInv, SiemType
    <3>2. CASE Cancel
      BY <3>2 DEF Cancel, SiemInv, SiemType
    <3>3. CASE \E d \in Dests : BuildFails(d)
      BY <3>3 DEF BuildFails, SiemInv, SiemType
    <3> QED BY <1>5, <3>1, <3>2, <3>3
  <2>3. stopping' \in BOOLEAN
    BY <1>5 DEF Load, BuildFails, Cancel, SiemInv, SiemType
  <2> QED BY <2>1, <2>2, <2>3, WorkersUntouched DEF SiemInv, SiemType
<1>6. ASSUME NEW d \in Dests, Install(d) PROVE SiemInv'
  BY <1>6, InstallStep
<1>7. CASE Sweep
  <2>1. /\ StopWorkers(Dests \ reload.want) /\ reload' = Loop("resting")
        /\ UNCHANGED <<rows, enabled, edits, stopping>>
    BY <1>7 DEF Sweep
  <2> QED BY <2>1, StopStep DEF Loop
<1>8. CASE ShutdownAll
  <2>1. /\ StopWorkers(Dests) /\ reload' = Loop("over")
        /\ UNCHANGED <<rows, enabled, edits, stopping>>
    BY <1>8 DEF ShutdownAll
  <2> QED BY <2>1, StopStep DEF Loop
<1>9. ASSUME NEW w \in Workers, Run(w) PROVE SiemInv'
  BY <1>9, RunStep
<1>10. CASE UNCHANGED vars
  BY <1>1, <1>10 DEF vars
<1> QED
  BY <1>2, <1>3, <1>4, <1>5, <1>6, <1>7, <1>8, <1>9, <1>10 DEF Next, Reload

-----------------------------------------------------------------------------
LEMMA StartsSound == Init => BrokerInv /\ SiemInv
<1> SUFFICES ASSUME Init PROVE BrokerInv /\ SiemInv
  OBVIOUS
<1>1. BrokerType
  BY FanoutAssumption DEF Init, BrokerType
<1>2. NoSendOnClosed /\ EventInv
  BY DEF Init, NoSendOnClosed, EventInv, Publishing
<1>3. KeptInv
  <2> SUFFICES ASSUME NEW s \in Subs PROVE Account(s)
    BY DEF KeptInv
  <2>1. Offered(s) = {} /\ Kept(s) = <<>> /\ dropped[s] = 0
    BY DEF Init, Offered, Kept
  <2> QED BY <2>1, FS_EmptySet DEF Account
<1>4. SiemType
  <2>1. edits = 0 /\ stopping = FALSE /\ reload = Loop("resting") /\ enabled \subseteq Dests
    BY DEF Init
  <2>2. workers \in [Dests -> Workers \cup {None}] /\ worker \in [Workers -> WorkerRec \cup {None}]
    BY DEF Init
  <2>3. 0 \in 0..MaxEdits
    BY FanoutAssumption
  <2> QED BY <2>1, <2>2, <2>3 DEF SiemType, Loop
<1>5. WorkerInv /\ MapInv /\ OneWorker
  BY DEF Init, WorkerInv, MapInv, OneWorker
<1> QED BY <1>1, <1>2, <1>3, <1>4, <1>5 DEF BrokerInv, SiemInv

\* Whatever Record calls, subscribers, the reload loop and the workers do to
\* each other: Publish never sends on a closed channel, a subscription's
\* events are received, buffered or counted as dropped, nobody hears of an
\* event without a row, and no worker of the dispatcher is leaked.
THEOREM FanoutHolds == Spec => []FanoutInv
<1>1. BrokerInv /\ SiemInv /\ [Next]_vars => BrokerInv' /\ SiemInv'
  BY BrokerStep, SiemStep
<1>2. BrokerInv /\ SiemInv => FanoutInv
  <2> SUFFICES ASSUME BrokerInv, SiemInv PROVE FanoutInv
    OBVIOUS
  <2>1. TypeOK
    BY DEF BrokerInv, SiemInv, BrokerType, SiemType, TypeOK
  <2>2. DurableFirst
    BY DEF BrokerInv, SiemInv, BrokerType, EventInv, WorkerInv, Sound, DurableFirst
  <2> QED BY <2>1, <2>2, AccountsAreRight DEF BrokerInv, SiemInv, FanoutInv
<1> QED BY <1>1, <1>2, StartsSound, PTL DEF Spec
=============================================================================
